CONSTANTS
  r1 = r1  r2 = r2  ci = ci  dev = dev  tok1 = tok1
  release = release  app = app  doc = doc
  NoCaller = NoCaller  NoToken = NoToken  AnyKey = AnyKey  Garbage = Garbage
  Request = {r1}
  Name = {ci}
  Token = {tok1}
  Key = {release}
  Terms <- MCGapTerms
  Wants <- MCGoodWant
  Body <- MCBody
  AppendMayFail = TRUE
  MaxTime = 1
  MaxEdits = 1
SPECIFICATION Spec
INVARIANT GapSurfaces
