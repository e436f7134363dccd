CONSTANTS
  r1 = r1  r2 = r2  ci = ci  dev = dev  tok1 = tok1
  release = release  app = app  doc = doc
  NoCaller = NoCaller  NoToken = NoToken  AnyKey = AnyKey  Garbage = Garbage
  Request = {r1, r2}
  Name = {ci, dev}
  Token = {tok1}
  Key = {release}
  Terms <- MCSignTerms
  Wants <- MCWants
  Body <- MCBody
  AppendMayFail = FALSE
  MaxTime = 1
  MaxEdits = 2
SPECIFICATION Spec
SYMMETRY MCSymmetry
INVARIANTS TypeOK ReleaseJustified LogTellsAnswers
PROPERTIES DecidesAtOnce
