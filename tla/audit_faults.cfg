CONSTANTS
  daemon = daemon  cli = cli  t1 = t1  t2 = t2  t3 = t3
  None = None  Garbage = Garbage
  Thread = {t1, t2, t3}
  ProcOf <- MCShared
  Proc = {daemon, cli}
  Flocks = TRUE
  TornKinds = {"fragment", "unterminated"}
  MaxLines = 3
  Body = {"sign", "caller-add"}
CHECK_DEADLOCK FALSE
SPECIFICATION Spec
SYMMETRY MCSymmetry
INVARIANTS TypeOK ChainIntact AtMostOneLost TamperShows
PROPERTY DamageSticks
