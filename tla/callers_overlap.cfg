CONSTANTS
  op1 = op1  op2 = op2  ci = ci  dev = dev
  Command = {op1, op2}
  Name = {ci, dev}
  MaxActive = 2
  MaxCommands = 4
CHECK_DEADLOCK FALSE
SPECIFICATION Spec
SYMMETRY MCSymmetry
INVARIANTS TypeOK PolicyDecodes ReportedAloneHolds
PROPERTY KeepsStore
