CONSTANTS
  op1 = op1  op2 = op2  r1 = r1
  Command = {op1, op2}
  Request = {r1}
  MaxCommands = 3
  MaxDeletes = 2
SPECIFICATION Spec
SYMMETRY MCSymmetry
INVARIANTS TypeOK ReportedStands SignsFinishedKeys LoadIsAtomic
