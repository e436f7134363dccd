CONSTANTS
  d1 = d1  d2 = d2  d3 = d3
  Proc = {d1, d2, d3}
  MaxStarts = 5
CHECK_DEADLOCK FALSE
SPECIFICATION Spec
SYMMETRY MCSymmetry
INVARIANTS TypeOK KeepsItsPath OneServes
PROPERTY LoneStartSucceeds
