CONSTANTS
  c1 = c1  c2 = c2  free = free  h1 = h1  h2 = h2
  Caller = {c1, c2, free}
  Handler = {h1, h2}
  Limit <- MCLimit
  MaxHour = 2
  MaxRestarts = 1
SPECIFICATION Spec
SYMMETRY MCSymmetry
INVARIANTS TypeOK HourlyBound
PROPERTY DeniedForReason
