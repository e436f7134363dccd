CONSTANTS
  s1 = s1  s2 = s2  v1 = v1  old = old  new = new  k1 = k1  k2 = k2
  None = None  Mixed = Mixed  Stranger = Stranger
  Command = {s1, s2}
  Verify = {v1}
  Version = {old, new}
  Pair = {k1, k2}
  MaxEdits = 2
CHECK_DEADLOCK FALSE
SPECIFICATION Spec
SYMMETRY MCSymmetry
INVARIANTS TypeOK SigIsOwn VerifiedIsSigned SignedVerifies
