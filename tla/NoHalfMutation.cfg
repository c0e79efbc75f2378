SPECIFICATION Spec
SYMMETRY Symmetry
CONSTANTS
  Requests = {r1, r2}
  Charges = {c1, c2}
  Ids = {i1, i2, i3, i4}
  MaxAttachments = 2
INVARIANT NoHalfMutation
CHECK_DEADLOCK FALSE
