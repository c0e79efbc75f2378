SPECIFICATION Spec
SYMMETRY Symmetry
CONSTANTS
  c1 = c1
  Backends = {b1, b2}
  Scripts = {s1}
  Inodes = {n1, n2}
  Charges = {c1}
  SeedRows <- SeedRowsC1
  Amounts = {12, 7}
  Ids = {i1, i2}
  NoInode = NoInode
  Nobody = Nobody
  NoRow = NoRow
  NoBreakdown = NoBreakdown
  Absent = Absent
  Unusable = Unusable
INVARIANTS TypeOK OneOwner ServesTheDirectory ReferencesResolve BreakdownsAddUp
PROPERTY RefusedStateIsPreserved
CHECK_DEADLOCK FALSE
