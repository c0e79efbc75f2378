SPECIFICATION Spec
SYMMETRY KeySymmetry
CONSTANTS
  Keys = {k1, k2}
  Tasks = {t1}
  SeedCharges <- SeedOne
  Deadlines = {3}
  RingCapacity = 3
  MaxCharges = 2
  MaxVersion = 3
  MaxRevision = 4
  MaxEpoch = 2
  MaxTime = 3
INVARIANT ReplayIsExact
CHECK_DEADLOCK FALSE
