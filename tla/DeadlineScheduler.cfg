SPECIFICATION FairSpec
CONSTANTS
  c1 = c1
  c2 = c2
  Charges = {c1, c2}
  Deadlines = {2, 3, 5}
  SeedDeadlines <- SeedC1
  MaxTime = 5
INVARIANT TypeOK
PROPERTY SleeperForgetsNobody
CHECK_DEADLOCK FALSE
