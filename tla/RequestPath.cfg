SPECIFICATION FairSpec
CONSTANTS
  Tasks = {t1, t2, t3}
  Files = {f}
  MaxFailNext = 1
INVARIANTS TypeOK ResetIsAlone LeasesAreCounted NoLostWakeup LeasedFilesStay FaultsAreExact
PROPERTIES UsesBarrier RequestsAreServed EveryoneIsServed
CHECK_DEADLOCK FALSE
