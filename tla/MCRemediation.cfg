CONSTANTS
  MaxReplicas = 2
  MaxWrites = 4
  InitialManagers <- Either
SPECIFICATION LiveSpec
INVARIANTS TypeOK
PROPERTIES WritesOnlyOwned NeverTakesReplicas EventuallyRemediated AtomicScaleDown
CHECK_DEADLOCK FALSE
