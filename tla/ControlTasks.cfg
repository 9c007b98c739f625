SPECIFICATION FairSpec
CONSTANTS
  Ids = {i1, i2}
  MaxTasks = 1
CHECK_DEADLOCK FALSE
INVARIANTS NoFictitiousRollback TableTruthful
PROPERTIES TasksEnd KeepsContract
