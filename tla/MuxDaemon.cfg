CONSTANTS
  MaxServers = 2
  MaxRevision = 2
  MaxJobs = 1
  MaxQueue = 1
SPECIFICATION FairSpec
INVARIANTS ServesAlone NeverStrays
PROPERTIES  Converges ServersComeAndGo
CHECK_DEADLOCK FALSE
