SPECIFICATION FairSpec
CONSTANTS
  NFiles = 2
  NFacts = 2
  MaxActivity = 2
  MaxStops = 2
  MaxFailures = 1
  MaxReloads = 1
INVARIANTS TypeOK ForwardedOnce CompletedIsReady FailureIsReported LastPageIsWhole
PROPERTIES EndedForGood JobsEnd
CHECK_DEADLOCK FALSE
