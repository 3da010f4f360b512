CONSTANTS
  maxConcurrentCalls = 3
  EarlyStop = FALSE
  Cancel = TRUE
SPECIFICATION FairSpec
INVARIANTS
  TypeOK
  StopIsGraceful
PROPERTIES
  StopReturnsUnlessStuck
  CancelReturnsUnlessStuck
  WorkIsDone
CHECK_DEADLOCK FALSE
