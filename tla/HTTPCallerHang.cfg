CONSTANTS
  maxConcurrentCalls = 1
  EarlyStop = FALSE
  Cancel = FALSE
SPECIFICATION FairSpec
PROPERTIES
  StopAlwaysReturns
CHECK_DEADLOCK FALSE
