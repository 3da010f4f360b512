CONSTANTS
  maxConcurrentCalls = 1
  EarlyStop = TRUE
  Cancel = FALSE
SPECIFICATION Spec
INVARIANTS
  StopIsGraceful
CHECK_DEADLOCK FALSE
