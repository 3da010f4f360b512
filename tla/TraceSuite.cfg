CONSTANTS
  Tracers = {"dial4", "dial6", "read"}
  Hooks <- MCHooks
  Reader = "read"
SPECIFICATION FairSpec
INVARIANTS
  CallbacksAreExclusive
  CallbackSeesItsTimer
  RespSeesTheEnd
PROPERTIES
  CallEnds
