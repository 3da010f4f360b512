CONSTANTS
  Count = 1
  Privileged = FALSE
  Dst = "unicast"
  Users = {"u1", "u2"}
  Interrupts = {"callback", "cancel"}
  Noise <- MCNoNoise
  MaxSeq = 1
  RecvCap = 1
  MaxRuns = 1
  MaxSent = 2
  MaxCopies = 1
SPECIFICATION Spec
INVARIANTS
  NoDoubleClose
  RunError
  SocketLifetime
  FinalStatsAreFinal
  FirstRunUntilInterrupted
