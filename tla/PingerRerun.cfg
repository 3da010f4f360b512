CONSTANTS
  Count = 0
  Privileged = TRUE
  Dst = "unicast"
  Users = {}
  Interrupts = {}
  Noise <- MCNoNoise
  MaxSeq = 1
  RecvCap = 1
  MaxRuns = 2
  MaxSent = 1
  MaxCopies = 1
SPECIFICATION Spec
INVARIANTS
  RunsUntilInterrupted
