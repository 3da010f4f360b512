CONSTANTS
  Count = 2
  Privileged = FALSE
  Dst = "broadcast"
  Users = {}
  Interrupts = {"cancel", "timeout"}
  Noise <- MCNoNoise
  MaxSeq = 1
  RecvCap = 1
  MaxRuns = 1
  MaxSent = 3
  MaxCopies = 2
SPECIFICATION FairSpec
PROPERTIES
  InterruptEndsRun
  CountEndsRun
