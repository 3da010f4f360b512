CONSTANTS
  Count = 0
  Privileged = FALSE
  Dst = "prohibited"
  Users = {}
  Interrupts = {"timeout"}
  Noise <- MCNoNoise
  MaxSeq = 1
  RecvCap = 1
  MaxRuns = 1
  MaxSent = 1
  MaxCopies = 2
SPECIFICATION FairSpec
PROPERTIES
  InterruptEndsRun
