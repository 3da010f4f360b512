CONSTANTS
  Count = 3
  Privileged = TRUE
  Dst = "broadcast"
  Users = {}
  Interrupts = {"timeout"}
  Noise <- MCNoise
  MaxSeq = 1
  RecvCap = 1
  MaxRuns = 2
  MaxSent = 4
  MaxCopies = 2
SPECIFICATION Spec
INVARIANTS
  TypeOK
  Accounting
  OncePerRequest
  SendBound
PROPERTIES
  DuplicatesWereAnswered
  ImplementsLedger
