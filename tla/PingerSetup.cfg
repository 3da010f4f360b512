CONSTANTS
  ByteBase = 4
  TimeBytes = 2
  IDs = 16
  Words = 64
  DNS <- MCDNS
  V4 <- MCV4
  Values <- MCValues
  Clock <- MCClock
  MaxAlloc = 5000
  MaxChanged = 2
SPECIFICATION Spec
INVARIANTS
  TypeOK
  SocketFitsTarget
  AddrMatchesIPAddr
  OptionsAreInForce
  OwnReplyIsRecognised
PROPERTIES
  ResolveObeysNetwork
