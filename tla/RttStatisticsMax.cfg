CONSTANTS
  Readers = {"r1"}
  RttValues <- MCRtts
  TtlValues <- MCTtls
  RecordRtts = TRUE
  RecordTTLs = TRUE
  MaxSent = 1
  MaxDups = 1
SPECIFICATION Spec
INVARIANTS
  ReportedMaxIsMaximum
