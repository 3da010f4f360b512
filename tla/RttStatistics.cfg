CONSTANTS
  Readers = {"r1"}
  RttValues <- MCRtts
  TtlValues <- MCTtls
  RecordRtts = TRUE
  RecordTTLs = TRUE
  MaxSent = 4
  MaxDups = 1
SPECIFICATION Spec
INVARIANTS
  TypeOK
  SnapshotIsConsistent
  AverageIsAccurate
  DeviationIsSane
  ExtremesAreExact
