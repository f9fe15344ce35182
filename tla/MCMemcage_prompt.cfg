SPECIFICATION FairSpec
CONSTANTS
  InstrMod = 13
  Blacklist = {4, 11}
  Valid = {0, 1, 2, 10}
  Outcome <- HangingOutcome
  ReqThreads = 3
  First = 0
  Last = 11
  CheckForHang = TRUE
  SlowFactor = 2
  OneSecondIsLong = TRUE
INVARIANTS
  HangOnlyWhenStuck
PROPERTIES
  NobodyDies
  ImplementsScanJob
  RunEnds
  StopIsRecorded
