SPECIFICATION FairSpec
CONSTANTS
  InstrMod = 10
  Blacklist = {1, 3, 5, 6, 7, 8}
  Valid = {0, 1, 2}
  Outcome <- MCOutcome
  ReqThreads = 2
  First = 1
  Last = 8
  CheckForHang = FALSE
  SlowFactor = 2
INVARIANTS
  TypeOK
  NoIdleTracee
  NoPartialRun
PROPERTIES
  ImplementsScanJob
  StartedRunEnds
