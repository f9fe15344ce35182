SPECIFICATION Spec
CONSTANTS
  InstrMod = 8
  Blacklist = {1, 3}
  Valid = {0, 1, 2}
  Outcome <- MCOutcome
  ReqThreads = 2
  First = 1
  Last = 6
  CheckForHang = TRUE
  SlowFactor = 2
  OneSecondIsLong = FALSE
PROPERTY NobodyDies
