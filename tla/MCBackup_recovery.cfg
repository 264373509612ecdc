SPECIFICATION FairSpec
CONSTANTS
  Runs = {1, 2, 3}
  Windows <- MCWindows
  MaxTime = 1
  MaxFaults = 2
INVARIANTS ReportedSurvives IncrementalRetention
PROPERTIES RetentionKeepsSoundBackup ReconciliationAgrees RunningSettles
CHECK_DEADLOCK FALSE
