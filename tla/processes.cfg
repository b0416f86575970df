SPECIFICATION MCSpec
CONSTANTS
  Width = 9
  MaxAttemptsSetting <- MCAttempts
  BackoffSetting <- MCBackoff
  RecordTimeoutSetting <- MCRecordTimeout
  EnvVar = {v1, v2}
  Running = Running
  Call = {c1, c2}
  Timeout = 120
  Recovery = {0, 30, 97, 98, 99, 121}
  Latency = 2
INVARIANTS
  ProcessInv
  DependenciesOutliveUsers
  NoTransactionCutByExit
  CleanExitWasAsked
  OutlivesOutage
  InsideRebalance
  RetriesFit
PROPERTIES
  StopEnds
CHECK_DEADLOCK FALSE
