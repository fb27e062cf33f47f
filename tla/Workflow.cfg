SPECIFICATION FairSpec
CONSTANTS
  t1 = t1
  t2 = t2
  t3 = t3
  s1 = s1
  s2 = s2
  Tasks <- TwoTasks
  SessionOf <- TwoSessions
  Views <- TwoPlans
  MaxViews = 2
  MaxWorkers = 1
  MaxCrashes = 2
  MaxFaults = 2
INVARIANTS
  TypeOK
  LogGapless
  TerminalEndsLog
  ToolsMatchLog
  CompletedIsDelivered
  WritesNeverConflict
  FailureClosesTools
  NoOrphan
PROPERTIES
  RecoverySettles
  TerminalIsFrozen
  TasksSettle
CHECK_DEADLOCK FALSE
