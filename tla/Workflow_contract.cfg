SPECIFICATION Spec
CONSTANTS
  t1 = t1
  t2 = t2
  t3 = t3
  s1 = s1
  s2 = s2
  Tasks <- ThreeTasks
  SessionOf <- SharedSession
  Views <- ThreePlans
  MaxViews = 1
  MaxWorkers = 2
  MaxCrashes = 1
  MaxFaults = 1
PROPERTIES
  ImplementsContract
CHECK_DEADLOCK FALSE
