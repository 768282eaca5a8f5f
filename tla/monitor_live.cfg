SPECIFICATION FairSpec
CONSTANTS
  u1 = u1
  u2 = u2
  s1 = s1
  s2 = s2
  Schedules = {s1}
  Units = {u1}
  UnitsOf <- MCUnitsOf
  DefaultUnits <- MCDefaultUnits
  ManualScopes <- MCNoScopes
  Workers = {w1}
  Ticks = {t1, t2}
  NoSchedule = NoSchedule
  Billing = "SUBSCRIBED"
  Limit = 0
  Concurrency = 2
  MaxRetries = 1
  SlowWorkers = TRUE
  MaxWindow = 1
  MaxRuns = 2
  MaxManual = 0
  MaxCrashes = 1
  MaxCancels = 1
  MaxSiteChanges = 1
CHECK_DEADLOCK FALSE
INVARIANT OneRunPerWindow
PROPERTIES RunsSettle DueIsServed
