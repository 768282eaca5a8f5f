SPECIFICATION Spec
CONSTANTS
  u1 = u1
  u2 = u2
  s1 = s1
  s2 = s2
  Schedules = {s1}
  Units = {u1}
  UnitsOf <- MCUnitsOf
  DefaultUnits <- MCDefaultUnits
  ManualScopes <- MCNoScopes
  Workers = {w1}
  Ticks = {t1}
  NoSchedule = NoSchedule
  Billing = "SUBSCRIBED"
  Limit = 1
  Concurrency = 1
  MaxRetries = 1
  SlowWorkers = FALSE
  MaxWindow = 1
  MaxRuns = 1
  MaxManual = 0
  MaxCrashes = 0
  MaxCancels = 0
  MaxSiteChanges = 0
CHECK_DEADLOCK FALSE
INVARIANTS ProviderFailureEndsRun
