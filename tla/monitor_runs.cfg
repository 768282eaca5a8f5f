SPECIFICATION Spec
CONSTANTS
  u1 = u1
  u2 = u2
  s1 = s1
  s2 = s2
  Schedules = {s1, s2}
  Units = {u1, u2}
  UnitsOf <- MCOverlap
  DefaultUnits <- MCDefaultUnits
  ManualScopes <- MCOneUnit
  Workers = {w1, w2}
  Ticks = {t1}
  NoSchedule = NoSchedule
  Billing = "SUBSCRIBED"
  Limit = 2
  Concurrency = 2
  MaxRetries = 2
  SlowWorkers = FALSE
  MaxWindow = 1
  MaxRuns = 2
  MaxManual = 1
  MaxCrashes = 1
  MaxCancels = 0
  MaxSiteChanges = 0
CHECK_DEADLOCK FALSE
INVARIANTS TypeOK UsageIsCharged ScheduledRunExclusive VerdictHonest AccountsMatch
PROPERTIES NoScheduledRestart ImplementsLedger RecoverySparesLive
SYMMETRY SafetySymmetry
ACTION_CONSTRAINT TwoAtATime
