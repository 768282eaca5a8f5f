SPECIFICATION MCSpec
CONSTANTS
  Requests = {q1, q2}
  MaxTokens = 4
  MaxBegun = 6
  Visitors = {v1, v2}
  Domains = {d1, d2}
  Dripping = {d2}
  Calls = {gemini, openai}
  Budget = 3
  MonthLength = 1
  PerVisitor = 2
  VisitorWindow = 1
  PerDomain = 1
  DomainWindow = 1
  TTL = 1
  MaxTime = 1
  MaxAsks = 3
CHECK_DEADLOCK FALSE
INVARIANTS
  FrontDoorTypeOK
  OneBuildPerDomain
  BudgetKept
  ServedIsFresh
PROPERTIES
  RetiredLinkIsDead
  LinksOnlyByOverlap
  EveryRequestAnswered
