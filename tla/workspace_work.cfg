SPECIFICATION MCSpec
CONSTANTS
  Reviewers = {x1, x2}
  Changes = {c1, c2, c3}
  Blocked = {c2}
  Unsupported = {c3}
  MaxLog = 4
  MaxSaves = 5
  NoDoc = NoDoc
  r1 = r1
  ActionRequests = {x1, x2}
  Recs = {r1}
  AgentRuns = {a1}
  Careful = {a1}
  ProposalLists <- MCProposalLists
  Plain = Plain
  Report = Report
  None = None
  Allowance = 2
  MaxActions = 4
  MaxRequests = 3
  k1 = k1
  k2 = k2
  Codes = {k1, k2}
  Sites <- MCSites
  Detectors = {x1, x2}
  Users = {v1}
  Nobody = Nobody
  MaxCrawls = 2
  MaxAlerts = 3
  MaxDetections = 3
  MaxClicks = 1
  p1 = p1
  p2 = p2
  People = {owner, p1, p2}
  Owner = owner
  TeamRequests = {x1, x2}
  Seats = 2
  MaxInvites = 2
  MaxTeamRequests = 4
  Customers = {u1}
  Hooks = {x1, x2}
  Plans = {growth}
  NoPlan = NoPlan
  MaxSubs = 2
  MaxEvents = 2
  MaxFaults = 1
CHECK_DEADLOCK FALSE
SYMMETRY Symmetric
INVARIANTS
  WorkspaceTypeOK
  ExecutedWasApproved
  ExecutionsOnRecord
  ExecutedAsApproved
  OvershootBounded
  SeedsBounded
  QuietDetectionAgrees
  OpenAlertIsEvident
  BillingTypeOK
  AppliedOnce
  ActiveIsPaid
  CapturedIsCaptured
PROPERTIES
  SeatsExceededOnlyByOverlap
  ReadmittedOnlyByOverlap
