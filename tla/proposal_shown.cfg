SPECIFICATION SpecProposals
CONSTANTS
  Reviewers = {x1, x2}
  Changes = {c1, c2}
  Blocked = {}
  Unsupported = {}
  MaxLog = 4
  MaxSaves = 3
  NoDoc = NoDoc
CHECK_DEADLOCK FALSE
INVARIANT ApprovedAsShown
