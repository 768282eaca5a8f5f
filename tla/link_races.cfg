SPECIFICATION SpecTokens
CONSTANTS
  Requests = {q1, q2}
  MaxTokens = 3
  MaxBegun = 5
CHECK_DEADLOCK FALSE
INVARIANT OneActiveOrSingleUse
