SPECIFICATION Spec
CONSTANTS
  Requests = {get, put}
  Puts = {put}
  InOrder = FALSE
  Failures = FALSE
  Expiry = FALSE
  Bare = FALSE
  MaxCopies = 1
INVARIANT EarlyAnswerIsFound
CHECK_DEADLOCK FALSE
