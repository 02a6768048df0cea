SPECIFICATION FairSpec
CONSTANTS
  Requests = {get, put}
  Puts = {put}
  InOrder = FALSE
  Failures = TRUE
  Expiry = TRUE
  Bare = TRUE
  MaxCopies = 2
INVARIANT NoneStranded
PROPERTY KeepsPromise
PROPERTY AnsweredIsReplied
CHECK_DEADLOCK FALSE
