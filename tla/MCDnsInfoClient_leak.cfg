\* A copy that returns NULL after taking a reference: does the count stay exact?
CONSTANTS
  Threads <- MCThreads
  NULL = NULL
  MaxCopies = 4
  MaxAcks = 1
  CreateMayFail = FALSE
  MaxGen = 1

SPECIFICATION Spec
CHECK_DEADLOCK FALSE
INVARIANT RefcountExact
