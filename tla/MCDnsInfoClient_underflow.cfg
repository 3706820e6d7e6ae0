\* libSC_info_client_create() may fail (spec 7: connection-setup failure).
CONSTANTS
  Threads <- MCThreads
  NULL = NULL
  MaxCopies = 4
  MaxAcks = 1
  CreateMayFail = TRUE
  MaxGen = 1

SPECIFICATION Spec
CHECK_DEADLOCK FALSE
PROPERTY HandleRefined
