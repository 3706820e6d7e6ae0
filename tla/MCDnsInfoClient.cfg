\* Two threads; libSC_info_client_create() always succeeds; the daemon
\* publishes two generations and both threads may acknowledge theirs.
CONSTANTS
  Threads <- MCThreads
  NULL = NULL
  MaxCopies = 4
  MaxAcks = 2
  CreateMayFail = FALSE
  MaxGen = 2

SPECIFICATION Spec

\* The threads of a client process may stop calling the library at any time,
\* so a state where nobody is inside a call and the bounds are used up is a
\* legitimate end.
CHECK_DEADLOCK FALSE

INVARIANT TypeOK
INVARIANT NoFault
INVARIANT RefcountCoversOwed
PROPERTY HandleRefined
