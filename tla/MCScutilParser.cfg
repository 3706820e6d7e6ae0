\* LINE_LENGTH 4, lines of up to 3 bytes, two lines per run.
CONSTANTS
  LineLength = 4
  MaxLineLen = 3
  MaxLines = 2

SPECIFICATION Spec

\* scutil exits at the end of its input.
CHECK_DEADLOCK FALSE

INVARIANT TypeOK
INVARIANT CopyFitsAllocation
