\* Does getString() read only the bytes fgets() wrote for the current line?
CONSTANTS
  LineLength = 4
  MaxLineLen = 3
  MaxLines = 2

SPECIFICATION Spec

\* scutil exits at the end of its input.
CHECK_DEADLOCK FALSE

INVARIANT ParseReadsOnlyNewBytes
