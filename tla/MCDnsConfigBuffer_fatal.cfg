\* Spec 4.2 says every size check is fatal; is an out-of-range length?
CONSTANTS
  HeaderSize = 2
  BufMax = 10
  ByteBase = 4
  FieldBytes = 2
  SizeBits = 4
  MaxRecv = 12

SPECIFICATION Spec

\* Each behaviour is one call: it ends when the copy returns or aborts.
CHECK_DEADLOCK FALSE

INVARIANT BadSizeAborts
