\* Header of 2 units, buffer maximum 10, size_t and uint32_t both 4 bits wide.
CONSTANTS
  HeaderSize = 2
  BufMax = 10
  ByteBase = 4
  FieldBytes = 2
  SizeBits = 4
  MaxRecv = 12

SPECIFICATION Spec

\* Each behaviour is one call: it ends when the copy returns or aborts.
CHECK_DEADLOCK FALSE

INVARIANT TypeOK
INVARIANT AcceptedIffSpecValid
