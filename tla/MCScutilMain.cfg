\* Up to three options, in every order, and up to three operands.
CONSTANTS
  MaxOpts = 3
  MaxOperands = 3
  TimeoutArgs <- MCTimeoutArgs

SPECIFICATION Spec

\* usage() and every mode handler exit the process.
CHECK_DEADLOCK FALSE

INVARIANT TypeOK
PROPERTY ModesRefined
