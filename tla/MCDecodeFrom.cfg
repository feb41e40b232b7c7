CONSTANTS
  Returns <- MCReturns
  Lengths = {0, 1, 3}
  Bits = {0, 1}
  Inputs <- MCInputs
SPECIFICATION Spec
INVARIANTS TypeOK Framed Complete Inside
CHECK_DEADLOCK FALSE
