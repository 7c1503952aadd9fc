CONSTANTS
  Modulus = 65536
  FieldModulus = 256
  Inputs <- MCInputs
SPECIFICATION Spec
INVARIANTS
  InBounds
  DecodesToMeaning
  SizeIsExact
PROPERTY Terminates
CHECK_DEADLOCK FALSE
