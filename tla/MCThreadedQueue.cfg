SPECIFICATION Spec
CONSTANTS
  Inputs <- MCInputs
  Arguments <- MCArguments
  Spurious = TRUE
CHECK_DEADLOCK FALSE
INVARIANTS
  TypeOK
  NullReadUnasked
  BoundHeld
  InOrder
PROPERTIES
  Ends
