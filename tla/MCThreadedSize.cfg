SPECIFICATION Spec
CONSTANTS
  Inputs <- MCInputs
  Arguments <- MCArguments
  Spurious = FALSE
CHECK_DEADLOCK FALSE
PROPERTIES
  WaitsWhenFull
