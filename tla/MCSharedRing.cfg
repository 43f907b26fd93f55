SPECIFICATION Spec
CONSTANTS
  i1 = i1
  i2 = i2
  a = a
  b = b
  c = c
  EOF = EOF
  None = None
  Left = Left
  Instances <- MCInstances
  Lines <- MCLines
  Capacity <- MCCapacity
  Input <- MCInput
CHECK_DEADLOCK FALSE
INVARIANTS
  OwnLines
PROPERTIES
  EndsOrOrphans
