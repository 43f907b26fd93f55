SPECIFICATION RingSpec
CONSTANTS
  p1 = p1
  p2 = p2
  c1 = c1
  c2 = c2
  a = a
  b = b
  none = none
  Producers <- MCProducers
  Consumers <- MCConsumers
  Lines <- MCLines
  NoLine = none
  Capacity <- MCCapacity
  CounterRange <- MCCounterRange
INVARIANTS
  RingTypeOK
  SlotsAccounted
PROPERTIES
  ImplementsQueue
  HeadIsRemoved
