SPECIFICATION Spec
CONSTANTS
  shift = shift
  enter = enter
  backslash = backslash
  NoKey = NoKey
  LEDs <- MCLeds
  Codes <- MCNone
  Mods <- MCNone
  KeyCode <- MCNoCode
  Slots = 0
INVARIANTS
  TypeOK
  MemoryHeld
  LedsShown
PROPERTIES
  LedsSettle
