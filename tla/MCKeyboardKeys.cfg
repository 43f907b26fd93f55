SPECIFICATION Spec
CONSTANTS
  shift = shift
  enter = enter
  backslash = backslash
  NoKey = NoKey
  LEDs <- MCNone
  Codes <- MCCodes
  Mods <- MCMods
  KeyCode <- MCKeyCode
  Slots = 2
INVARIANTS
  KeysFollow
