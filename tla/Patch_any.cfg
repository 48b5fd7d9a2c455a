CONSTANTS
  MaxLen = 7
  Byte <- MCByte
  Images <- MCImages
  Patches <- MCPatches
  Key <- MCKey
SPECIFICATION Spec
INVARIANTS TypeOK AcceptedOnce OptionsMerged
CHECK_DEADLOCK FALSE
