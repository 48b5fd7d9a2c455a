CONSTANTS
  Byte <- MCByte
  Images <- MCImages
  Patches <- patchList
  Key <- MCKey
SPECIFICATION Spec
INVARIANTS AcceptsOriginals WrittenIsPatched
CHECK_DEADLOCK FALSE
