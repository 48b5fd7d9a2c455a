CONSTANTS
  Consoles <- MCConsoles
  READ_LEN = 2
  Code <- MCCode
  Frames <- MCFrames
  Faults = {"read", "open"}
  MaxTyped = 6
SPECIFICATION FairSpec
INVARIANTS TypeOK LoadableImage WritesWithConsent
PROPERTY PreparationEnds
CHECK_DEADLOCK FALSE
