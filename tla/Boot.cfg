CONSTANTS
  SdKinds <- MCSdKinds
  Origins = {"idle", "tran"}
  Faults = {"lost", "garbled", "data"}
  MaxFaults = 1
  Keys <- MCKeys
  LastByte = 2
  FRAMES = 1
  Requests <- MCRequests
SPECIFICATION FairBoot
INVARIANTS TypeOK DataComplete StartupReady CidGenuine KeyRecovered IdentityComplete
CHECK_DEADLOCK FALSE
PROPERTY BootEnds NandAnswers
