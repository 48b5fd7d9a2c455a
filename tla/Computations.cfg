CONSTANTS
  AesKeys <- MCAesKeys
  Texts <- MCTexts
  IVs <- MCIVs
  Cuts <- MCCuts
  EsKeys <- MCEsKeys
  Nonces <- MCNonces
  Payloads <- MCPayloads
  Damages <- MCDamages
  Consoles <- MCConsoles
  Offsets <- MCOffsets
  Counts <- MCCounts
  Contents <- MCContents
  Sizes <- MCSizes
  Headers <- MCHeaders
  CALLS <- MCCALLS
  biL = 8
  biC = 4
  MAX_LIMBS = 40
  ROUNDS = 4
  Starts <- MCStarts
  Buffers <- MCBuffers
  Powers <- MCPowers
  MAX_BITS = 30
  Works <- MCWorks
  Missing <- MCMissing
  Undefined <- MCUndefined
SPECIFICATION ComputationsSpec
INVARIANTS
  ModeIsStandard
  RoundTrip
  CcmIsStandard
  EsVerdict
  KeyIsDefined
  StreamIsPositional
  CountersAgree
  ArithmeticIsExact
  BarIsTrue
\* A job ends.
CHECK_DEADLOCK FALSE
