CONSTANTS
  NSECTORS = 9  BOOT = 1  FATS = 2  RESERVED = 1  SPF = 1
  CRYPT_BUF_LEN = 3
  NCLUSTERS = 4  PER_SECTOR = 4  DIR = 4  SIZE = 2  Occupied = {}
  SYSTEM <- MCSYSTEM
  Data <- MCData
  Zero <- MCZero
  Bpb <- MCBpb
  Noise <- MCNoise
  Ncsd = {}
  Signed <- MCSigned
  Devices <- MCDevices
  Requests = {}
  Faults = {"start", "memory", "read", "write"}
SPECIFICATION SessionSpec
INVARIANTS SystemFileSurvives SuccessIsTrue
PROPERTIES CommitsLate
