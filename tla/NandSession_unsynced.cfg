CONSTANTS
  NSECTORS = 11  BOOT = 1  FATS = 2  RESERVED = 1  SPF = 2
  CRYPT_BUF_LEN = 3
  NCLUSTERS = 4  PER_SECTOR = 2  DIR = 6  SIZE = 2  Occupied = {}
  SYSTEM <- MCSYSTEM
  Data <- MCData
  Zero <- MCZero
  Bpb <- MCBpb
  Noise <- MCNoise
  Ncsd = {}
  Signed <- MCSigned
  Devices <- MCDevices
  Requests = {}
  Faults = {"write"}
SPECIFICATION SessionSpec
INVARIANTS SuccessMeansSynchronized
