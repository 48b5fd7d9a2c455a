CONSTANTS
  Blank = Blank  Mbr = Mbr  BootOld = BootOld  BootNew = BootNew
  Header = Header  A = A  B = B
  Payload = {B}  Copies = 2  PerFat = 2  MaxRead = 3  MaxWrite = 2
  NSECTORS = 7  BOOT = 1  FATS = 2  RESERVED = 1  SPF = 2
  CRYPT_BUF_LEN = 2
  Zero = Blank
  Data <- MCData
  Bpb <- MCBpb
  Noise <- MCNoise
  Ncsd = {Header}
  Signed <- MCSigned
  Devices <- MCDevices
  Requests <- MCRequests
  Faults = {"start", "memory", "read", "write"}
SPECIFICATION FairSpec
INVARIANTS TypeOK ShutdownSynchronizes
PROPERTIES MergeConfined DiskPromise ShutdownReturns CallReturns
