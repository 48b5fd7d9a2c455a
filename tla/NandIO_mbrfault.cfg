CONSTANTS
  Blank = Blank  Mbr = Mbr  BootOld = BootOld  BootNew = BootNew
  Header = Header  A = A  B = B
  Payload = {A, B}  Copies = 2  PerFat = 2  MaxRead = 4  MaxWrite = 2
  NSECTORS = 7  BOOT = 1  FATS = 2  RESERVED = 1  SPF = 2
  CRYPT_BUF_LEN = 3
  Zero = Blank
  Data <- MCData
  Bpb <- MCBpb
  Noise <- MCNoise
  Ncsd = {Header}
  Signed <- MCSigned
  Devices <- MCDevices
  Requests <- MCRequests
  Faults = {"mbr"}
SPECIFICATION Spec
INVARIANTS MergeUsesBootRecord
