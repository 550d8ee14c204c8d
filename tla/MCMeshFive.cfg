SPECIFICATION MeshSpec
CONSTANTS
  NumNodes = 5
  CfgQPs = 4
  KMaxQPs = 24
  Devices = 8
  Dev = 4
  ProxyThreads = 1
  Lanes <- OneLane
  FifoByChannel = TRUE
  None = None
INVARIANTS LandsAtAddressee
