SPECIFICATION MeshSpec
CONSTANTS
  NumNodes = 3
  CfgQPs = 24
  KMaxQPs = 24
  Devices = 8
  Dev = 0
  ProxyThreads = 4
  Lanes <- TwoLanes
  FifoByChannel = FALSE
  None = None
INVARIANTS LandsAtAddressee
