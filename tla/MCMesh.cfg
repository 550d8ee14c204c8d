SPECIFICATION MeshFairSpec
CONSTANTS
  NumNodes = 4
  CfgQPs = 4
  KMaxQPs = 24
  Devices = 8
  Dev = 5
  ProxyThreads = 3
  Lanes <- OneLane
  FifoByChannel = TRUE
  None = None
INVARIANTS LinksArePairs LandsAtAddressee
PROPERTIES MeshConnects
