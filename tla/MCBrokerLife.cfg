SPECIFICATION LifeFairSpec
CONSTANTS
  Ranks <- FourRanks
  MaxSyncs = 10
  Program <- TwoBuffers
  QueueLen = 2
  None = None
INVARIANTS NoEarlyReturn ReturnsThisCall NoStrayDatagram StartTogether
PROPERTIES CallsComplete

CHECK_DEADLOCK FALSE
