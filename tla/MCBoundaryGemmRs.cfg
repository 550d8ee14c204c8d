SPECIFICATION Spec
CONSTANTS
  Configs <- GemmRsConfigs
  MaxEpoch = 3
INVARIANTS NoArrivalLost
