SPECIFICATION Spec
CONSTANTS
  Configs <- ThreeConfigs
  MaxEpoch = 3
INVARIANTS NoArrivalLost
