SPECIFICATION FairSpec
CONSTANTS
  Configs <- SafeConfigs
  MaxEpoch = 3
INVARIANTS ReadsOwnEpoch NoArrivalLost
PROPERTIES IterationsComplete
