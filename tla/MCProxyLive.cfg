SPECIFICATION FairSpec
CONSTANTS
  Configs <- LiveConfigs
  QpSqDepth = 4
  SafetyMargin = 0
  BatchSize = 2
  CqPoll = 1
  MaxSendSge = 2
  MaxRows = 4
  MaxDataWrs = 2
  Capacity = 1
  MaxEpoch = 2
PROPERTIES SessionEnds Delivered
