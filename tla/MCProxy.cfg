SPECIFICATION Spec
CONSTANTS
  Configs <- SafetyConfigs
  QpSqDepth = 12
  SafetyMargin = 1
  BatchSize = 2
  CqPoll = 2
  MaxSendSge = 2
  MaxRows = 4
  MaxDataWrs = 2
  Capacity = 2
  MaxEpoch = 2
INVARIANTS
  InflightExact DataBeforeFlag ArrivalSlotsDense TransferredOnce
  QuiescentWhenPrepared BarrierReachesEveryPeer
