SPECIFICATION FairSpec
CONSTANTS
  Configs <- EfaConfigs
  BatchSize = 2
  SqDepth = 16
  Capacity = 2
INVARIANTS AnnouncedOnce BarrierAfterFlags QuiescentWhenPrepared
PROPERTIES SessionEnds
