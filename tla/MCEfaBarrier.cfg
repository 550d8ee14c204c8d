SPECIFICATION Spec
CONSTANTS
  Configs <- BarrierConfigs
  BatchSize = 2
  SqDepth = 16
  Capacity = 2
INVARIANTS BarrierAfterWrites
