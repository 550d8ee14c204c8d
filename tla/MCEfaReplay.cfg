SPECIFICATION Spec
CONSTANTS
  Configs <- KeptOnly
  BatchSize = 2
  SqDepth = 16
  Capacity = 2
INVARIANTS NothingOverwritten
