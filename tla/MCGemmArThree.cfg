SPECIFICATION Spec
CONSTANTS
  Configs <- ThreeNodes
  MaxGpus = 2
  MaxReducers = 2
INVARIANTS SentWhole
CHECK_DEADLOCK FALSE
