SPECIFICATION Spec
CONSTANTS
  Configs <- ResetConfigs
  MaxGpus = 2
  MaxReducers = 2
PROPERTIES ResetBeforeNextWords
CHECK_DEADLOCK FALSE
