SPECIFICATION FairSpec
CONSTANTS
  Configs <- ArConfigs
  MaxGpus = 2
  MaxReducers = 2
INVARIANTS FinalComplete SentWhole
PROPERTIES LaunchesEnd
