SPECIFICATION FairSpec
CONSTANTS
  Configs <- DispatchConfigs
INVARIANTS EachTokenOnce
PROPERTIES LaunchesEnd
