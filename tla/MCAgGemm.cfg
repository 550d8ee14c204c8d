SPECIFICATION FairSpec
CONSTANTS
  Configs <- AgConfigs
INVARIANTS ProductOfOwnLaunch
PROPERTIES LaunchesEnd
