SPECIFICATION Spec
CONSTANTS
  Configs <- SignalConfigs
  CtaIds <- Ctas
  RunLimit = 2
INVARIANTS StagedBeforeSend
