SPECIFICATION FairSpec
CONSTANTS
  Configs <- RsConfigs
  CtaIds <- Ctas
  RunLimit = 2
INVARIANTS ReducedOnce SentAfterCounts SentUnmodified
PROPERTIES KernelCompletes
