SPECIFICATION Spec
CONSTANT Configs <- PairOnly
PROPERTIES SentOwn
CHECK_DEADLOCK FALSE
