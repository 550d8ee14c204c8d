SPECIFICATION Spec
CONSTANT Configs <- NoSync
PROPERTIES NoSignalCleared
CHECK_DEADLOCK FALSE
