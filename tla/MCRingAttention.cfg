SPECIFICATION FairSpec
CONSTANT Configs <- RingConfigs
INVARIANTS AttendedOnce
PROPERTIES EndsUnlessMissed
CHECK_DEADLOCK FALSE
