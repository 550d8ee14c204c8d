SPECIFICATION Spec
CONSTANT Configs <- BackToBackOnly
INVARIANTS AttendsToOwn
CHECK_DEADLOCK FALSE
