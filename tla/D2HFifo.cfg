CONSTANTS
  Producers = {p1, p2}
  Cmds = {c1, c2}
  Capacity = 2
  EMPTY = EMPTY
  MaxPush = 5
SPECIFICATION FairSpec
INVARIANTS FifoOrder
PROPERTIES ImplementsQueue EveryClaimIsPolled
