SPECIFICATION FairSpec
CONSTANTS
  Cpu = {c1, c2}
  QueueSize = 1
  NETDEV_WEIGHT = 3
  SKB_POOL_SIZE = 2
  NULL = NULL
INVARIANTS TypeOK RxWakeupPending SkbsConserved
PROPERTIES PacketsAttended
