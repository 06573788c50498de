SPECIFICATION FairSpec
CONSTANTS
  kWan = kWan
  kLan = kLan
  lan1 = lan1
  lan2 = lan2
  wan = wan
  Bridge = br0
  NULL = NULL
  Key = {kLan}
  Reporter = {r1}
  Device = {lan2, br0}
  DstDev <- MCDstDev
  FromDev <- MCFromDev
  MaxCopies = 0
  Skb = {s1, s2, s3}
  MCPD_MAX_DELAYED_SKB_COUNT = 2
  MaxAsked = 1
  MaxAge = 1
  Membership = 1
  SkbTimeout = 1
  Check = 1
INVARIANTS TypeOK TimerCovers PendingOwned NoPendingWithoutControl
PROPERTIES PendingLeaves
