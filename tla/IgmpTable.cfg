SPECIFICATION FairSpec
CONSTANTS
  kWan = kWan
  kLan = kLan
  lan1 = lan1
  lan2 = lan2
  wan = wan
  Bridge = br0
  NULL = NULL
  Key = {kWan}
  Reporter = {r1, r2}
  Device = {lan1, lan2, wan, br0}
  DstDev <- MCDstDev
  FromDev <- MCFromDev
  MaxCopies = 1
  Skb = {}
  MCPD_MAX_DELAYED_SKB_COUNT = 0
  MaxAsked = 0
  MaxAge = 1
  Membership = 2
  SkbTimeout = 1
  Check = 1
INVARIANTS FlowsOfEntries RootBehindCopies
PROPERTIES MembershipExpires
