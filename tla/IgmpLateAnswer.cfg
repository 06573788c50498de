SPECIFICATION Spec
CONSTANTS
  kWan = kWan
  kLan = kLan
  lan1 = lan1
  lan2 = lan2
  wan = wan
  Bridge = br0
  NULL = NULL
  Key = {kWan}
  Reporter = {r1}
  Device = {lan1, wan, br0}
  DstDev <- MCDstDev
  FromDev <- MCFromDev
  MaxCopies = 0
  Skb = {s1, s2}
  MCPD_MAX_DELAYED_SKB_COUNT = 1
  MaxAsked = 2
  MaxAge = 2
  Membership = 1
  SkbTimeout = 1
  Check = 1
PROPERTIES LateAnswerIgnored
