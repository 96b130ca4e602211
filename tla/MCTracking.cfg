CONSTANTS
  w1 = w1
  w2 = w2
  h1 = h1
  h2 = h2
  Free = Free
  Pollers = {w1, w2}
  Handlers = {h1, h2}
  Paths <- MCPaths
  StaffEvents = {"cancelled"}
  MaxFailures = 1
SPECIFICATION FairSpec
INVARIANTS
  HookAppliedOnce
  DeliveryIsNotLost
PROPERTY DeliveryIsSeen
CHECK_DEADLOCK FALSE
