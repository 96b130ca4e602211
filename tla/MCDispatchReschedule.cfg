CONSTANTS
  o1 = o1
  w1 = w1
  w2 = w2
  s1 = s1
  s2 = s2
  Free = Free
  NoOrder = NoOrder
  Orders = {o1}
  Workers = {w1}
  Sessions = {s1}
  MaxAttempts = 2
  OverrideTargets = {}
  MaxJobs = 2
  MaxBookings = 2
  MaxCrashes = 0
  MaxRetries = 0
SPECIFICATION Spec
INVARIANT SentWaybillIsLive
CHECK_DEADLOCK FALSE
