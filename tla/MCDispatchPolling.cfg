CONSTANTS
  o1 = o1
  w1 = w1
  w2 = w2
  s1 = s1
  Free = Free
  NoOrder = NoOrder
  Orders = {o1}
  Workers = {w1, w2}
  Pollers = {w1}
  Sessions = {s1}
  MaxAttempts = 2
  OverrideTargets = {}
  MaxJobs = 1
  MaxBookings = 1
  MaxCrashes = 0
  MaxRetries = 0
  NJobs = 2
  Interval <- MCInterval
  NameOf <- MCNameOf
  Slowest = 2
  PollJob = 1
SPECIFICATION FairPolling
PROPERTY QueueDrains
CHECK_DEADLOCK FALSE
