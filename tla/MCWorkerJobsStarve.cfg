CONSTANTS
  p1 = p1
  p2 = p2
  Free = Free
  Procs = {p1}
  NJobs = 2
  Interval <- MCInterval
  NameOf <- MCNameOf
  Slowest = 2
SPECIFICATION FairSpec
PROPERTY EveryJobRecurs
CHECK_DEADLOCK FALSE
