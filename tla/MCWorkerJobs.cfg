CONSTANTS
  p1 = p1
  p2 = p2
  Free = Free
  Procs = {p1, p2}
  NJobs = 2
  Interval <- MCInterval
  NameOf <- MCNameOf
  Slowest = 2
SPECIFICATION FairSpec
INVARIANTS
  OverlapNeedsOverrun
PROPERTY ShortestJobRecurs
CHECK_DEADLOCK FALSE
