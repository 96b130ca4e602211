CONSTANTS
  s1 = s1
  s2 = s2
  w1 = w1
  w2 = w2
  m1 = m1
  Sessions = {s1, s2}
  Replicas = {w1, w2}
  Movers = {m1}
  CarrierEvents = {"picked_up"}
  OverrideTargets = {"dispatch_failed"}
  MaxRetries = 3
  MaxReqs = 2
  MaxFailures = 1
  MaxBusy = 2
SPECIFICATION FairSpec
INVARIANTS
  TypeOK
  ApprovedIsCancelled
  DeadInvoiceIsCancelled
  ScheduledHasAttempts
PROPERTY RetriesEnd
CHECK_DEADLOCK FALSE
CONSTRAINT Explored
