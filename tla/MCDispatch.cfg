CONSTANTS
  o1 = o1
  w1 = w1
  w2 = w2
  s1 = s1
  s2 = s2
  Free = Free
  NoOrder = NoOrder
  Orders = {o1}
  Workers = {w1, w2}
  Sessions = {s1}
  MaxAttempts = 2
  OverrideTargets = {"dispatch_failed"}
  MaxJobs = 2
  MaxBookings = 2
  MaxCrashes = 1
  MaxRetries = 1
SPECIFICATION Spec
INVARIANTS
  TypeOK
  CallUnderLock
  DuplicateOnlyAfterLoss
  SentWasBooked
  AttemptsBounded
  QueuedOrderHasJob
  BookingInv
PROPERTY BooksOnce
CHECK_DEADLOCK FALSE
