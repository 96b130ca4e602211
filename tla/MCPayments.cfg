CONSTANTS
  s1 = s1
  s2 = s2
  e1 = e1
  e2 = e2
  Sessions = {s1, s2}
  Events = {e1}
  OverrideTargets = {"cancelled"}
  MaxTxs = 2
  MaxRows = 4
  MaxJobs = 2
SYMMETRY Symmetry
SPECIFICATION Spec
INVARIANTS
  LedgerNeverOverstates
  LedgerMatchesOrder
  DispatchedIsPaidOnce
  PaidIsBeingQueued
PROPERTY CancelReturnsMoney
CHECK_DEADLOCK FALSE
