CONSTANTS
  s1 = s1
  s2 = s2
  w1 = w1
  w2 = w2
  m1 = m1
  Sessions = {s1, s2}
  Replicas = {w1}
  Movers = {m1}
  CarrierEvents = {"picked_up"}
  OverrideTargets = {}
  MaxRetries = 1
  MaxReqs = 2
  MaxFailures = 0
  MaxBusy = 2
SPECIFICATION Spec
CHECK_DEADLOCK FALSE
PROPERTY DecisionsAreTerminal
