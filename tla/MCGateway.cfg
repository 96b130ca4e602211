SPECIFICATION Spec
CONSTANTS
  Carriers = {"azimuth", "exline", "cse"}
  Staff = {a1, a2}
  a1 = a1
  a2 = a2
  MaxAttempts = 2
  MaxTries = 2
  MaxCalls = 3
  MaxFaults = 1
  MaxVisits = 2
  MaxFiles = 2
SYMMETRY StaffSymmetry
INVARIANTS NoInvoiceIsForgotten SentIsTheOnlyInvoice CourierIsCalledOnce LabelIsStored
CHECK_DEADLOCK FALSE
