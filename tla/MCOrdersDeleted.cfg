CONSTANTS
  cse = cse
  std = std
  exp = exp
  r1 = r1
  r2 = r2
  Rates = {cse, std, exp}
  CseRates = {cse}
  Offers <- MCOffers
  Weights = {1, 2}
  Parcels = {{2}}
  QuoteKg = 1
  Reqs = {r1, r2}
  MaxForms = 3
  MaxOrders = 1
SPECIFICATION OrderSpec
PROPERTY PaidIsKept
CHECK_DEADLOCK FALSE
