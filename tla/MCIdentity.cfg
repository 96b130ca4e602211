CONSTANTS
  e1 = e1
  r1 = r1
  r2 = r2
  r3 = r3
  company = company
  taxid = taxid
  Empty = Empty
  Emails = {e1}
  Reqs = {r1, r2, r3}
  Fields = {company, taxid}
  MaxToks = 2
SYMMETRY Symmetry
SPECIFICATION Spec
INVARIANTS
  TokensAreUsedOnce
  AckedEditsKept
CHECK_DEADLOCK FALSE
