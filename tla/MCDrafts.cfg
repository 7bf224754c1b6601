SPECIFICATION Spec
CONSTANTS
  Requests = {r1}
  Admins = {a1, a2}
  Skus = {s1, s2}
  Prices = {2, 2000}
  Stocks = {0, 1}
  Claims <- MCClaims
  None = None
  MaxClaims = 2
  MaxRows = 2
  MaxEdits = 2
INVARIANTS TypeOK DraftIsGrounded RunOnRecord
