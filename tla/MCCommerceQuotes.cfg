CONSTANTS
  Orders = {o1}
  Variants = {v1}
  v1 = v1
  v2 = v2
  Requests = {r1, r2}
  Keys = {k1}
  None = None
  Carts <- MCOneLine
  OnHand <- MCOnHandOne
  Prices = {1, 2}
  Fees = {0, 1}
  QuoteTTL = 1
  MaxTime = 2
  MaxQuotes = 2
  MaxLines = 1
  MaxQuantity = 1
SPECIFICATION Spec
INVARIANTS
  TypeOK
  ConfirmedOnLatestQuote
PROPERTIES
  PriceHonoured
