CONSTANTS
  Orders = {o1, o2}
  Variants = {v1, v2}
  v1 = v1
  v2 = v2
  Requests = {r1, r2}
  Keys = {k1}
  None = None
  Carts <- MCTwoCarts
  OnHand <- MCOnHand
  Prices = {1}
  Fees = {0}
  QuoteTTL = 1
  MaxTime = 0
  MaxQuotes = 1
  MaxLines = 2
  MaxQuantity = 1
SPECIFICATION FairSpec
INVARIANTS
  ReservationExact
  NoOversell
  CancelNeverInconsistent
  TrailTellsTheOrder
  ConfirmedOnce
PROPERTIES
  ImplementsLedger
  StaffSawIt
  RequestsFinish
