SPECIFICATION FairSpec
CONSTANTS
  Requests = {r1, r2}
  Workers = {w1, w2}
  ClientIds = {c1, c2}
  ExternalIds = {e1}
  Contents = {b1, b2}
  None = None
  MaxInserts = 2
  MaxCrashes = 1
INVARIANTS TypeOK QueuedHasWork OneMessagePerClientId AckedIsStored DoubledOnlyByCrash AnnouncedOnce
PROPERTIES QueuedIsSettled ImplementsFate
