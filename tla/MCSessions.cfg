SPECIFICATION Spec
CONSTANTS
  t1 = t1  t2 = t2  c1 = c1  c2 = c2
  Tabs = {t1, t2}
  Calls = {c1, c2}
  TabOf <- MCTwoTabs
  AccessTTL = 1
  RefreshTTL = 2
  MaxTime = 1
  MaxLogins = 1
  MaxSessions = 3
  MaxLosses = 0
SYMMETRY MCSwap
INVARIANTS TypeOK OneLivePerFamily RotationIsAChain
CHECK_DEADLOCK FALSE
