SPECIFICATION FairSpec
CONSTANTS
  t1 = t1  t2 = t2  c1 = c1  c2 = c2
  Tabs = {t1}
  Calls = {c1, c2}
  TabOf <- MCOneTab
  AccessTTL = 1
  RefreshTTL = 2
  MaxTime = 2
  MaxLogins = 2
  MaxSessions = 2
  MaxLosses = 1
INVARIANTS NoFalseReuse
PROPERTIES CallsAnswered
CHECK_DEADLOCK FALSE
