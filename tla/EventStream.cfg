SPECIFICATION FairSpec
CONSTANTS
  Writers = {w1, w2}
  Limit = 2
  MaxTime = 3
  MaxEvents = 4
  MaxDrops = 2
INVARIANTS TypeOK InOrderOnce MissedOnlyIfOvertaken
PROPERTIES EventsArrive
CHECK_DEADLOCK FALSE
