SPECIFICATION FairSpec
CONSTANTS
  Pages = {p1, p2}
  Ids = {a}
  Calls = {k1, k2}
  Fetches = {f1}
  None = None
  MaxVersion = 3
INVARIANTS TypeOK NothingUnseen ShownIsAudited
PROPERTIES AssignmentNotStolen ButtonsComeBack
