SPECIFICATION FairSpec
CONSTANTS
  Requests = {r1}
  Connections = {k1, k2}
  Companies = {a}
  None = None
INVARIANTS CommittedIsAnswered
