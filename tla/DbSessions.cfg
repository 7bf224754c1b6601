SPECIFICATION FairSpec
CONSTANTS
  Requests = {r1, r2, r3}
  Connections = {k1}
  Companies = {a}
  None = None
INVARIANTS TypeOK NoForeignSetting PoolSound
PROPERTIES Served
