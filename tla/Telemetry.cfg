SPECIFICATION FairSpec
CONSTANTS
  Ids = {s}
  Clients = {c}
  Capacity = 1
  None = None
  MaxRuntimes = 3
  MaxPackets = 2
  MaxSnapshots = 3
INVARIANTS TypeOK Counted InOrder
PROPERTY CatchesUp
CHECK_DEADLOCK FALSE
