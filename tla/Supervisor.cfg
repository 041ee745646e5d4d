SPECIFICATION Spec
CONSTANTS
  a = a
  b = b
  x = x
  y = y
  Absent = Absent
  None = None
  Ids = {a, b}
  Connections = {x, y}
  Desires <- AnyMove
  MaxApplies = 3
  MaxRuntimes = 3
  MaxTasks = 2
INVARIANTS TypeOK InReach Applied InForce
PROPERTIES KeepsPromise WindsDown
CHECK_DEADLOCK FALSE
