SPECIFICATION Spec
CONSTANTS
  a = a
  b = b
  x = x
  y = y
  Absent = Absent
  None = None
  Ids = {a, b}
  Connections = {x, y}
  Desires <- OnOff
  MaxApplies = 2
  MaxRuntimes = 3
  MaxTasks = 2
INVARIANT DisabledShown
CHECK_DEADLOCK FALSE
