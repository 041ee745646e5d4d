SPECIFICATION Spec
CONSTANTS
  Keys = {h1, h2}
  DefaultWindow = 2
  MaxWindow = 3
  Requested = NoRequest
  NoRequest = NoRequest
  MaxGap = 9
  MaxTime = 12
INVARIANT AtMostTwoWindows
CHECK_DEADLOCK FALSE
