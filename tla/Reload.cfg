SPECIFICATION FairSpec
CONSTANTS
  c1 = c1
  c2 = c2
  s1 = s1
  s2 = s2
  p1 = p1
  p2 = p2
  t1 = t1
  t2 = t2
  q1 = q1
  q2 = q2
  h1 = h1
  Bad = Bad
  Missing = Missing
  Off = Off
  Sighup = Sighup
  Nobody = Nobody
  Configs = {c1, c2}
  Sources = {s1, s2}
  Pages = {h1}
  Paths = {p1, p2}
  PathOf <- OwnPath
  Tokens = {t1}
  TokenOf <- OneOff
  Refused <- Refusals
  Requests = {q1}
  MaxEdits = 2
  MaxSignals = 2
INVARIANTS TypeOK Fresh Coherent
PROPERTY SignalHeeded
CHECK_DEADLOCK FALSE
