SPECIFICATION FairSpec
CONSTANTS
  s1 = s1
  s2 = s2
  ra = ra
  rb = rb
  t1 = t1
  t2 = t2
  t3 = t3
  raw = raw
  mux = mux
  jaq = jaq
  Mux = Mux
  NoChannel = NoChannel
  Sources = {s1}
  Runtimes = {ra}
  SourceOf <- OneSource
  Tasks = {t1}
  RuntimeOf <- OneRuntime
  RawClients = {raw}
  MuxClients = {jaq}
  Plain = {}
  Filter <- NoFilter
  Capacity = 1
  MaxOutputs = 2
  Quota <- TwoFrames
  MaxFrames = 2
INVARIANT TypeOK
PROPERTIES LaggingLeaves RemovedLetsGo
CHECK_DEADLOCK FALSE
