SPECIFICATION Spec
CONSTANTS
  s1 = s1
  s2 = s2
  ra = ra
  rb = rb
  t1 = t1
  t2 = t2
  t3 = t3
  raw = raw
  mux = mux
  jaq = jaq
  Mux = Mux
  NoChannel = NoChannel
  Sources = {s1, s2}
  Runtimes = {ra, rb}
  SourceOf <- TwoSources
  Tasks = {t1, t2, t3}
  RuntimeOf <- OneRespawned
  RawClients = {}
  MuxClients = {mux}
  Plain = {mux}
  Filter <- OnlyFirst
  Capacity = 1
  MaxOutputs = 2
  Quota <- TwoAndOne
  MaxFrames = 2
INVARIANTS NoGap SequencesOK BothOrNeither
PROPERTY KeepsPromise
SYMMETRY Respawns
CHECK_DEADLOCK FALSE
