SPECIFICATION PipelineSpec
CONSTANTS
  h1 = h1
  h2 = h2
  fromB = fromB
  twice = twice
  broken = broken
  Keys = {h1, h2}
  DefaultWindow = 2
  MaxWindow = 3
  Requested = 9
  NoRequest = NoRequest
  MaxGap = 2
  MaxTime = 11
  Bytes = {1, 2, 3, 4, 5, 6, 7, 8, 9}
  SourceIds <- MCSourceIds
  Payloads <- MCPayloads
  SourceSpan = 4
  PayloadSpan = 4
  IsUtf8 <- MCIsUtf8
  IsJson <- MCIsJson
  Probe <- MCProbe
  Upper <- MCUpper
  Blank = Blank
  None = None
  Queries <- DedupFromB
  Listed <- MCSourceIds
  Programs = {fromB, twice}
  Outcome <- MCOutcome
  Failed = Failed
  Messages <- FewMessages
  Unsent = Unsent
INVARIANT SuppressedWasSent
CHECK_DEADLOCK FALSE
