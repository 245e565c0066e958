SPECIFICATION Spec
CONSTANTS
  ZRequest <- OneGet
  Pieces = {0}
  Credits <- OneCredit
  SessionBufferSize = 2
  MaxWrites = 2
  MaxKeepAlives = 0
  MaxRewinds = 0
  Timeouts = {}
  BufferSize = 2
  RequestBodyMax = 2
  MaxChunk = 2
  MaxBody = 2
  None = None
INVARIANTS FinalMeansComplete
CHECK_DEADLOCK FALSE
