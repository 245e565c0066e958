SPECIFICATION LiveSpec
CONSTANTS
  ZRequest <- Live
  Pieces = {0}
  Credits <- NoCredits
  SessionBufferSize = 2
  MaxWrites = 6
  MaxKeepAlives = 0
  MaxRewinds = 0
  Timeouts = {}
  BufferSize = 2
  RequestBodyMax = 2
  MaxChunk = 2
  MaxBody = 3
  None = None
PROPERTIES OutcomeReported
CHECK_DEADLOCK FALSE
