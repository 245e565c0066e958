SPECIFICATION Spec
CONSTANTS
  ZRequest <- AnyRequest
  Pieces = {0, 2}
  Credits <- CreditsOfStreams
  SessionBufferSize = 2
  MaxWrites = 3
  MaxKeepAlives = 1
  MaxRewinds = 1
  Timeouts = {"activity", "session", "expire", "keepAlive"}
  BufferSize = 2
  RequestBodyMax = 1
  MaxChunk = 2
  MaxBody = 3
  None = None
INVARIANTS
  TypeOK
  NoLostWakeup
  MaxSizeKept
  OneReply
  CollectedMeansComplete
  UploadWindow
  RequestUsedProperly
PROPERTIES
  ImplementsSession
  HeaderOnce
CHECK_DEADLOCK FALSE
