SPECIFICATION LiveSpec
CONSTANTS
  BufferSize = 3
  RequestBodyMax = 2
  MaxChunk = 2
  MaxBody = 4
  MaxUpload = 4
  MaxRewinds = 1
CHECK_DEADLOCK FALSE
INVARIANTS
  TypeOK
  NoAssertFails
  RecvPauseHasReader
  SendPauseOnlyWhenDrained
  NoLostSignal
  UploadPositionExact
  NoEarlyEof
PROPERTIES
  DownloadProgresses
  UploadProgresses
