SPECIFICATION FairSpec
CONSTANTS
  ZRequest <- Requests
  Sizes = {1}
  Credits <- SomeCredits
  SessionBufferSize = 1
  Heads <- Answer
  Bodies <- Pieces
  Batches <- Runs
  MaxBody = 2
  MaxFrames = 2
  MaxAddrs = 2
  MaxWrites = 2
  MaxKeepAlives = 1
  Timeouts = {"activity", "expire", "keepAlive"}
  Rare = {}
  MaxFrameSize = 2
  BodyMax = 3
  HeaderSize = 1
  None = None
  BitXor <- ByteXor
  ToInt <- HexValue
INVARIANTS TypeOK NoFault WritesInStep NothingStuck
PROPERTIES ImplementsWsSession CloseCompletes
CHECK_DEADLOCK FALSE
