SPECIFICATION Spec
CONSTANTS
  ZRequest <- Redirecting
  Sizes = {1}
  Credits <- NoCredits
  SessionBufferSize = 1
  Heads <- RedirectWithBody
  Bodies <- RedirectBody
  Batches <- Runs
  MaxBody = 2
  MaxFrames = 2
  MaxAddrs = 1
  MaxWrites = 2
  MaxKeepAlives = 1
  Timeouts = {"activity", "expire", "keepAlive"}
  Rare = {}
  MaxFrameSize = 2
  BodyMax = 3
  HeaderSize = 1
  None = None
  BitXor <- ByteXor
  ToInt <- HexValue
INVARIANTS NoFault

CHECK_DEADLOCK FALSE
