SPECIFICATION Spec
CONSTANTS
  r1 = r1
  r2 = r2
  r3 = r3
  a1 = a1
  None = None
  Rid = {r1, r2, r3}
  Addr = {a1}
  Peer = {p1, p2}
  Worker = {w1, w2}
  MaxWorkers = 2
  HasStream = TRUE
  HasReq = TRUE
  InitRequest <- StreamRequests
  ReqRequest <- SameIdRequests
INVARIANT
  StreamSessionsRoutable
CHECK_DEADLOCK FALSE
