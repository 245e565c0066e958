------------------------------ MODULE WorkerWs ------------------------------
(***************************************************************************)
(* One session over the WebSocket transport (class Worker::Private,        *)
(* src/src/worker.cpp) together with its WebSocket.                        *)
(*                                                                         *)
(* The worker is a record w that holds its WebSocket.  The client drives   *)
(* it through the dispatcher, the server through the socket, and the event *)
(* loop runs queued calls and timers in any order that is possible.  The   *)
(* slots of the worker run inside the function of the WebSocket that emits *)
(* the signal, so they are part of the same step.                          *)
(***************************************************************************)
EXTENDS WebSocketClient

CONSTANTS
  ZRequest,           \* the requests a client may start the session with
  Sizes,              \* bound: payload sizes of frames of the client
  Credits,            \* bound: credits in a follow-up with data
  SessionBufferSize,  \* config.sessionBufferSize
  Heads,              \* bound: heads of a response to the handshake
  Bodies,             \* bound: runs of body pieces that arrive at once
  Batches,            \* bound: runs of frames that arrive at once
  MaxBody,            \* bound: bytes of a response body without a length
  MaxFrames,          \* bound: frames of the server
  MaxAddrs,           \* bound: addresses of a host
  MaxWrites,          \* bound: follow-ups of the client
  MaxKeepAlives,      \* bound: firings of the keep-alive timer
  Timeouts,           \* the timers that may fire
  Rare,               \* inputs that the runs leave out, see below
  None                \* a null pointer

\* "early-write": the client speaks before it is told that it is connected;
\* "after-close": the server sends frames after its close frame;
\* "lost-handshake": an address fails before the handshake is written, and
\* another one is tried; "closing-error": the connection fails after the
\* client closed, and there is another address.
ASSUME RareAssumption ==
  Rare \subseteq {"early-write", "after-close", "lost-handshake", "closing-error"}

\* valid is the outcome of the checks on seq, return address and policy.
ZRequestType == [ valid : BOOLEAN, credits : Optional, maxRedirects : Optional ]

ASSUME RequestAssumption == ZRequest \subseteq ZRequestType
ASSUME ClientAssumption == /\ Sizes \subseteq Nat /\ Credits \subseteq Optional
                           /\ SessionBufferSize \in Nat
ASSUME ServerAssumption == /\ Heads \subseteq HeadType /\ Bodies \subseteq Seq(PieceType)
                           /\ Batches \subseteq Seq(FrameType)
ASSUME BoundAssumption == /\ MaxBody \in Nat /\ MaxFrames \in Nat /\ MaxAddrs \in Nat
                          /\ MaxWrites \in Nat /\ MaxKeepAlives \in Nat
ASSUME NoneAssumption == None \notin WebSocket

\* What the theorems ask for: none of the rare inputs, redirects without a
\* body, chunks that arrive as a whole, and nothing sent behind a close frame.
\* Without any one of these some property fails.
Ordinary ==
  /\ Rare = {}
  /\ \A head \in Heads : head.answer \in Redirections => head.length = 0 /\ ~head.chunked
  /\ \A pieces \in Bodies : \A i \in 1..Len(pieces) : pieces[i].whole
  /\ \A batch \in Batches : \A i \in 1..Len(batch) - 1 : batch[i].op # "close"

VARIABLES
  w,           \* the worker
  server,      \* the server at the other end of the socket
  frames,      \* frames sent by servers
  writes,      \* follow-ups sent
  keepAlives   \* keep-alive timer firings

vars == <<w, server, frames, writes, keepAlives>>

Deferred == {"Finished", "Cancel", "Error"}
Open == {"Started", "Closing", "PeerClosing"}
WorkerState == {"NotStarted", "CloseWait", "Stopped"} \cup Open \cup Deferred
Endings == {"no", "closed", "error", "cancel", "silent"}
Timers == {"activity", "expire", "keepAlive"}

Worker ==
  [ req : ZRequest, state : WorkerState,
    ws : WebSocket \cup {None}, outCredits : Nat, stuffToRead : BOOLEAN,
    wsClosed : BOOLEAN, wsPendingPeerClose : BOOLEAN, wsPendingWrites : Seq(Nat),
    timers : SUBSET Timers, updateTimer : BOOLEAN,
    \* histories: messages said, whether "connected" was one of them, frames
    \* and bytes passed on, close messages, frames still queued at the close,
    \* frames received, credits given by the client and to it, payload bytes
    \* of the client, how the session ended
    said : Nat, accepted : BOOLEAN, delivered : Nat, bytes : Nat, closes : Nat,
    queuedAtClose : Nat, arrived : Nat, granted : Nat, credited : Nat, uploaded : Nat,
    ending : Endings ]

NewWorker(req) ==
  [ req |-> req, state |-> "NotStarted", ws |-> None,
    outCredits |-> 0, stuffToRead |-> FALSE, wsClosed |-> FALSE,
    wsPendingPeerClose |-> FALSE, wsPendingWrites |-> <<>>,
    timers |-> {}, updateTimer |-> FALSE,
    said |-> 0, accepted |-> FALSE, delivered |-> 0, bytes |-> 0,
    closes |-> 0, queuedAtClose |-> 0, arrived |-> 0, granted |-> 0,
    credited |-> 0, uploaded |-> 0, ending |-> "no" ]

Unconnected == [phase |-> "silent", left |-> 0]

Init == /\ \E req \in ZRequest : w = NewWorker(req)
        /\ server = Unconnected
        /\ frames = 0 /\ writes = 0 /\ keepAlives = 0

----------------------------------------------------------------------------
\* The functions that end a session or speak to the client.

CleanupSession(v) ==
  [v EXCEPT !.updateTimer = FALSE, !.ws = None, !.timers = {}, !.state = "Stopped",
            !.arrived = IF v.ws = None THEN @ ELSE v.ws.arrived]

Finish(v, how) == [CleanupSession(v) EXCEPT !.ending = how]

Defer(v, state) == [CleanupSession(v) EXCEPT !.state = state, !.updateTimer = TRUE]

Update(v) == [v EXCEPT !.updateTimer = TRUE]

\* Messages are counted; what they say is in the other histories.
WriteResponse(v) == [v EXCEPT !.said = @ + 1]

RespondError(v) == Finish(WriteResponse(v), "error")
RespondCancel(v) == Finish(WriteResponse(v), "cancel")

----------------------------------------------------------------------------
\* Worker::doUpdate.

\* Mutant: a frame is passed on while there is any credit.
AffordedAny(v) ==
  LongestPrefix(v.ws.in, LAMBDA prefix : Bytes(Front(prefix)) < v.outCredits)

\* As many frames as the credits allow.
Afforded(v) == LongestPrefix(v.ws.in, LAMBDA prefix : Bytes(prefix) <= v.outCredits)

PassFrames(v) ==
  LET n == Afforded(v)
      passed == SubSeq(v.ws.in, 1, n)
  IN  [v EXCEPT !.ws = ReadFrames(@, n), !.outCredits = @ - Bytes(passed),
                !.stuffToRead = n < Len(v.ws.in),
                !.said = @ + n, !.delivered = @ + n, !.bytes = @ + Bytes(passed)]

\* Mutant: the close stays pending.
PassCloseAgain(v) ==
  LET c == [WriteResponse(v)
              EXCEPT !.closes = @ + 1, !.queuedAtClose = Len(v.ws.in)]
  IN  IF v.state = "Closing" THEN Finish(c, "closed")
      ELSE [c EXCEPT !.state = "PeerClosing"]

PassClose(v) ==
  LET c == [WriteResponse(v)
              EXCEPT !.wsPendingPeerClose = FALSE, !.closes = @ + 1,
                     !.queuedAtClose = Len(v.ws.in)]
  IN  IF v.state = "Closing" THEN Finish(c, "closed")
      ELSE [c EXCEPT !.state = "PeerClosing"]

WorkerDoUpdate(v) ==
  LET s == [v EXCEPT !.updateTimer = FALSE]
      p == IF s.stuffToRead THEN PassFrames(s) ELSE s
  IN  CASE v.state \in Open ->
             IF p.wsPendingPeerClose /\ ~p.stuffToRead THEN PassClose(p) ELSE p
        [] v.state = "CloseWait" -> s
        [] v.state = "Finished" -> Finish(s, "silent")
        [] v.state = "Cancel" -> RespondCancel(s)
        [] v.state = "Error" -> RespondError(s)

----------------------------------------------------------------------------
\* The slots connected to the WebSocket.  An assert that fails in the worker
\* is noted in its WebSocket.

\* Whether the policy allows the address is up to the configuration.
WsNextAddress(v) == {v, RespondError(v)}

WsConnected(v) ==
  [WriteResponse(v)
     EXCEPT !.accepted = TRUE, !.credited = @ + SessionBufferSize]

WsReadyRead(v) ==
  LET s == [v EXCEPT !.stuffToRead = TRUE]
  IN  IF v.outCredits < 1 THEN s ELSE WorkerDoUpdate(s)

Plus(a, b) == a + b
Total(sizes) == FoldLeft(Plus, 0, sizes)

\* The client gets back the bytes of the frames that were written.
WsFramesWritten(v, count) ==
  IF count > Len(v.wsPendingWrites) THEN [v EXCEPT !.ws = Fault(@, "assert")]
  ELSE LET sum == Total(SubSeq(v.wsPendingWrites, 1, count))
       IN  [WriteResponse(v)
              EXCEPT !.wsPendingWrites = SubSeq(@, count + 1, Len(@)),
                     !.credited = @ + sum]

WsPeerClosing(v) ==
  IF v.state # "Started" THEN [v EXCEPT !.ws = Fault(@, "assert")]
  ELSE WorkerDoUpdate([v EXCEPT !.wsPendingPeerClose = TRUE])

WsClosed(v) ==
  CASE v.state = "Closing" -> WorkerDoUpdate([v EXCEPT !.wsPendingPeerClose = TRUE])
    [] v.state = "CloseWait" -> Finish(v, "closed")
    [] OTHER -> v

Slot(v, signal) ==
  CASE signal.name = "nextAddress" -> WsNextAddress(v)
    [] signal.name = "connected" -> {WsConnected(v)}
    [] signal.name = "readyRead" -> {WsReadyRead(v)}
    [] signal.name = "framesWritten" -> {WsFramesWritten(v, signal.count)}
    [] signal.name = "peerClosing" -> {WsPeerClosing(v)}
    [] signal.name = "closed" -> {WsClosed(v)}
    [] signal.name = "error" -> {RespondError(v)}

\* The WebSocket has become s: run the slots of the signals it emitted.  A
\* slot that ends the session deletes the WebSocket, and no other one runs.
RunSlots(results, signal) ==
  UNION {IF x.ws = None \/ x.ws.fault # "none" THEN {x} ELSE Slot(x, signal) : x \in results}

Emitted(v, s) ==
  FoldLeft(RunSlots, {[v EXCEPT !.ws = [s EXCEPT !.signals = <<>>]]}, s.signals)

----------------------------------------------------------------------------
\* Worker::start and Worker::write.  type "other" stands for credit and
\* keep-alive messages; credits is -1 when the field is absent.

WorkerStart(v, req) ==
  LET s == [v EXCEPT !.state = "Started"]
      credits == IF req.credits # -1 THEN req.credits ELSE 0
  IN  IF ~req.valid THEN Defer(s, "Error")
      ELSE [s EXCEPT !.ws = StartWebSocket(req.maxRedirects),
                     !.timers = Timers,
                     !.outCredits = credits, !.granted = credits]

\* "ping" stands for ping and pong.
PassToServer(v, type, size) ==
  CASE type = "data" ->
         [v EXCEPT !.ws = WriteFrame(@, size), !.uploaded = @ + size,
                   !.wsPendingWrites = Append(@, size)]
    [] type = "ping" ->
         [v EXCEPT !.ws = WriteFrame(@, 0), !.wsPendingWrites = Append(@, 0)]
    [] type = "close" ->
         [v EXCEPT !.ws = Close(@), !.wsClosed = TRUE,
                   !.state = IF @ = "Started" THEN "Closing" ELSE "CloseWait"]

\* Mutant: nobody takes care of what waits for credits.
NoResume(v, credits) == v

Resume(v, credits) == IF credits # -1 /\ v.stuffToRead THEN Update(v) ELSE v

\* Mutant: a client may go on after its close.
WorkerWriteAfterClose(v, inSequence, type, size, credits) ==
  IF v.state \notin Open THEN v
  ELSE IF ~inSequence THEN Defer(v, IF type = "cancel" THEN "Finished" ELSE "Cancel")
  ELSE IF type = "cancel" THEN Defer(v, "Finished")
  ELSE
    LET gained == IF credits # -1 THEN credits ELSE 0
        s == [v EXCEPT !.outCredits = @ + gained, !.granted = @ + gained]
    IN  IF type = "other" THEN Resume(s, credits)
        ELSE Resume(PassToServer(s, type, size), credits)

WorkerWrite(v, inSequence, type, size, credits) ==
  IF v.state \notin Open THEN v
  ELSE IF ~inSequence THEN Defer(v, IF type = "cancel" THEN "Finished" ELSE "Cancel")
  ELSE IF type = "cancel" THEN Defer(v, "Finished")
  ELSE
    LET gained == IF credits # -1 THEN credits ELSE 0
        s == [v EXCEPT !.outCredits = @ + gained, !.granted = @ + gained]
    IN  IF type = "other" THEN Resume(s, credits)
        ELSE IF s.wsClosed THEN Defer(s, "Error")
        ELSE Resume(PassToServer(s, type, size), credits)

----------------------------------------------------------------------------
\* The actions.

Running == w.ws # None => w.ws.fault = "none"
HasSocket == w.ws # None /\ Running

ClientStart ==
  /\ w.state = "NotStarted"
  /\ w' = WorkerStart(w, w.req)
  /\ UNCHANGED <<server, frames, writes, keepAlives>>

\* The client sends no more data than it was given credits for, and speaks to
\* the server once it is connected.
ClientWrite(inSequence, type, size, credits) ==
  /\ Running /\ w.state # "NotStarted" /\ w.ending = "no" /\ writes < MaxWrites
  /\ type = "data" => w.uploaded + size <= w.credited
  /\ type \in {"data", "ping", "close"} => w.accepted \/ "early-write" \in Rare
  /\ w' = WorkerWrite(w, inSequence, type, size, credits)
  /\ writes' = writes + 1
  /\ UNCHANGED <<server, frames, keepAlives>>

DoUpdate ==
  /\ Running /\ w.updateTimer
  /\ w' = WorkerDoUpdate(w)
  /\ UNCHANGED <<server, frames, writes, keepAlives>>

\* What the WebSocket does, with the slots that run in it.
WebSocketStep(s) ==
  /\ \E t \in {s} : w' \in Emitted(w, t)
  /\ UNCHANGED <<frames, writes, keepAlives>>

QueuedTryRead ==
  /\ HasSocket /\ w.ws.pendingRead
  /\ WebSocketStep(TryRead(w.ws)) /\ UNCHANGED server

Resolve ==
  /\ HasSocket /\ w.ws.resolving
  /\ \/ WebSocketStep(ResolverError(w.ws))
     \/ \E n \in 1..MaxAddrs : WebSocketStep(ResolverResultsReady(w.ws, n))
  /\ UNCHANGED server

Connects ==
  /\ HasSocket /\ w.ws.sock = "connecting"
  /\ WebSocketStep(SockConnected(w.ws))
  /\ server' = Unconnected

BytesWritten(bytes) ==
  /\ HasSocket /\ w.ws.sock \in {"up", "leaving"}
  /\ WebSocketStep(SockBytesWritten(w.ws, bytes)) /\ UNCHANGED server

\* An address may refuse, TLS may fail before the handshake is written, and a
\* connection may fail at any time.
FailsIn(socketError) ==
  CASE socketError = "refused" -> {"connecting"}
    [] socketError = "tls" -> {"connecting"} \cup (IF server = Unconnected THEN {"up"} ELSE {})
    [] OTHER -> {"connecting", "up", "leaving"}

Fails(socketError) ==
  /\ HasSocket
  /\ w.ws.sock \in FailsIn(socketError)
  /\ w.ws.addrs > 0 /\ w.ws.state = "Closing" => "closing-error" \in Rare
  /\ w.ws.addrs > 0 /\ w.ws.unwritten > 0 /\ w.ws.state = "Connecting" /\ socketError # "tls" =>
       "lost-handshake" \in Rare
  /\ WebSocketStep(SockError(w.ws, socketError))
  /\ server' = [phase |-> "closed", left |-> 0]

SocketDisconnects ==
  /\ HasSocket /\ w.ws.sock = "leaving" /\ w.ws.unwritten = 0
  /\ WebSocketStep(Disconnected(w.ws)) /\ UNCHANGED server

\* Something arrives, to a socket that is not gone: the head of the response,
\* perhaps with what follows it, then pieces of a body or frames.
Arrives(items) == /\ HasSocket /\ w.ws.sock \in {"up", "leaving"}
                  /\ \E t \in {SockReadyRead(w.ws, items)} :
                       w' \in Emitted(w, t)
                  /\ UNCHANGED <<writes, keepAlives>>

\* The last frame of a server is its close frame.
Sends(prefix, batch) ==
  /\ frames + Len(batch) <= MaxFrames /\ frames' = frames + Len(batch)
  /\ server' = [phase |-> IF batch # <<>> /\ Last(batch).op = "close"
                               /\ "after-close" \notin Rare
                            THEN "closed" ELSE "upgraded", left |-> 0]
  /\ Arrives(prefix \o batch)

SendsBody(prefix, pieces, left) ==
  /\ Bytes(pieces) <= left
  /\ server' = [phase |-> "body", left |-> left - Bytes(pieces)]
  /\ UNCHANGED frames
  /\ Arrives(prefix \o pieces)

\* A server answers when it has the whole handshake.
ServerAnswers(head) ==
  /\ server.phase = "silent" /\ HasSocket /\ w.ws.unwritten = 0
  /\ IF head.answer = "upgrade" THEN \E batch \in Batches \cup {<<>>} : Sends(<<head>>, batch)
     ELSE \E pieces \in Bodies \cup {<<>>} :
            SendsBody(<<head>>, pieces, IF head.length = -1 THEN MaxBody ELSE head.length)

ServerSendsBody(pieces) == /\ server.phase = "body" /\ server.left > 0
                           /\ SendsBody(<<>>, pieces, server.left)

ServerSendsFrames(batch) == server.phase = "upgraded" /\ Sends(<<>>, batch)

\* The last word of a server to a client that closes.
ServerCloses == /\ server.phase = "upgraded"
                /\ HasSocket /\ w.ws.state = "Closing"
                /\ server' = [phase |-> "closed", left |-> 0]
                /\ UNCHANGED frames
                /\ Arrives(<<Frame("close", 0)>>)

ExpireTimeout ==
  /\ Running /\ "expire" \in w.timers \cap Timeouts
  /\ w' = Finish(w, "silent")
  /\ UNCHANGED <<server, frames, writes, keepAlives>>

ActivityTimeout ==
  /\ Running /\ "activity" \in w.timers \cap Timeouts
  /\ w' = RespondError(w)
  /\ UNCHANGED <<server, frames, writes, keepAlives>>

KeepAliveTimeout ==
  /\ Running /\ "keepAlive" \in w.timers \cap Timeouts /\ keepAlives < MaxKeepAlives
  /\ w' = WriteResponse(w)
  /\ keepAlives' = keepAlives + 1
  /\ UNCHANGED <<server, frames, writes>>

ClientNext ==
  \/ ClientStart
  \/ \E inSequence \in BOOLEAN, credits \in Credits, size \in Sizes :
       ClientWrite(inSequence, "data", size, credits)
  \/ \E inSequence \in BOOLEAN, type \in {"ping", "close", "cancel", "other"} :
       ClientWrite(inSequence, type, 0, -1)

\* The example client returns as many credits as it received bytes; it does
\* so again and again.
ClientReturnsCredits ==
  LET owed == w.bytes + (IF w.req.credits = -1 THEN 0 ELSE w.req.credits) - w.granted
  IN  /\ Running /\ w.state \in Open /\ owed > 0
      /\ w' = WorkerWrite(w, TRUE, "other", 0, owed)
      /\ UNCHANGED <<server, frames, writes, keepAlives>>

LoopNext == DoUpdate \/ QueuedTryRead

SocketNext == \/ Resolve \/ Connects \/ SocketDisconnects
              \/ HasSocket /\ \E bytes \in 1..w.ws.unwritten : BytesWritten(bytes)
              \/ \E socketError \in {"refused", "tls", "closed", "other"} : Fails(socketError)

ServerNext == \/ \E head \in Heads : ServerAnswers(head)
              \/ \E pieces \in Bodies : ServerSendsBody(pieces)
              \/ \E batch \in Batches : ServerSendsFrames(batch)
              \/ ServerCloses

TimerNext == ExpireTimeout \/ ActivityTimeout \/ KeepAliveTimeout

Next == \/ ClientNext \/ ClientReturnsCredits \/ LoopNext
        \/ SocketNext \/ ServerNext \/ TimerNext

Spec == Init /\ [][Next]_vars

Flushed == HasSocket /\ w.ws.unwritten > 0 /\ BytesWritten(w.ws.unwritten)

\* The event loop runs what is queued, a socket sends what it is given, a
\* server answers a handshake and a close, a client returns credits.
FairSpec == /\ Spec
            /\ WF_vars(DoUpdate) /\ WF_vars(QueuedTryRead)
            /\ WF_vars(Flushed) /\ WF_vars(SocketDisconnects)
            /\ WF_vars(ServerCloses) /\ WF_vars(ClientReturnsCredits)

----------------------------------------------------------------------------
TypeOK ==
  /\ w \in Worker
  /\ server \in [phase : {"silent", "body", "upgraded", "closed"}, left : Nat]
  /\ frames \in 0..MaxFrames /\ writes \in 0..MaxWrites
  /\ keepAlives \in 0..MaxKeepAlives

Arrived == IF w.ws = None THEN w.arrived ELSE w.ws.arrived

S == INSTANCE WsSession WITH said <- w.said, accepted <- w.accepted,
                             arrived <- Arrived, allowed <- w.granted,
                             delivered <- w.delivered, bytes <- w.bytes,
                             closes <- w.closes, ending <- w.ending

\* The worker keeps what WsSession promises, whatever the server sends at once
\* and whatever the client says meanwhile.
ImplementsWsSession == S!Spec

\* No assert of the worker or of its WebSocket fails, no function reaches for
\* a socket that is gone, and no loop runs for ever.
NoFault == Running

\* The two lists of frames that are being written, one of the worker and one
\* of the WebSocket, stay in step; a connected client has got back the credits
\* of all that the socket wrote.
WritesInStep ==
  HasSocket =>
    /\ FrameCount(w.ws.pendingWrites) = Len(w.wsPendingWrites)
    /\ w.ws.state = "Connected" /\ w.ws.unwritten = 0 => w.wsPendingWrites = <<>>

\* What can be passed on is passed on: frames wait only for credits, the close
\* of the server only for frames before it, and what the socket holds only for
\* room.
NothingStuck ==
  HasSocket /\ w.state \in Open =>
    /\ w.ws.in # <<>> => w.stuffToRead
    /\ w.stuffToRead => \/ w.updateTimer \/ w.outCredits < 1
                        \/ w.ws.in # <<>> /\ w.outCredits < w.ws.in[1].size
    /\ w.wsPendingPeerClose => w.stuffToRead
    /\ w.ws.net # <<>> => w.ws.pendingRead \/ InBytes(w.ws) >= MaxFrameSize

\* The close of the server is passed on after all of its frames.
CloseIsLast == w.queuedAtClose = 0

\* A session that the client closes comes to an end, although what the server
\* sent before its own close may wait for credits.  The client has to start
\* with credits for the largest frame, and no server may send a frame of an
\* unknown type ahead of its close frame: the close then stays in inbuf.
CloseCompletes ==
  (w.state \in {"Closing", "CloseWait"} /\ w.req.credits >= MaxFrameSize)
    ~> w.ending # "no"
=============================================================================
