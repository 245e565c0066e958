--------------------------- MODULE WebSocketClient ---------------------------
(***************************************************************************)
(* The data of one WebSocket (src/src/websocket.cpp) and what each of its  *)
(* functions does to it.                                                   *)
(*                                                                         *)
(* A WebSocket is a record s.  What the server sends is a sequence of      *)
(* whole items: the head of a response, pieces of a response body, frames. *)
(* Payloads are byte counts.  The signals a function emits are collected   *)
(* in s.signals, in their order; none of the functions looks at s after an *)
(* emission that could have changed it, so the owner runs its slots after. *)
(***************************************************************************)
EXTENDS Integers, SequencesExt

CONSTANTS
  MaxFrameSize,  \* setMaxFrameSize, which the worker always calls
  BodyMax,       \* RESPONSE_BODY_MAX
  HeaderSize     \* bytes of a frame besides its payload, and of a handshake

ASSUME WebSocketAssumption ==
  /\ MaxFrameSize \in Nat \ {0} /\ BodyMax \in Nat \ {0}
  /\ HeaderSize \in Nat \ {0}

\* A number, or -1 where there is none.
Optional == Nat \cup {-1}

Ops == {"data", "ping", "pong", "close", "unknown"}
FrameType == [kind : {"frame"}, op : Ops, size : Nat]
Frame(op, size) == [kind |-> "frame", op |-> op, size |-> size]

\* length is -1 without Content-Length.  A "redirect" has the status of a
\* redirection and a Location, a "no-location" has that status only.
Redirections == {"redirect", "no-location"}
Answers == {"upgrade", "reject", "bad"} \cup Redirections
HeadType == [kind : {"head"}, answer : Answers, length : Optional, chunked : BOOLEAN]
ResponseHead(answer, length, chunked) ==
  [kind |-> "head", answer |-> answer, length |-> length, chunked |-> chunked]

\* Bytes of a plain body, or a chunk; a chunk may be there only in part.
PieceType == [kind : {"body"}, size : Nat, whole : BOOLEAN]
Piece(size, whole) == [kind |-> "body", size |-> size, whole |-> whole]

Write == [frame : BOOLEAN, size : Nat]
SignalName == {"nextAddress", "connected", "readyRead", "framesWritten", "peerClosing",
               "closed", "error"}
SignalType == [name : SignalName, count : Nat]

StateType == {"Idle", "Connecting", "Connected", "Closing"}
SockType == {"none", "connecting", "up", "leaving"}
CodeType == Answers \cup {"none"}
ErrorType == {"none", "generic", "connect", "tls", "rejected", "too-large"}
WorstType == {"generic", "connect"}
FaultType == {"none", "assert", "no-socket", "endless-loop"}

WebSocket ==
  [ state         : StateType,
    resolving     : BOOLEAN,  \* the AddressResolver was started
    addrs         : Nat,      \* addresses not tried yet
    sock          : SockType,
    code          : CodeType,
    length        : Optional,
    chunked       : BOOLEAN,
    readingBody   : BOOLEAN,
    body          : Nat,
    redirects     : Nat,      \* followedRedirects
    maxRedirects  : Optional,
    peerClosing   : BOOLEAN,
    error         : ErrorType,
    worst         : WorstType,  \* mostSignificantError
    inbuf         : Seq(FrameType),
    in            : Seq(FrameType),
    pendingRead   : BOOLEAN,  \* a queued call of tryRead
    pendingWrites : Seq(Write),
    signals       : Seq(SignalType),
    fault         : FaultType,
    \* the QSslSocket: what it received and was not read, and what it was
    \* given and did not send
    net           : Seq(FrameType),
    unwritten     : Nat,
    arrived       : Nat ]     \* history: frames put into in

NewWebSocket(maxRedirects) ==
  [ state |-> "Idle", resolving |-> FALSE, addrs |-> 0, sock |-> "none",
    code |-> "none", length |-> -1, chunked |-> FALSE, readingBody |-> FALSE,
    body |-> 0, redirects |-> 0, maxRedirects |-> maxRedirects,
    peerClosing |-> FALSE, error |-> "none", worst |-> "generic",
    inbuf |-> <<>>, in |-> <<>>, pendingRead |-> FALSE, pendingWrites |-> <<>>,
    signals |-> <<>>, fault |-> "none", net |-> <<>>, unwritten |-> 0,
    arrived |-> 0 ]

Signal(name, count) == [name |-> name, count |-> count]
Emit(s, name) == [s EXCEPT !.signals = Append(@, Signal(name, 0))]
Fault(s, what) == [s EXCEPT !.fault = what]

AddSize(sum, item) == sum + item.size
Bytes(items) == FoldLeft(AddSize, 0, items)
InBytes(s) == Bytes(s.in)

Smaller(a, b) == IF a <= b THEN a ELSE b

\* The longest prefix of items that may be taken one by one; Fits tells of a
\* prefix whether its last item may still be taken.
LongestPrefix(items, Fits(_)) ==
  LET lengths == {n \in 0..Len(items) : \A k \in 1..n : Fits(SubSeq(items, 1, k))}
  IN  CHOOSE n \in lengths : \A m \in lengths : m <= n

----------------------------------------------------------------------------
\* Connecting, and how an attempt ends.

Cleanup(s) == [s EXCEPT !.sock = "none", !.net = <<>>, !.unwritten = 0]

Fail(s, condition) ==
  Emit([Cleanup(s) EXCEPT !.state = "Idle", !.error = condition], "error")

\* Addresses, headers, body, frames and pending writes of an attempt before
\* stay.
TryConnect(s) ==
  [s EXCEPT !.code = "none", !.length = -1, !.readingBody = FALSE,
            !.chunked = FALSE, !.peerClosing = FALSE, !.error = "none",
            !.worst = "generic", !.inbuf = <<>>, !.pendingRead = FALSE,
            !.state = "Connecting", !.resolving = TRUE]

StartWebSocket(maxRedirects) == TryConnect(NewWebSocket(maxRedirects))

TryNextAddress(s) ==
  IF s.addrs = 0
    THEN Emit([s EXCEPT !.state = "Idle", !.error = s.worst], "error")
    ELSE Emit([s EXCEPT !.addrs = @ - 1, !.sock = "connecting"], "nextAddress")

ResolverResultsReady(s, addresses) ==
  TryNextAddress([s EXCEPT !.resolving = FALSE, !.addrs = @ + addresses])

ResolverError(s) ==
  Emit([s EXCEPT !.resolving = FALSE, !.state = "Idle", !.error = "connect"], "error")

Disconnected(s) == Emit([Cleanup(s) EXCEPT !.state = "Idle"], "closed")

\* QAbstractSocket::disconnectFromHost: at once when all is sent.
DisconnectFromHost(s) ==
  IF s.unwritten = 0 THEN Disconnected(s) ELSE [s EXCEPT !.sock = "leaving"]

Send(s, frame, size) ==
  [s EXCEPT !.pendingWrites = Append(@, [frame |-> frame, size |-> size]),
            !.unwritten = @ + size]

SockConnected(s) == Send([s EXCEPT !.sock = "up"], FALSE, HeaderSize)

----------------------------------------------------------------------------
\* The response to the handshake.

\* The headers of a response that was followed stay, so the Location of the
\* first redirect serves for all that come after it.
HasLocation(s) == s.code = "redirect" \/ s.redirects > 0

HandleResponse(s) ==
  IF ~(s.maxRedirects > 0 /\ s.code \in Redirections /\ HasLocation(s))
    THEN Fail(s, "rejected")
  ELSE IF s.redirects >= s.maxRedirects THEN Fail(s, "generic")
  ELSE TryConnect(Cleanup([s EXCEPT !.redirects = @ + 1]))

\* Chunks are taken while they fit; the empty one is the last.  The head of
\* another response is no chunk.
TakeChunk(acc, piece) ==
  IF acc.end # "no" THEN acc
  ELSE IF piece.kind = "head" THEN [acc EXCEPT !.end = "error"]
  ELSE IF acc.body + piece.size > BodyMax THEN [acc EXCEPT !.end = "eof"]
  ELSE IF ~piece.whole THEN [acc EXCEPT !.end = "endless-loop"]
  ELSE IF piece.size = 0 THEN [acc EXCEPT !.end = "eof"]
  ELSE [acc EXCEPT !.body = @ + piece.size]

TakeChunks(body, pieces) == FoldLeft(TakeChunk, [body |-> body, end |-> "no"], pieces)

TryProcessChunks(s, pieces) ==
  LET result == TakeChunks(s.body, pieces)
      r == [s EXCEPT !.body = result.body]
  IN  CASE result.end = "no" -> r
        [] result.end = "eof" -> HandleResponse(r)
        [] result.end = "error" -> Fail(r, "generic")
        [] result.end = "endless-loop" -> Fault(r, "endless-loop")

\* A body that is already longer than its length trips an assert, as mid(0, n)
\* with a negative n takes everything.  A response head read as body counts.
AddPlain(sum, piece) == sum + IF piece.kind = "head" THEN 1 ELSE piece.size

PlainSize(pieces) == FoldLeft(AddPlain, 0, pieces)

TryProcessPlain(s, pieces) ==
  LET size == PlainSize(pieces)
      room == IF s.length = -1 THEN BodyMax - s.body
                               ELSE Smaller(BodyMax - s.body, s.length - s.body)
      r == [s EXCEPT !.body = @ + Smaller(size, room)]
  IN  IF room < 0 THEN Fault(s, "assert")
      ELSE IF r.body \in {s.length, BodyMax} THEN HandleResponse(r)
      ELSE r

TryProcessBody(s, pieces) ==
  IF s.chunked THEN TryProcessChunks(s, pieces) ELSE TryProcessPlain(s, pieces)

----------------------------------------------------------------------------
\* Frames.

FrameTooLarge(frame) == frame.size > MaxFrameSize

\* Frames are taken up to one that is no message: a close frame, one of an
\* unknown type, or any frame after a close frame.  What is behind it waits
\* until something else arrives.
Taken(s, frame) ==
  /\ ~FrameTooLarge(frame) /\ ~s.peerClosing
  /\ frame.op \notin {"close", "unknown"}

TryProcessFrames(s) ==
  LET n == LongestPrefix(s.inbuf, LAMBDA prefix : Taken(s, Last(prefix)))
      rest == SubSeq(s.inbuf, n + 1, Len(s.inbuf))
      got == [s EXCEPT !.in = @ \o SubSeq(s.inbuf, 1, n), !.arrived = @ + n,
                       !.inbuf = IF rest = <<>> THEN <<>> ELSE Tail(rest)]
      closing == [got EXCEPT !.peerClosing = TRUE]
      processed ==
        IF rest = <<>> THEN got
        ELSE IF FrameTooLarge(rest[1]) THEN Fail(got, "too-large")
        ELSE IF rest[1].op # "close" \/ s.peerClosing THEN got
        ELSE IF s.state = "Closing" THEN DisconnectFromHost(closing)
        ELSE Emit(closing, "peerClosing")
  IN  IF n > 0 THEN Emit(processed, "readyRead") ELSE processed

\* The text of a response, read as a frame, is a close frame: 'H' is 0x48.
AsFrames(items) ==
  [i \in 1..Len(items) |-> IF items[i].kind = "frame" THEN items[i] ELSE Frame("close", 0)]

TryRead(s) ==
  LET r == [s EXCEPT !.pendingRead = FALSE]
  IN  IF InBytes(s) >= MaxFrameSize THEN r
      ELSE IF s.sock = "none" THEN Fault(r, "no-socket")
      ELSE IF s.net = <<>> THEN r
      ELSE TryProcessFrames([r EXCEPT !.inbuf = @ \o s.net, !.net = <<>>])

\* The first item of a response is its head.
ReadResponse(s, items) ==
  LET head == items[1]
      rest == Tail(items)
      r == [s EXCEPT !.code = head.answer]
  IN  CASE head.answer = "bad" -> Fail(r, "generic")
        [] head.answer = "upgrade" ->
             TryProcessFrames(Emit([r EXCEPT !.state = "Connected", !.inbuf = rest],
                                   "connected"))
        [] OTHER ->
             TryProcessBody([r EXCEPT !.length = head.length, !.chunked = head.chunked,
                                      !.readingBody = TRUE], rest)

SockReadyRead(s, items) ==
  IF s.state # "Connecting" THEN TryRead([s EXCEPT !.net = @ \o AsFrames(items)])
  ELSE IF s.readingBody THEN TryProcessBody(s, items)
  ELSE ReadResponse(s, items)

\* Reading n frames makes room for more of them.
\* Mutant: nothing is read again.
ReadFramesOnly(s, n) == [s EXCEPT !.in = SubSeq(@, n + 1, Len(@))]

ReadFrames(s, n) ==
  LET r == [s EXCEPT !.in = SubSeq(@, n + 1, Len(@))]
  IN  IF n > 0 /\ InBytes(r) < MaxFrameSize /\ s.sock # "none" /\ s.net # <<>>
        THEN [r EXCEPT !.pendingRead = TRUE]
        ELSE r

WriteFrame(s, size) ==
  IF s.state = "Idle" THEN Fault(s, "assert")
  ELSE IF s.state = "Closing" THEN s
  ELSE IF s.sock = "none" THEN Fault(s, "no-socket")
  ELSE Send(s, TRUE, HeaderSize + size)

Close(s) ==
  LET r == Send([s EXCEPT !.state = "Closing"], FALSE, HeaderSize)
  IN  IF s.sock = "none" THEN Fault(r, "no-socket")
      ELSE IF s.peerClosing THEN DisconnectFromHost(r)
      ELSE r

\* How many of the writes are frames of the user.
CountFrame(sum, item) == IF item.frame THEN sum + 1 ELSE sum
FrameCount(writes) == FoldLeft(CountFrame, 0, writes)

\* Mutant: the close frame counts as a frame of the user.
SockBytesWrittenAll(s, bytes) ==
  LET done == LongestPrefix(s.pendingWrites, LAMBDA prefix : Bytes(prefix) <= bytes)
      left == bytes - Bytes(SubSeq(s.pendingWrites, 1, done))
      rest == SubSeq(s.pendingWrites, done + 1, Len(s.pendingWrites))
      r == [s EXCEPT !.unwritten = @ - bytes,
                     !.pendingWrites = IF left = 0 THEN rest
                                       ELSE [rest EXCEPT ![1].size = @ - left]]
  IN  IF done = 0 THEN r
      ELSE [r EXCEPT !.signals = Append(@, Signal("framesWritten", done))]

\* The bytes are those of the oldest writes.
SockBytesWritten(s, bytes) ==
  LET done == LongestPrefix(s.pendingWrites, LAMBDA prefix : Bytes(prefix) <= bytes)
      left == bytes - Bytes(SubSeq(s.pendingWrites, 1, done))
      rest == SubSeq(s.pendingWrites, done + 1, Len(s.pendingWrites))
      frames == FrameCount(SubSeq(s.pendingWrites, 1, done))
      r == [s EXCEPT !.unwritten = @ - bytes,
                     !.pendingWrites = IF left = 0 THEN rest
                                       ELSE [rest EXCEPT ![1].size = @ - left]]
  IN  IF Bytes(s.pendingWrites) < bytes THEN Fault(s, "assert")
      ELSE IF frames = 0 THEN r
      ELSE [r EXCEPT !.signals = Append(@, Signal("framesWritten", frames))]

\* "closed": RemoteHostClosedError.  An error of a closing socket goes on to
\* the next address, like one of a connecting socket.
Condition(socketError) ==
  CASE socketError = "refused" -> "connect"
    [] socketError = "tls" -> "tls"
    [] OTHER -> "generic"

MoreSignificant(worst, condition) == IF condition = "connect" THEN condition ELSE worst

SockError(s, socketError) ==
  LET condition == Condition(socketError)
      bodyEnds == s.readingBody /\ s.length = -1 /\ ~s.chunked
  IN  IF socketError = "closed" /\ s.state = "Closing" /\ s.peerClosing
        THEN [s EXCEPT !.sock = "leaving", !.unwritten = 0]  \* disconnected comes
      ELSE IF socketError = "closed" /\ bodyEnds THEN HandleResponse(s)
      ELSE IF socketError = "tls" \/ s.state = "Connected" THEN Fail(s, condition)
      ELSE TryNextAddress(Cleanup([s EXCEPT !.worst = MoreSignificant(@, condition)]))
=============================================================================
