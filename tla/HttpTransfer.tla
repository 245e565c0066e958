---------------------------- MODULE HttpTransfer ----------------------------
(***************************************************************************)
(* The data of one HttpRequest and its CurlConnection, and what each       *)
(* function of src/src/httprequest.cpp does to it.                         *)
(*                                                                         *)
(* A request is a record h; bodies are byte counts, since both buffers are *)
(* queues.  A function that may let curl call back before it returns has a *)
(* set of possible results; every other one has a single result.  libcurl  *)
(* is external: it may call the callbacks in any order its interface       *)
(* allows.                                                                 *)
(***************************************************************************)
EXTENDS Integers

CONSTANTS
  BufferSize,      \* BUFFER_SIZE, also the largest chunk curl hands over
  RequestBodyMax,  \* REQUEST_BODY_BUFFER_MAX
  MaxChunk,        \* bound: largest chunk curl writes or asks for
  MaxBody          \* bound: bytes of a response body

ASSUME SizeAssumption ==
  /\ BufferSize \in Nat \ {0} /\ RequestBodyMax \in Nat
  /\ MaxChunk \in 1..BufferSize /\ MaxBody \in Nat

Chunk == 1..MaxChunk

\* "get" stands for GET, OPTIONS and DELETE, "post" for POST, PUT and others.
Methods == {"get", "head", "post"}

Request ==
  [ method         : Methods,
    willWriteBody  : BOOLEAN,  \* the user may provide a body
    bodyNotAllowed : BOOLEAN,
    ignoreBody     : BOOLEAN,
    errorCondition : {"none", "body-not-allowed", "transfer"},
    conn           : BOOLEAN,  \* the CurlConnection exists
    header         : BOOLEAN,  \* haveResponseHeaders
    in             : 0..BufferSize,
    result         : {"none", "ok", "err"},  \* "none": not inFinished
    out            : Nat,      \* bytes in the out buffer
    outPos         : Nat \cup {-1},          \* -1: unbuffered
    outFinished    : BOOLEAN,
    newlyReadOrEof : BOOLEAN,
    newlyWritten   : Nat,
    pendingUpdate  : BOOLEAN,  \* a queued call of doUpdate
    pauseRecv      : BOOLEAN,  \* CURLPAUSE_RECV in pauseBits
    pauseSend      : BOOLEAN,  \* CURLPAUSE_SEND in pauseBits
    aborted        : BOOLEAN,  \* an assert failed
    arrived        : Nat,      \* history: response bytes accepted from curl
    written        : Nat,      \* history: body bytes the user provided
    taken          : Nat,      \* history: curl's position in that body
    eof            : BOOLEAN ] \* history: curl was told that the body ends

NewRequest ==
  [ method |-> "get", willWriteBody |-> FALSE, bodyNotAllowed |-> FALSE,
    ignoreBody |-> FALSE, errorCondition |-> "none", conn |-> FALSE,
    header |-> FALSE, in |-> 0, result |-> "none", out |-> 0, outPos |-> 0,
    outFinished |-> FALSE, newlyReadOrEof |-> FALSE, newlyWritten |-> 0,
    pendingUpdate |-> FALSE, pauseRecv |-> FALSE, pauseSend |-> FALSE,
    aborted |-> FALSE, arrived |-> 0, written |-> 0, taken |-> 0,
    eof |-> FALSE ]

Abort(h) == [h EXCEPT !.aborted = TRUE]

\* Mutant: an empty buffer is taken for the end of the transfer.
IsFinishedWhenEmpty(h) == h.header /\ h.in = 0

IsFinished(h) == h.errorCondition # "none" \/ h.result # "none"

Lesser(a, b) == IF a <= b THEN a ELSE b

----------------------------------------------------------------------------
\* The callbacks of libcurl.

\* The end of a header block that is not a 100 or a followed redirect.
HeaderFunction(h) ==
  [h EXCEPT !.header = TRUE, !.newlyReadOrEof = TRUE, !.pendingUpdate = TRUE]

\* Data that does not fit is refused; curl keeps it until it is unpaused.
\* Mutant: the size of the buffer is not looked at.
WriteFunctionUnbounded(h, size) ==
  [h EXCEPT !.in = @ + size, !.arrived = @ + size,
            !.newlyReadOrEof = TRUE, !.pendingUpdate = TRUE]

WriteFunction(h, size) ==
  IF h.in + size > BufferSize
    THEN [h EXCEPT !.pauseRecv = TRUE]
    ELSE [h EXCEPT !.in = @ + size, !.arrived = @ + size,
                   !.newlyReadOrEof = TRUE, !.pendingUpdate = TRUE]

\* Body bytes curl has not taken yet.
Unread(h) == IF h.outPos = -1 THEN h.out ELSE h.out - h.outPos

\* While the body is short it is kept for a rewind and outPos moves; beyond
\* RequestBodyMax the part already taken is dropped for good.
\* Mutant: the part already taken stays.
SwitchWithoutDrop(h) ==
  IF h.outPos # -1 /\ h.out > RequestBodyMax THEN [h EXCEPT !.outPos = -1] ELSE h

SwitchToUnbuffered(h) ==
  IF h.outPos # -1 /\ h.out > RequestBodyMax
    THEN [h EXCEPT !.out = @ - h.outPos, !.outPos = -1]
    ELSE h

\* Mutant: the user is not going to be told.
TakeSilently(h, n) ==
  [h EXCEPT !.outPos = IF @ = -1 THEN -1 ELSE @ + n,
            !.out    = IF h.outPos = -1 THEN @ - n ELSE @,
            !.taken  = @ + n, !.newlyWritten = @ + n]

Take(h, n) ==
  [h EXCEPT !.outPos = IF @ = -1 THEN -1 ELSE @ + n,
            !.out    = IF h.outPos = -1 THEN @ - n ELSE @,
            !.taken  = @ + n,
            !.newlyWritten = @ + n, !.pendingUpdate = TRUE]

\* Mutant: the end of the buffer is taken for the end of the body.
ReadFunctionNeverPauses(h, size) ==
  LET b == SwitchToUnbuffered(h)
      n == Lesser(size, Unread(b))
  IN  IF n > 0 THEN Take(b, n) ELSE [b EXCEPT !.eof = TRUE]

ReadFunction(h, size) ==
  LET b == SwitchToUnbuffered(h)
      n == Lesser(size, Unread(b))
  IN  IF n > 0 THEN Take(b, n)
      ELSE IF b.outFinished THEN [b EXCEPT !.eof = TRUE]
      ELSE [b EXCEPT !.pauseSend = TRUE]

Done(h, result) ==
  [h EXCEPT !.result = result, !.newlyReadOrEof = TRUE, !.pendingUpdate = TRUE]

\* curl rewinds to the start of the body, to send it again; it gives up the
\* transfer when it cannot.
SeekFunction(h) ==
  IF h.outPos = -1 THEN Done(h, "err")
                   ELSE [h EXCEPT !.outPos = 0, !.taken = 0, !.eof = FALSE]

----------------------------------------------------------------------------
\* The functions of HttpRequest.

\* Starting the engine may make curl ask for the body or fail at once.
Kick(h) ==
  {h, Done(h, "err")} \cup
  (IF h.willWriteBody THEN {ReadFunction(h, 1)} ELSE {})

StartConnect(h) ==
  IF h.conn \/ (h.method = "head" /\ h.willWriteBody)
    THEN {Abort(h)}
    ELSE Kick([h EXCEPT !.conn = TRUE])

\* For some methods it is not decided before the first body data whether the
\* request has a body at all.  The worker has checked that there is a method and
\* an http or https uri (worker.cpp:216, 262), so the early error of start for
\* a request without them is left out.
\* Mutant: every request is connected at once.
StartAtOnce(method, willWriteBody) ==
  StartConnect([NewRequest EXCEPT !.method = method, !.willWriteBody = willWriteBody])

Start(method, willWriteBody) ==
  LET h == [NewRequest EXCEPT !.method = method, !.willWriteBody = willWriteBody]
  IN  IF willWriteBody /\ method = "get" THEN {h}
      ELSE IF willWriteBody /\ method = "head"
        THEN {[h EXCEPT !.bodyNotAllowed = TRUE]}
      ELSE StartConnect(h)

\* Mutant: sending stays paused.
WriteBodyStaysPaused(h, size) ==
  IF ~h.willWriteBody THEN {Abort(h)}
  ELSE IF size = 0 \/ h.ignoreBody THEN {h}
  ELSE IF h.bodyNotAllowed
    THEN {[h EXCEPT !.ignoreBody = TRUE, !.errorCondition = "body-not-allowed"]}
  ELSE {[g EXCEPT !.out = @ + size, !.written = @ + size] :
          g \in IF h.conn THEN {h} ELSE StartConnect(h)}

WriteBody(h, size) ==
  IF ~h.willWriteBody THEN {Abort(h)}
  ELSE IF size = 0 \/ h.ignoreBody THEN {h}
  ELSE IF h.bodyNotAllowed
    THEN {[h EXCEPT !.ignoreBody = TRUE, !.errorCondition = "body-not-allowed"]}
  ELSE {[g EXCEPT !.out = @ + size, !.written = @ + size, !.pauseSend = FALSE] :
          g \in IF h.conn THEN {h} ELSE StartConnect(h)}

\* Mutant: sending stays paused.
EndBodyStaysPaused(h) ==
  IF ~h.willWriteBody THEN {Abort(h)}
  ELSE IF h.ignoreBody THEN {h}
  ELSE {[g EXCEPT !.outFinished = TRUE] :
          g \in IF h.conn THEN {h}
                ELSE StartConnect([h EXCEPT !.willWriteBody = FALSE])}

EndBody(h) ==
  IF ~h.willWriteBody THEN {Abort(h)}
  ELSE IF h.ignoreBody THEN {h}
  ELSE {[g EXCEPT !.outFinished = TRUE, !.pauseSend = FALSE] :
          g \in IF h.conn THEN {h}
                ELSE StartConnect([h EXCEPT !.willWriteBody = FALSE])}

\* The number of bytes a read returns; size -1 asks for everything.
Readable(h, size) == IF size = -1 THEN h.in ELSE Lesser(size, h.in)

\* curl_easy_pause hands over the data curl kept, or some of it, at once or
\* later.
Unpaused(h) ==
  {h} \cup (IF h.result = "none"
              THEN {WriteFunction(h, n) : n \in {k \in Chunk : h.arrived + k <= MaxBody}}
              ELSE {})

\* Mutant: receiving stays paused.
ReadResponseStaysPaused(h, size) ==
  IF ~h.conn \/ Readable(h, size) = 0 THEN {h}
  ELSE {[h EXCEPT !.in = @ - Readable(h, size)]}

ReadResponseBody(h, size) ==
  IF ~h.conn \/ Readable(h, size) = 0 THEN {h}
  ELSE LET g == [h EXCEPT !.in = @ - Readable(h, size), !.pauseRecv = FALSE]
       IN  IF h.pauseRecv THEN Unpaused(g) ELSE {g}

\* conn_updated, which the queued doUpdate calls: a failed transfer makes the
\* request emit error; otherwise readyRead and bytesWritten are emitted for
\* what happened since the last time.
\* Mutant: bytes are reported again and again.
UpdatedKeepsCount(h) ==
  IF h.result = "err"
    THEN [h EXCEPT !.pendingUpdate = FALSE, !.errorCondition = "transfer"]
    ELSE [h EXCEPT !.pendingUpdate = FALSE, !.newlyReadOrEof = FALSE]

Updated(h) ==
  IF h.result = "err"
    THEN [h EXCEPT !.pendingUpdate = FALSE, !.errorCondition = "transfer"]
    ELSE [h EXCEPT !.pendingUpdate = FALSE, !.newlyReadOrEof = FALSE,
                   !.newlyWritten = 0]
=============================================================================
