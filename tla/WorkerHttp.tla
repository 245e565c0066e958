----------------------------- MODULE WorkerHttp -----------------------------
(***************************************************************************)
(* One session over the HTTP transport (class Worker::Private,             *)
(* src/src/worker.cpp) together with its HttpRequest.                      *)
(*                                                                         *)
(* The worker is a record w that holds its HttpRequest.  Three parties     *)
(* drive it: the client (through the dispatcher: Start and Write), libcurl *)
(* (through HttpTransfer) and the event loop, which runs the queued calls  *)
(* and the timers in any order that is possible.  A function that calls    *)
(* into curl has a set of results, as in HttpTransfer.                     *)
(***************************************************************************)
EXTENDS HttpTransfer, Sequences

CONSTANTS
  ZRequest,           \* the requests a client may start the session with
  Pieces,             \* bound: sizes of a body piece in a follow-up
  Credits(_),         \* bound: credits in a follow-up to a request
  SessionBufferSize,  \* config.sessionBufferSize
  MaxWrites,          \* bound: follow-ups of the client
  MaxKeepAlives,      \* bound: firings of the keep-alive timer
  MaxRewinds,         \* bound: how often curl rewinds the request body
  Timeouts,           \* the timers that may fire
  None                \* a null pointer

\* A request as far as the session depends on it.  address tells whether it
\* has an id and a return address; valid is the outcome of the checks on uri,
\* scheme, method and policy; seq is -1 when it has no number.
ZRequestType ==
  [ mode : {"stream", "single"}, address : {"both", "id", "none"},
    valid : {"ok", "bad-uri", "refused"}, seq : Int, stream : BOOLEAN,
    method : Methods, body : Nat, more : BOOLEAN, credits : Nat \cup {-1},
    maxSize : Nat \cup {-1}, timeout : BOOLEAN ]

ASSUME RequestAssumption == ZRequest \subseteq ZRequestType
ASSUME ClientAssumption == /\ Pieces \subseteq Nat
                           /\ \A req \in ZRequest : Credits(req) \subseteq Nat \cup {-1}
                           /\ SessionBufferSize \in Nat
ASSUME BoundAssumption == MaxWrites \in Nat /\ MaxKeepAlives \in Nat /\ MaxRewinds \in Nat
ASSUME NoneAssumption == None \notin Request

VARIABLES
  w,           \* the worker
  writes,      \* follow-ups sent
  keepAlives,  \* keep-alive timer firings
  rewinds      \* rewinds of the request body

vars == <<w, writes, keepAlives, rewinds>>

Deferred == {"Finished", "Cancel", "Error"}

Message == [type : {"data"}, size : Nat, more : BOOLEAN, header : BOOLEAN]
             \cup [type : {"error", "cancel", "credit", "keep-alive"}, size : Nat]

Worker ==
  [ req : ZRequest, state : {"NotStarted", "Started", "Stopped"} \cup Deferred,
    hreq : Request \cup {None}, quiet : BOOLEAN, inSeq : Int, outSeq : Nat,
    outCredits : Nat, sentHeader : BOOLEAN, bodySent : BOOLEAN,
    stuffToRead : BOOLEAN, inbuf : Nat, bytesReceived : Nat,
    timers : SUBSET {"activity", "session", "expire", "keepAlive"},
    updateTimer : BOOLEAN,
    \* histories: what the latest step said, messages said so far, those with
    \* response data among them, body bytes passed on and received, credits
    \* given by and to the client, body bytes of follow-ups, the result of the
    \* transfer, how the session ended
    out : Seq(Message), said : Nat, parts : Nat, delivered : Nat,
    arrived : Nat, granted : Nat, credited : Nat, uploaded : Nat,
    outcome : {"none", "ok", "err"},
    ending : {"no", "final", "error", "cancel", "silent"} ]

NewWorker(req) ==
  [ req |-> req, state |-> "NotStarted", hreq |-> None, quiet |-> FALSE,
    inSeq |-> req.seq, outSeq |-> 0, outCredits |-> 0, sentHeader |-> FALSE,
    bodySent |-> FALSE, stuffToRead |-> FALSE, inbuf |-> 0,
    bytesReceived |-> 0, timers |-> {}, updateTimer |-> FALSE,
    out |-> <<>>, said |-> 0, parts |-> 0, delivered |-> 0, arrived |-> 0,
    granted |-> 0, credited |-> 0, uploaded |-> 0, outcome |-> "none",
    ending |-> "no" ]

Init == /\ \E req \in ZRequest : w = NewWorker(req)
        /\ writes = 0 /\ keepAlives = 0 /\ rewinds = 0

\* Only a request of the stream interface may ask for a streamed response.
OutStream(v) == v.req.mode = "stream" /\ v.req.stream

----------------------------------------------------------------------------
\* The functions that end a session or speak to the client.

Cleanup(v) ==
  [v EXCEPT !.updateTimer = FALSE, !.hreq = None, !.timers = {},
            !.state = "Stopped",
            !.arrived = IF v.hreq = None THEN @ ELSE v.hreq.arrived,
            !.outcome = IF v.hreq = None THEN @ ELSE v.hreq.result]

Finish(v, how) == [Cleanup(v) EXCEPT !.ending = how]

Defer(v, state) == [Cleanup(v) EXCEPT !.state = state, !.updateTimer = TRUE]

Update(v) == [v EXCEPT !.updateTimer = TRUE]

\* Messages of a request with an id are numbered, even when nobody listens.
WriteResponse(v, message) ==
  [v EXCEPT !.outSeq = IF v.req.address = "none" THEN @ ELSE @ + 1,
            !.said = @ + 1,
            !.parts = IF message.type = "data" THEN @ + 1 ELSE @,
            !.out = IF v.quiet THEN @ ELSE Append(@, message)]

Data(size, more, header) ==
  [type |-> "data", size |-> size, more |-> more, header |-> header]
Plain(type, size) == [type |-> type, size |-> size]

RespondError(v) == Finish(WriteResponse(v, Plain("error", 0)), "error")
RespondCancel(v) == Finish(WriteResponse(v, Plain("cancel", 0)), "cancel")

\* Mutant: the limit is checked before the piece is counted.
TooLargeLate(v, size) ==
  size > 0 /\ v.req.maxSize # -1 /\ v.bytesReceived > v.req.maxSize

TooLarge(v, size) ==
  size > 0 /\ v.req.maxSize # -1 /\ v.bytesReceived + size > v.req.maxSize

----------------------------------------------------------------------------
\* Worker::start.

Rejected(req) == \/ req.valid # "ok"
                 \/ req.mode = "stream" /\ req.more /\ req.seq # 0
                 \/ req.mode = "single" /\ req.more

StartRequest(req) ==
  LET mightHaveBody == req.body > 0 \/ req.more
  IN  UNION {IF req.more \/ ~mightHaveBody THEN {g} ELSE EndBody(g) :
        g \in UNION {IF req.body > 0 THEN WriteBody(h, req.body) ELSE {h} :
                       h \in Start(req.method, mightHaveBody)}}

\* Mutant: keep-alives on both interfaces.
StartTimersAlways(req) ==
  {"activity", "expire", "keepAlive"} \cup (IF req.timeout THEN {"session"} ELSE {})

StartTimers(req) ==
  {"activity"} \cup (IF req.timeout THEN {"session"} ELSE {})
    \cup (IF req.mode = "stream" THEN {"expire", "keepAlive"} ELSE {})

WorkerStart(v, req) ==
  LET s == [v EXCEPT !.state = "Started",
                     !.quiet = /\ req.valid # "bad-uri" /\ req.mode = "stream"
                               /\ req.address # "both"]
      credits == IF req.credits # -1 THEN req.credits ELSE 0
      started(h) == [s EXCEPT !.hreq = h, !.bodySent = ~req.more,
                              !.timers = StartTimers(req),
                              !.outCredits = credits, !.granted = credits]
      window == IF req.more THEN SessionBufferSize ELSE 0
  IN  IF Rejected(req) THEN {Defer(s, "Error")}
      ELSE IF req.mode = "single" THEN {started(h) : h \in StartRequest(req)}
      ELSE {[WriteResponse(started(h),
                           Plain(IF req.more THEN "credit" ELSE "keep-alive", window))
               EXCEPT !.credited = window] : h \in StartRequest(req)}

----------------------------------------------------------------------------
\* Worker::write, a follow-up of the client.  type "other" stands for credit
\* and keep-alive messages; credits is -1 when the field is absent.

\* Mutant: the end of the body is not remembered.
WriteBodyPartForgets(v, size, more) ==
  UNION {IF more THEN {[v EXCEPT !.hreq = g]}
         ELSE {[v EXCEPT !.hreq = f] : f \in EndBody(g)} :
           g \in WriteBody(v.hreq, size)}

WriteBodyPart(v, size, more) ==
  UNION {IF more THEN {[v EXCEPT !.hreq = g]}
         ELSE {[v EXCEPT !.hreq = f, !.bodySent = TRUE] : f \in EndBody(g)} :
           g \in WriteBody(v.hreq, size)}

\* If credits were needed to send something, take care of that now.
\* Mutant: nobody does.
NoResume(v, credits) == v

Resume(v, credits) == IF credits # -1 /\ v.stuffToRead THEN Update(v) ELSE v

WorkerWrite(v, inSequence, type, size, more, credits) ==
  IF v.state # "Started" THEN {v}
  ELSE IF v.inSeq = -1 \/ ~inSequence
    THEN {Defer(v, IF type = "cancel" THEN "Finished" ELSE "Cancel")}
  ELSE IF type = "cancel" THEN {Defer(v, "Finished")}
  ELSE
    LET gained == IF credits # -1 THEN credits ELSE 0
        s == [v EXCEPT !.inSeq = @ + 1, !.outCredits = @ + gained,
                       !.granted = @ + gained]
    IN  IF type = "data" /\ v.bodySent THEN {Defer(s, "Error")}
        ELSE IF type = "data"
          THEN {Resume([x EXCEPT !.uploaded = @ + size], credits) :
                  x \in WriteBodyPart(s, size, more)}
        ELSE {Resume(s, credits)}

----------------------------------------------------------------------------
\* Worker::doUpdate, run by the update timer.

\* Quiet sessions are read without credits and are not charged.
\* Mutant: credits do not limit a read.
ReadLimitNone(v) == -1

ReadLimit(v) == IF v.quiet THEN -1 ELSE v.outCredits

\* Mutant: quiet sessions are charged.
ChargeAlways(v, size) == [v EXCEPT !.outCredits = @ - size]

Charge(v, size) == [v EXCEPT !.outCredits = IF v.quiet THEN @ ELSE @ - size]

\* The first data message carries the head of the response.
\* Mutant: every one does.
SayDataWithHead(v, size, more) ==
  WriteResponse([v EXCEPT !.delivered = @ + size], Data(size, more, TRUE))

SayData(v, size, more) ==
  WriteResponse([v EXCEPT !.sentHeader = TRUE, !.delivered = @ + size],
                Data(size, more, ~v.sentHeader))

\* A message with what the credits allow; the last one when nothing is left
\* and the request is finished.
StreamPart(v) ==
  LET size  == Readable(v.hreq, ReadLimit(v))
      part(h) ==
        LET more == h.in > 0 \/ ~IsFinished(h)
            s == SayData([Charge(v, size) EXCEPT !.hreq = h,
                                                 !.stuffToRead = (h.in > 0),
                                                 !.bytesReceived = @ + size],
                         size, more)
        IN  IF more THEN s ELSE Finish(s, "final")
  IN  {IF TooLarge(v, size) THEN RespondError([v EXCEPT !.hreq = h]) ELSE part(h) :
         h \in ReadResponseBody(v.hreq, ReadLimit(v))}

\* One message with all that was collected.
CollectedResponse(v) ==
  Finish(SayData([v EXCEPT !.inbuf = 0], v.inbuf, FALSE), "final")

WorkerDoUpdate(v) ==
  LET s == [v EXCEPT !.updateTimer = FALSE]
      r == [s EXCEPT !.stuffToRead = FALSE]
  IN  CASE v.state = "Started" /\ ~v.stuffToRead -> {s}
        [] v.state = "Started" /\ v.stuffToRead /\ OutStream(v) -> StreamPart(r)
        [] v.state = "Started" /\ v.stuffToRead /\ ~OutStream(v) -> {CollectedResponse(r)}
        [] v.state = "Finished" -> {Finish(s, "silent")}
        [] v.state = "Cancel" -> {RespondCancel(s)}
        [] v.state = "Error" -> {RespondError(s)}

----------------------------------------------------------------------------
\* The slots connected to the HttpRequest.

ReqReadyRead(v) ==
  LET s == [v EXCEPT !.stuffToRead = TRUE]
      size == Readable(v.hreq, -1)
      collected(h) == [s EXCEPT !.hreq = h, !.inbuf = @ + size,
                                !.bytesReceived = @ + size]
  IN  IF OutStream(v)
        THEN {IF ~v.quiet /\ v.outCredits < 1 THEN s ELSE Update(s)}
        ELSE {IF TooLarge(v, size) THEN RespondError([s EXCEPT !.hreq = h])
              ELSE IF IsFinished(h) THEN Update(collected(h)) ELSE collected(h) :
                h \in ReadResponseBody(v.hreq, -1)}

ReqBytesWritten(v, size) ==
  IF v.bodySent THEN v
  ELSE [WriteResponse(v, Plain("credit", size)) EXCEPT !.credited = @ + size]

\* conn_updated with the slots it runs, in their order; a slot may end the
\* session, which deletes the request.
WorkerConnUpdated(v) ==
  LET s == [v EXCEPT !.hreq = Updated(@)]
  IN  IF v.hreq.result = "err" THEN {RespondError(s)}
      ELSE {IF v.hreq.newlyWritten > 0 /\ x.ending = "no"
              THEN ReqBytesWritten(x, v.hreq.newlyWritten) ELSE x :
              x \in IF v.hreq.newlyReadOrEof THEN ReqReadyRead(s) ELSE {s}}

----------------------------------------------------------------------------
\* The actions.  out holds what the latest step said.

Quiesced == [w EXCEPT !.out = <<>>]
Bounds == <<writes, keepAlives, rewinds>>

ClientStart ==
  /\ w.state = "NotStarted"
  /\ w' \in WorkerStart(w, w.req)
  /\ UNCHANGED Bounds

\* Follow-ups reach a worker of the stream interface that has an id.  The
\* client sends no more body than it was given credits for.
Reachable == /\ w.state # "NotStarted" /\ w.ending = "no"
             /\ w.req.mode = "stream" /\ w.req.address # "none"

ClientWrite(inSequence, type, size, more, credits) ==
  /\ Reachable /\ writes < MaxWrites
  /\ type = "data" => w.uploaded + size <= w.credited
  /\ w' \in WorkerWrite(Quiesced, inSequence, type, size, more, credits)
  /\ writes' = writes + 1
  /\ UNCHANGED <<keepAlives, rewinds>>

DoUpdate ==
  /\ w.updateTimer
  /\ w' \in WorkerDoUpdate(Quiesced)
  /\ UNCHANGED Bounds

ConnUpdated ==
  /\ w.hreq # None /\ w.hreq.pendingUpdate
  /\ w' \in WorkerConnUpdated(Quiesced)
  /\ UNCHANGED Bounds

\* The queued error of a HEAD request whose body was written after all.
QueuedError ==
  /\ w.hreq # None /\ w.hreq.errorCondition = "body-not-allowed"
  /\ w' = RespondError(Quiesced)
  /\ UNCHANGED Bounds

ExpireTimeout ==
  /\ "expire" \in w.timers \cap Timeouts
  /\ w' = Finish(Quiesced, "silent")
  /\ UNCHANGED Bounds

\* The activity timer and the timer of the request's own timeout.
SessionTimeout ==
  /\ {"activity", "session"} \cap w.timers \cap Timeouts # {}
  /\ w' = RespondError(Quiesced)
  /\ UNCHANGED Bounds

KeepAliveTimeout ==
  /\ "keepAlive" \in w.timers \cap Timeouts /\ keepAlives < MaxKeepAlives
  /\ w' = WriteResponse(Quiesced, Plain("keep-alive", 0))
  /\ keepAlives' = keepAlives + 1
  /\ UNCHANGED <<writes, rewinds>>

\* libcurl, as in HttpRequest.
Active == w.hreq # None /\ w.hreq.conn /\ w.hreq.result = "none"

Curl(h) == w' = [Quiesced EXCEPT !.hreq = h] /\ UNCHANGED <<writes, keepAlives>>

CurlHeader == /\ Active /\ ~w.hreq.header
              /\ Curl(HeaderFunction(w.hreq)) /\ UNCHANGED rewinds

CurlWrite(size) == /\ Active /\ w.hreq.header /\ ~w.hreq.pauseRecv
                   /\ w.hreq.arrived + size <= MaxBody
                   /\ Curl(WriteFunction(w.hreq, size)) /\ UNCHANGED rewinds

CurlRead(size) == /\ Active /\ w.hreq.willWriteBody
                  /\ ~w.hreq.pauseSend /\ ~w.hreq.eof
                  /\ Curl(ReadFunction(w.hreq, size)) /\ UNCHANGED rewinds

\* As in HttpRequest, not while sending is paused.
CurlSeek == /\ Active /\ w.hreq.willWriteBody
            /\ ~w.hreq.pauseSend /\ ~w.hreq.header
            /\ rewinds < MaxRewinds /\ rewinds' = rewinds + 1
            /\ Curl(SeekFunction(w.hreq))

CurlDone(result) == /\ Active
                    /\ result = "ok" => w.hreq.header /\ ~w.hreq.pauseRecv
                    /\ Curl(Done(w.hreq, result)) /\ UNCHANGED rewinds

ClientNext ==
  \/ ClientStart
  \/ \E inSequence, more \in BOOLEAN, type \in {"data", "cancel", "other"},
        size \in Pieces, credits \in Credits(w.req) :
       ClientWrite(inSequence, type, size, more, credits)

LoopNext == DoUpdate \/ ConnUpdated \/ QueuedError

TimerNext == ExpireTimeout \/ SessionTimeout \/ KeepAliveTimeout

CurlNext == \/ CurlHeader \/ CurlSeek
            \/ \E size \in Chunk : CurlWrite(size) \/ CurlRead(size)
            \/ \E result \in {"ok", "err"} : CurlDone(result)

Next == ClientNext \/ LoopNext \/ TimerNext \/ CurlNext

Spec == Init /\ [][Next]_vars

\* The example client returns as many credits as it received bytes.
ClientReturnsCredits ==
  LET owed == w.delivered + w.req.credits - w.granted
  IN  owed > 0 /\ ClientWrite(TRUE, "other", 0, FALSE, owed)

\* A client that keeps returning credits, an event loop that runs what is
\* queued and the timers that are due.  curl need not make progress.
LiveSpec == /\ Init
            /\ [][ClientStart \/ ClientReturnsCredits \/ LoopNext \/ CurlNext]_vars
            /\ WF_vars(ClientReturnsCredits)
            /\ WF_vars(DoUpdate)
            /\ WF_vars(ConnUpdated)

----------------------------------------------------------------------------
TypeOK == /\ w \in Worker
          /\ writes \in 0..MaxWrites /\ keepAlives \in 0..MaxKeepAlives
          /\ rewinds \in 0..MaxRewinds

Arrived == IF w.hreq = None THEN w.arrived ELSE w.hreq.arrived

\* Body bytes the client is ready to take; without a way to give credits, or
\* without asking for a stream, all that arrive.
Allowed == IF OutStream(w) /\ ~w.quiet /\ w.state # "NotStarted"
             THEN w.granted ELSE Arrived

S == INSTANCE Session WITH seq <- w.said, arrived <- Arrived,
                           allowed <- Allowed, delivered <- w.delivered,
                           ending <- w.ending

\* The worker keeps what Session promises: messages one at a time, never more
\* of the body than has arrived or than the client gave credits for, a last
\* message only after all of the body, one ending and nothing after it.
ImplementsSession == S!Spec

Started == w.state = "Started" /\ w.hreq # None

\* What the client may be told now is not forgotten: the update timer runs or
\* the call that starts it is queued.  Data that arrived and may be sent, the
\* end of a transfer, and a failed transfer all have a wake-up on its way.
NoLostWakeup ==
  Started =>
    LET maySend == w.quiet \/ w.outCredits > 0
        news    == \/ w.hreq.result = "err"
                   \/ OutStream(w) /\ maySend
                        /\ (w.hreq.in > 0 \/ w.hreq.result = "ok")
                   \/ ~OutStream(w) /\ w.hreq.result = "ok"
    IN  news => w.updateTimer \/ w.hreq.pendingUpdate

\* No more of the response body is kept or passed on than the request allows.
MaxSizeKept ==
  w.req.maxSize # -1 => w.delivered + w.inbuf <= w.req.maxSize

\* The head of the response is said in the first data message and in no other,
\* and it is known by then.
HeaderOnce ==
  [][\A i \in 1..Len(w'.out) :
       w'.out[i].type = "data" =>
         /\ w'.out[i].header <=> w.parts = 0
         /\ w.hreq # None /\ w.hreq.header]_vars

\* The client of a session that does not stream, and the client of the REQ
\* interface, is told the body in one message or not at all; a client of the
\* REQ interface gets exactly one message, since its socket takes only one.
OneReply ==
  /\ w.req.mode = "single" => w.said <= 1 /\ (w.ending # "no" => w.said = 1)
  /\ ~OutStream(w) => w.parts <= (IF w.ending = "no" THEN 0 ELSE 1)

\* A final message means that the transfer succeeded and that all of the body
\* was passed on.
FinalMeansComplete ==
  w.ending = "final" => w.outcome = "ok" /\ w.delivered = w.arrived

\* A response that is collected is said in full.  (A streamed one that breaks
\* off may not be: FinalMeansComplete fails for it.)
CollectedMeansComplete == ~OutStream(w) => FinalMeansComplete

\* The request body that waits for curl fits into the buffer the client was
\* promised, besides the part that came with the request itself.  Each time
\* curl rewinds the body it reports bytes written once more, and the client is
\* credited for them again; only a short body can be rewound.
UploadWindow ==
  Started => Unread(w.hreq) <= w.req.body + SessionBufferSize
                                 + rewinds * RequestBodyMax

\* A worker never trips an assert of its HttpRequest, whatever the client
\* sends and in whatever order.
RequestUsedProperly == Started => ~w.hreq.aborted

\* A transfer that is over is reported, although each part of it waits for
\* credits; so is a session that was refused.
OutcomeReported ==
  (w.state \in Deferred \/ (Started /\ w.hreq.result # "none")) ~> w.ending # "no"
=============================================================================
