-------------------------- MODULE WorkerHttpProofs --------------------------
(***************************************************************************)
(* Proofs about WorkerHttp: what a session over the HTTP transport keeps,  *)
(* for every request, buffer size and number of follow-ups, and that it    *)
(* implements Session.                                                     *)
(*                                                                         *)
(* The invariant WorkerInv is one of the worker record and the number of   *)
(* rewinds, so that each function of WorkerHttp has a lemma of its own.    *)
(* Such a lemma says that the function keeps the invariant, that the step  *)
(* is one of Session (Promised) and that it says the head of the response  *)
(* once (Headed); the next-state relation is then a list of citations.     *)
(***************************************************************************)
EXTENDS WorkerHttp, HttpTransferProofs

\* A client that did not ask for a stream gives no credits.  One that does may
\* be given a final message before the response is complete.
CreditsOnlyForStreams ==
  \A req \in ZRequest : ~req.stream => Credits(req) \subseteq {-1}

\* What curl may have to repeat to the client after r rewinds.
Repeated(r) == r * RequestBodyMax

----------------------------------------------------------------------------
\* What holds from start to end: the body is counted and limited, the client
\* stays within its credits, and what has been said so far.
Kept(v) ==
  /\ v.bytesReceived = v.delivered + v.inbuf
  /\ v.req.maxSize # -1 => v.bytesReceived <= v.req.maxSize
  /\ v.uploaded <= v.credited
  /\ v.req.mode = "single" => v.said = (IF v.ending = "no" THEN 0 ELSE 1)
  /\ ~OutStream(v) => v.parts <= (IF v.ending = "no" THEN 0 ELSE 1)
  /\ CreditsOnlyForStreams /\ ~OutStream(v) /\ v.ending = "final" =>
       v.outcome = "ok" /\ v.delivered = v.arrived

\* The counters of a session and of its request.
Counted(v, r) ==
  /\ v.bytesReceived + v.hreq.in = v.hreq.arrived
  /\ OutStream(v) => v.inbuf = 0
  /\ OutStream(v) /\ ~v.quiet => v.delivered + v.outCredits = v.granted
  /\ v.hreq.written <= v.req.body + v.uploaded
  /\ v.credited + v.hreq.newlyWritten
       <= SessionBufferSize + v.hreq.taken + Repeated(r)

\* What is known is going to be said.
Signalled(v) ==
  /\ v.sentHeader <=> v.parts > 0
  /\ v.stuffToRead => v.hreq.header
  /\ OutStream(v) =>
       /\ v.hreq.in > 0 \/ v.hreq.result = "ok" =>
            v.stuffToRead \/ v.hreq.newlyReadOrEof
       /\ v.stuffToRead /\ (v.quiet \/ v.outCredits > 0) =>
            v.updateTimer \/ v.hreq.newlyReadOrEof
  /\ ~OutStream(v) =>
       /\ v.hreq.result = "ok" =>
            v.hreq.newlyReadOrEof \/ (v.updateTimer /\ v.stuffToRead)
       /\ CreditsOnlyForStreams /\ v.updateTimer =>
            v.hreq.result = "ok" /\ v.hreq.in = 0 /\ v.stuffToRead

\* A session that has a request.
Running(v, r) ==
  /\ Good(v.hreq) /\ Wired(v.hreq)
  /\ ~v.bodySent => Open(v.hreq)
  /\ v.req.mode = "single" =>
       v.bodySent /\ v.timers \subseteq {"activity", "session"}
  /\ Counted(v, r)
  /\ Signalled(v)

\* What each state of a session means.
Shape(v) ==
  /\ v.state = "NotStarted" => v = NewWorker(v.req)
  /\ v.state # "Started" => v.hreq = None /\ v.timers = {}
  /\ v.state \in Deferred => v.updateTimer
  /\ v.state \in {"NotStarted", "Stopped"} => ~v.updateTimer
  /\ v.state = "Finished" => v.req.mode = "stream"
  /\ v.state = "Stopped" <=> v.ending # "no"

WorkerInv(v, r) ==
  /\ v \in Worker
  /\ Kept(v)
  /\ Shape(v)
  /\ v.state = "Started" => Running(v, r)

----------------------------------------------------------------------------
\* Arrived and Allowed of a worker v, and a step of Session from v to u.
ArrivedOf(v) == IF v.hreq = None THEN v.arrived ELSE v.hreq.arrived

AllowedOf(v) == IF OutStream(v) /\ ~v.quiet /\ v.state # "NotStarted"
                  THEN v.granted ELSE ArrivedOf(v)

Promised(v, u) ==
  /\ v.ending = "no"
  /\ ArrivedOf(u) >= ArrivedOf(v) /\ AllowedOf(u) >= AllowedOf(v)
  /\ \/ /\ u.said = v.said /\ u.delivered = v.delivered
        /\ u.ending \in {"no", "silent"}
     \/ /\ u.said = v.said + 1 /\ u.delivered = v.delivered
        /\ u.ending \in {"no", "error", "cancel"}
     \/ /\ u.said = v.said + 1 /\ u.delivered >= v.delivered
        /\ u.delivered <= ArrivedOf(u) /\ u.delivered <= AllowedOf(u)
        /\ \/ u.ending = "no"
           \/ /\ u.ending = "final"
              /\ OutStream(v) \/ CreditsOnlyForStreams => u.delivered = ArrivedOf(u)

\* The head of the response is said with the first data and no other.
Headed(v, u) ==
  \A i \in 1..Len(u.out) :
    u.out[i].type = "data" =>
      /\ u.out[i].header <=> v.parts = 0
      /\ v.hreq # None /\ v.hreq.header

\* What every function owes, from a worker that has said nothing yet.
Owes(v, u, r) == WorkerInv(u, r) /\ Promised(v, u) /\ Headed(v, u)

----------------------------------------------------------------------------
\* Lemmas about the record of a worker.

\* The fields a message does not change.
Unsaid(u, v) ==
  /\ u.req = v.req /\ u.state = v.state /\ u.hreq = v.hreq /\ u.quiet = v.quiet
  /\ u.outCredits = v.outCredits /\ u.sentHeader = v.sentHeader
  /\ u.bodySent = v.bodySent /\ u.stuffToRead = v.stuffToRead
  /\ u.inbuf = v.inbuf /\ u.bytesReceived = v.bytesReceived
  /\ u.timers = v.timers /\ u.updateTimer = v.updateTimer
  /\ u.delivered = v.delivered /\ u.arrived = v.arrived
  /\ u.granted = v.granted /\ u.credited = v.credited
  /\ u.uploaded = v.uploaded /\ u.outcome = v.outcome /\ u.ending = v.ending

\* The latest step said nothing about the response.
NoData(u) == \A i \in 1..Len(u.out) : u.out[i].type # "data"

LEMMA WriteResponseFields ==
  ASSUME NEW v \in Worker, NEW m \in Message
  PROVE  LET u == WriteResponse(v, m)
         IN  /\ u \in Worker /\ Unsaid(u, v)
             /\ u.said = v.said + 1
             /\ u.parts = IF m.type = "data" THEN v.parts + 1 ELSE v.parts
             /\ u.out \in {v.out, Append(v.out, m)}
<1> DEFINE u == WriteResponse(v, m)
<1>1. /\ v.said \in Nat /\ v.parts \in Nat /\ v.outSeq \in Nat
      /\ v.out \in Seq(Message)
  BY DEF Worker
<1>2. /\ v.said + 1 \in Nat /\ v.parts + 1 \in Nat /\ v.outSeq + 1 \in Nat
      /\ Append(v.out, m) \in Seq(Message)
  BY <1>1
<1>3. u \in Worker
  BY ZenonT(60), <1>1, <1>2 DEF Worker, WriteResponse
<1>4. Unsaid(u, v)
  BY DEF Worker, WriteResponse, Unsaid
<1>5. /\ u.said = v.said + 1
      /\ u.parts = IF m.type = "data" THEN v.parts + 1 ELSE v.parts
      /\ u.out \in {v.out, Append(v.out, m)}
  BY DEF Worker, WriteResponse
<1> QED BY <1>3, <1>4, <1>5

LEMMA CleanupFields ==
  ASSUME NEW v \in Worker
  PROVE  LET u == Cleanup(v)
         IN  /\ u \in Worker
             /\ u.state = "Stopped" /\ u.hreq = None /\ u.timers = {}
             /\ ~u.updateTimer /\ u.ending = v.ending
             /\ u.arrived = ArrivedOf(v)
             /\ u.outcome = IF v.hreq = None THEN v.outcome ELSE v.hreq.result
             /\ u.req = v.req /\ u.quiet = v.quiet /\ u.out = v.out
             /\ u.said = v.said /\ u.parts = v.parts
             /\ u.delivered = v.delivered /\ u.inbuf = v.inbuf
             /\ u.bytesReceived = v.bytesReceived /\ u.granted = v.granted
             /\ u.credited = v.credited /\ u.uploaded = v.uploaded
<1> DEFINE u == Cleanup(v)
<1>1. /\ v.hreq # None => v.hreq.arrived \in Nat
                          /\ v.hreq.result \in {"none", "ok", "err"}
      /\ v.arrived \in Nat /\ v.outcome \in {"none", "ok", "err"}
  BY DEF Worker, Request
<1>2. u \in Worker
  BY ZenonT(60), <1>1 DEF Worker, Cleanup
<1> QED BY <1>2 DEF Worker, Cleanup, ArrivedOf

LEMMA FinishFields ==
  ASSUME NEW v \in Worker, NEW how \in {"final", "error", "cancel", "silent"}
  PROVE  LET u == Finish(v, how)
         IN  /\ u \in Worker
             /\ u.state = "Stopped" /\ u.hreq = None /\ u.timers = {}
             /\ ~u.updateTimer /\ u.ending = how
             /\ u.arrived = ArrivedOf(v)
             /\ u.outcome = IF v.hreq = None THEN v.outcome ELSE v.hreq.result
             /\ u.req = v.req /\ u.quiet = v.quiet /\ u.out = v.out
             /\ u.said = v.said /\ u.parts = v.parts
             /\ u.delivered = v.delivered /\ u.inbuf = v.inbuf
             /\ u.bytesReceived = v.bytesReceived /\ u.granted = v.granted
             /\ u.credited = v.credited /\ u.uploaded = v.uploaded
<1> DEFINE c == Cleanup(v)
<1>1. /\ c \in Worker
      /\ c.state = "Stopped" /\ c.hreq = None /\ c.timers = {}
      /\ ~c.updateTimer
      /\ c.arrived = ArrivedOf(v)
      /\ c.outcome = IF v.hreq = None THEN v.outcome ELSE v.hreq.result
      /\ c.req = v.req /\ c.quiet = v.quiet /\ c.out = v.out
      /\ c.said = v.said /\ c.parts = v.parts
      /\ c.delivered = v.delivered /\ c.inbuf = v.inbuf
      /\ c.bytesReceived = v.bytesReceived /\ c.granted = v.granted
      /\ c.credited = v.credited /\ c.uploaded = v.uploaded
  BY CleanupFields
<1> HIDE DEF c
<1>2. Finish(v, how) = [c EXCEPT !.ending = how]
  BY DEF Finish, c
<1> DEFINE u == Finish(v, how)
<1>3. u \in Worker
  <2>1. c \in Worker
    BY <1>1
  <2>2. [c EXCEPT !.ending = how] \in Worker
    BY <2>1 DEF Worker
  <2> QED BY <1>2, <2>2
<1>4. /\ u.ending = how
      /\ u.state = c.state /\ u.hreq = c.hreq /\ u.timers = c.timers
      /\ u.updateTimer = c.updateTimer /\ u.arrived = c.arrived
      /\ u.outcome = c.outcome /\ u.req = c.req /\ u.quiet = c.quiet
      /\ u.out = c.out /\ u.said = c.said /\ u.parts = c.parts
      /\ u.delivered = c.delivered /\ u.inbuf = c.inbuf
      /\ u.bytesReceived = c.bytesReceived /\ u.granted = c.granted
      /\ u.credited = c.credited /\ u.uploaded = c.uploaded
  BY <1>1, <1>2 DEF Worker
<1> HIDE DEF u
<1>5. u.outcome = IF v.hreq = None THEN v.outcome ELSE v.hreq.result
  BY <1>1, <1>4, Zenon
<1> QED BY <1>1, <1>3, <1>4, <1>5 DEF u

LEMMA DeferFields ==
  ASSUME NEW v \in Worker, NEW state \in Deferred
  PROVE  LET u == Defer(v, state)
         IN  /\ u \in Worker
             /\ u.state = state /\ u.hreq = None /\ u.timers = {}
             /\ u.updateTimer /\ u.ending = v.ending
             /\ u.arrived = ArrivedOf(v)
             /\ u.req = v.req /\ u.quiet = v.quiet /\ u.out = v.out
             /\ u.said = v.said /\ u.parts = v.parts
             /\ u.delivered = v.delivered /\ u.inbuf = v.inbuf
             /\ u.bytesReceived = v.bytesReceived /\ u.granted = v.granted
             /\ u.credited = v.credited /\ u.uploaded = v.uploaded
<1> DEFINE c == Cleanup(v)
<1>1. /\ c \in Worker
      /\ c.hreq = None /\ c.timers = {} /\ c.ending = v.ending
      /\ c.arrived = ArrivedOf(v)
      /\ c.req = v.req /\ c.quiet = v.quiet /\ c.out = v.out
      /\ c.said = v.said /\ c.parts = v.parts
      /\ c.delivered = v.delivered /\ c.inbuf = v.inbuf
      /\ c.bytesReceived = v.bytesReceived /\ c.granted = v.granted
      /\ c.credited = v.credited /\ c.uploaded = v.uploaded
  BY CleanupFields
<1> HIDE DEF c
<1>2. Defer(v, state) = [c EXCEPT !.state = state, !.updateTimer = TRUE]
  BY DEF Defer, c
<1> DEFINE u == Defer(v, state)
<1>3. u \in Worker
  <2>1. c \in Worker
    BY <1>1
  <2> QED BY ZenonT(60), <2>1, <1>2 DEF Worker, Deferred
<1>4. /\ u.state = state /\ u.updateTimer
      /\ u.hreq = c.hreq /\ u.timers = c.timers /\ u.ending = c.ending
      /\ u.arrived = c.arrived /\ u.req = c.req /\ u.quiet = c.quiet
      /\ u.out = c.out /\ u.said = c.said /\ u.parts = c.parts
      /\ u.delivered = c.delivered /\ u.inbuf = c.inbuf
      /\ u.bytesReceived = c.bytesReceived /\ u.granted = c.granted
      /\ u.credited = c.credited /\ u.uploaded = c.uploaded
  BY <1>1, <1>2 DEF Worker
<1> HIDE DEF u
<1> QED BY <1>1, <1>3, <1>4 DEF u

\* Types that arithmetic needs.
LEMMA WorkerNats ==
  ASSUME NEW v \in Worker
  PROVE  /\ v.said \in Nat /\ v.parts \in Nat /\ v.delivered \in Nat
         /\ v.arrived \in Nat /\ v.granted \in Nat /\ v.credited \in Nat
         /\ v.uploaded \in Nat /\ v.inbuf \in Nat /\ v.bytesReceived \in Nat
         /\ v.outCredits \in Nat /\ v.req \in ZRequestType
         /\ v.req.body \in Nat /\ v.req.maxSize \in Nat \cup {-1}
         /\ ArrivedOf(v) \in Nat /\ AllowedOf(v) \in Nat
<1>1. v.req \in ZRequestType
  BY RequestAssumption DEF Worker
<1>2. v.req.body \in Nat /\ v.req.maxSize \in Nat \cup {-1}
  BY <1>1 DEF ZRequestType
<1>3. ArrivedOf(v) \in Nat
  BY DEF Worker, Request, ArrivedOf
<1>4. /\ v.said \in Nat /\ v.parts \in Nat /\ v.delivered \in Nat
      /\ v.arrived \in Nat /\ v.granted \in Nat /\ v.credited \in Nat
      /\ v.uploaded \in Nat /\ v.inbuf \in Nat /\ v.bytesReceived \in Nat
      /\ v.outCredits \in Nat
  BY DEF Worker
<1> QED BY <1>1, <1>2, <1>3, <1>4 DEF AllowedOf

----------------------------------------------------------------------------
\* Lemmas about the steps that end a session.

\* A worker that has said nothing since x but may have received more.
After(x, v) ==
  /\ v.said = x.said /\ v.delivered = x.delivered /\ x.ending = "no"
  /\ v.parts = x.parts
  /\ OutStream(v) <=> OutStream(x)
  /\ ArrivedOf(v) >= ArrivedOf(x) /\ AllowedOf(v) >= AllowedOf(x)

LEMMA PromisedAfter ==
  ASSUME NEW x \in Worker, NEW v \in Worker, NEW u \in Worker,
         After(x, v), Promised(v, u)
  PROVE  Promised(x, u)
<1>1. /\ ArrivedOf(x) \in Int /\ ArrivedOf(v) \in Int /\ ArrivedOf(u) \in Int
      /\ AllowedOf(x) \in Int /\ AllowedOf(v) \in Int /\ AllowedOf(u) \in Int
  BY WorkerNats
<1>2. ArrivedOf(u) >= ArrivedOf(v) /\ ArrivedOf(v) >= ArrivedOf(x)
      /\ AllowedOf(u) >= AllowedOf(v) /\ AllowedOf(v) >= AllowedOf(x)
  BY DEF After, Promised
<1>3. ArrivedOf(u) >= ArrivedOf(x) /\ AllowedOf(u) >= AllowedOf(x)
  BY <1>1, <1>2
<1> QED BY <1>3 DEF After, Promised

\* Ending a session with a message.
LEMMA RespondOwes ==
  ASSUME NEW r, NEW v \in Worker, Kept(v), v.ending = "no",
         v.state # "NotStarted", v.out = <<>>,
         NEW how \in {"error", "cancel"}
  PROVE  LET u == Finish(WriteResponse(v, Plain(how, 0)), how)
         IN  WorkerInv(u, r) /\ Promised(v, u) /\ NoData(u)
<1> DEFINE m == Plain(how, 0)
           y == WriteResponse(v, m)
           u == Finish(y, how)
<1>1. m \in Message /\ m.type # "data"
  BY DEF Plain, Message
<1>2. /\ y \in Worker /\ Unsaid(y, v) /\ y.said = v.said + 1
      /\ y.parts = v.parts /\ y.out \in {v.out, Append(v.out, m)}
  BY <1>1, WriteResponseFields
<1> HIDE DEF y
<1>3. /\ u \in Worker
      /\ u.state = "Stopped" /\ u.hreq = None /\ u.timers = {}
      /\ ~u.updateTimer /\ u.ending = how
      /\ u.arrived = ArrivedOf(y)
      /\ u.req = y.req /\ u.quiet = y.quiet /\ u.out = y.out
      /\ u.said = y.said /\ u.parts = y.parts
      /\ u.delivered = y.delivered /\ u.inbuf = y.inbuf
      /\ u.bytesReceived = y.bytesReceived /\ u.granted = y.granted
      /\ u.credited = y.credited /\ u.uploaded = y.uploaded
  BY <1>2, FinishFields
<1> HIDE DEF u
<1>4. NoData(u)
  <2>1. CASE u.out = <<>>
    BY <2>1 DEF NoData
  <2>2. CASE u.out = Append(<<>>, m)
    BY <1>1, <2>2 DEF NoData
  <2> QED BY <1>2, <1>3, <2>1, <2>2
<1>5. OutStream(u) <=> OutStream(v)
  BY <1>2, <1>3 DEF OutStream, Unsaid
<1>6. ArrivedOf(u) = ArrivedOf(v) /\ AllowedOf(u) = AllowedOf(v)
  BY <1>2, <1>3, <1>5 DEF ArrivedOf, AllowedOf, Unsaid
<1>7. Promised(v, u)
  <2>1. ArrivedOf(v) >= ArrivedOf(v) /\ AllowedOf(v) >= AllowedOf(v)
    BY WorkerNats
  <2> QED BY <1>2, <1>3, <1>6, <2>1 DEF Promised, Unsaid
<1>8. Kept(u)
  <2>1. v.said \in Nat /\ v.parts \in Nat
    BY WorkerNats
  <2>2. u.req.mode = "single" => u.said = 1
    BY <1>2, <1>3, <2>1 DEF Kept, Unsaid
  <2>3. ~OutStream(u) => u.parts <= 1
    BY <1>2, <1>3, <1>5, <2>1 DEF Kept, Unsaid
  <2> QED BY <1>2, <1>3, <2>2, <2>3 DEF Kept, Unsaid
<1>9. Shape(u)
  BY <1>3 DEF Shape, Deferred
<1> QED BY <1>3, <1>4, <1>7, <1>8, <1>9 DEF WorkerInv, u, y

\* Ending it without a word, on the stream interface.
LEMMA SilentOwes ==
  ASSUME NEW r, NEW v \in Worker, Kept(v), v.ending = "no",
         v.state # "NotStarted", v.out = <<>>, v.req.mode = "stream"
  PROVE  LET u == Finish(v, "silent")
         IN  WorkerInv(u, r) /\ Promised(v, u) /\ NoData(u)
<1> DEFINE u == Finish(v, "silent")
<1>3. /\ u \in Worker
      /\ u.state = "Stopped" /\ u.hreq = None /\ u.timers = {}
      /\ ~u.updateTimer /\ u.ending = "silent"
      /\ u.arrived = ArrivedOf(v)
      /\ u.req = v.req /\ u.quiet = v.quiet /\ u.out = v.out
      /\ u.said = v.said /\ u.parts = v.parts
      /\ u.delivered = v.delivered /\ u.inbuf = v.inbuf
      /\ u.bytesReceived = v.bytesReceived /\ u.granted = v.granted
      /\ u.credited = v.credited /\ u.uploaded = v.uploaded
  BY FinishFields
<1> HIDE DEF u
<1>4. NoData(u)
  BY <1>3 DEF NoData
<1>5. OutStream(u) <=> OutStream(v)
  BY <1>3 DEF OutStream
<1>6. ArrivedOf(u) = ArrivedOf(v) /\ AllowedOf(u) = AllowedOf(v)
  BY <1>3, <1>5 DEF ArrivedOf, AllowedOf
<1>7. Promised(v, u)
  <2>1. ArrivedOf(v) >= ArrivedOf(v) /\ AllowedOf(v) >= AllowedOf(v)
    BY WorkerNats
  <2> QED BY <1>3, <1>6, <2>1 DEF Promised
<1>8. Kept(u)
  <2>1. v.parts \in Nat
    BY WorkerNats
  <2>2. ~OutStream(u) => u.parts <= 1
    BY <1>3, <1>5, <2>1 DEF Kept
  <2> QED BY <1>3, <2>2 DEF Kept
<1>9. Shape(u)
  BY <1>3 DEF Shape, Deferred
<1> QED BY <1>3, <1>4, <1>7, <1>8, <1>9 DEF WorkerInv, u

\* What remains to be done is left to the update timer.
LEMMA DeferOwes ==
  ASSUME NEW r, NEW v \in Worker, Kept(v), v.ending = "no",
         v.state # "NotStarted", v.out = <<>>, NEW state \in Deferred,
         state = "Finished" => v.req.mode = "stream"
  PROVE  LET u == Defer(v, state)
         IN  WorkerInv(u, r) /\ Promised(v, u) /\ NoData(u)
<1> DEFINE u == Defer(v, state)
<1>3. /\ u \in Worker
      /\ u.state = state /\ u.hreq = None /\ u.timers = {}
      /\ u.updateTimer /\ u.ending = v.ending
      /\ u.arrived = ArrivedOf(v)
      /\ u.req = v.req /\ u.quiet = v.quiet /\ u.out = v.out
      /\ u.said = v.said /\ u.parts = v.parts
      /\ u.delivered = v.delivered /\ u.inbuf = v.inbuf
      /\ u.bytesReceived = v.bytesReceived /\ u.granted = v.granted
      /\ u.credited = v.credited /\ u.uploaded = v.uploaded
  BY DeferFields
<1> HIDE DEF u
<1>4. NoData(u)
  BY <1>3 DEF NoData
<1>5. OutStream(u) <=> OutStream(v)
  BY <1>3 DEF OutStream
<1>6. ArrivedOf(u) = ArrivedOf(v) /\ AllowedOf(u) = AllowedOf(v)
  BY <1>3, <1>5 DEF ArrivedOf, AllowedOf, Deferred
<1>7. Promised(v, u)
  <2>1. ArrivedOf(v) >= ArrivedOf(v) /\ AllowedOf(v) >= AllowedOf(v)
    BY WorkerNats
  <2> QED BY <1>3, <1>6, <2>1 DEF Promised
<1>8. Kept(u)
  BY <1>3, <1>5 DEF Kept
<1>9. Shape(u)
  BY <1>3 DEF Shape, Deferred
<1>10. u.state # "Started"
  BY <1>3 DEF Deferred
<1> QED BY <1>3, <1>4, <1>7, <1>8, <1>9, <1>10 DEF WorkerInv, u

----------------------------------------------------------------------------
\* Lemmas about a session that goes on.

LEMMA RepeatedNat ==
  ASSUME NEW r \in Nat
  PROVE  /\ Repeated(r) \in Nat
         /\ Repeated(r + 1) = Repeated(r) + RequestBodyMax
  BY SizeAssumption DEF Repeated

\* A session with a request that is about to take a step.
Ready(v, r) == WorkerInv(v, r) /\ v.state = "Started" /\ v.out = <<>>

LEMMA ReadyTypes ==
  ASSUME NEW v, NEW r, Ready(v, r)
  PROVE  /\ v.hreq \in Request /\ v.hreq # None /\ Sound(v.hreq)
         /\ v.hreq.in \in Nat /\ v.hreq.arrived \in Nat
         /\ v.hreq.written \in Nat /\ v.hreq.taken \in Nat
         /\ v.hreq.newlyWritten \in Nat
         /\ v.ending = "no" /\ ArrivedOf(v) = v.hreq.arrived
<1>1. v.hreq \in Request
  BY DEF Ready, WorkerInv, Running, Good
<1>2. v.hreq # None
  BY <1>1, NoneAssumption
<1> QED BY <1>1, <1>2, SizeAssumption
           DEF Ready, WorkerInv, Running, Shape, Sound, Request, ArrivedOf

\* Nothing was said, read or reported from v to u.  The request may have moved
\* on and the client may have given credits and body data.
Continues(v, u) ==
  /\ u.state = v.state /\ u.ending = v.ending /\ u.req = v.req
  /\ u.quiet = v.quiet /\ u.stuffToRead = v.stuffToRead
  /\ u.inbuf = v.inbuf /\ u.bytesReceived = v.bytesReceived
  /\ u.timers = v.timers /\ u.said = v.said /\ u.parts = v.parts
  /\ u.delivered = v.delivered /\ u.sentHeader = v.sentHeader
  /\ u.credited = v.credited /\ u.out = v.out
  /\ u.granted >= v.granted
  /\ u.granted + v.outCredits = v.granted + u.outCredits
  /\ u.uploaded <= u.credited
  /\ v.bodySent => u.bodySent
  /\ v.updateTimer => u.updateTimer
  /\ u.outCredits # v.outCredits /\ v.stuffToRead => u.updateTimer
  /\ CreditsOnlyForStreams /\ ~OutStream(v) /\ u.updateTimer => v.updateTimer

LEMMA ContinuesOwes ==
  ASSUME NEW r \in Nat, NEW q \in Nat, NEW v, NEW u \in Worker,
         Ready(v, r), Continues(v, u),
         Good(u.hreq), Wired(u.hreq), Onward(u.hreq, v.hreq),
         ~u.bodySent => Open(u.hreq),
         u.hreq.written + v.uploaded <= v.hreq.written + u.uploaded,
         v.hreq.taken + Repeated(r) + u.hreq.newlyWritten
           <= u.hreq.taken + Repeated(q) + v.hreq.newlyWritten
  PROVE  WorkerInv(u, q) /\ Promised(v, u) /\ NoData(u)
<1> DEFINE g == v.hreq
           f == u.hreq
<1>1. /\ v \in Worker /\ Kept(v) /\ Running(v, r) /\ g \in Request /\ g # None
      /\ v.ending = "no" /\ ArrivedOf(v) = g.arrived
  BY ReadyTypes DEF Ready, WorkerInv
<1>2. f \in Request /\ f # None
  BY NoneAssumption DEF Good
<1>3. /\ g.in \in Nat /\ g.arrived \in Nat /\ g.written \in Nat
      /\ g.taken \in Nat /\ g.newlyWritten \in Nat
      /\ f.in \in Nat /\ f.arrived \in Nat /\ f.written \in Nat
      /\ f.taken \in Nat /\ f.newlyWritten \in Nat
  BY <1>1, <1>2, SizeAssumption DEF Request
<1>4. /\ v.outCredits \in Nat /\ u.outCredits \in Nat
      /\ v.granted \in Nat /\ u.granted \in Nat
      /\ v.uploaded \in Nat /\ u.uploaded \in Nat
      /\ v.delivered \in Nat /\ v.bytesReceived \in Nat /\ v.credited \in Nat
      /\ v.req.body \in Nat /\ SessionBufferSize \in Nat
      /\ Repeated(r) \in Nat /\ Repeated(q) \in Nat
  BY <1>1, WorkerNats, RepeatedNat, ClientAssumption
<1>5. OutStream(u) <=> OutStream(v)
  BY DEF OutStream, Continues
<1>6. Counted(u, q)
  <2>1. u.bytesReceived + f.in = f.arrived
    <3>1. v.bytesReceived + g.in = g.arrived /\ f.arrived + g.in = g.arrived + f.in
      BY <1>1 DEF Running, Counted, Onward
    <3> QED BY <1>3, <1>4, <3>1 DEF Continues
  <2>2. OutStream(u) /\ ~u.quiet => u.delivered + u.outCredits = u.granted
    <3>1. OutStream(u) /\ ~u.quiet => v.delivered + v.outCredits = v.granted
      BY <1>1, <1>5 DEF Running, Counted, Continues
    <3>2. u.granted + v.outCredits = v.granted + u.outCredits
      BY DEF Continues
    <3>3. v.delivered + v.outCredits = v.granted =>
            v.delivered + u.outCredits = u.granted
      BY <1>4, <3>2
    <3> QED BY <3>1, <3>3 DEF Continues
  <2>3. f.written <= u.req.body + u.uploaded
    <3>1. g.written <= v.req.body + v.uploaded /\ u.req = v.req
      BY <1>1 DEF Running, Counted, Continues
    <3> QED BY <1>3, <1>4, <3>1
  <2>4. u.credited + f.newlyWritten <= SessionBufferSize + f.taken + Repeated(q)
    <3>1. /\ v.credited + g.newlyWritten
               <= SessionBufferSize + g.taken + Repeated(r)
          /\ u.credited = v.credited
      BY <1>1 DEF Running, Counted, Continues
    <3> QED BY <1>3, <1>4, <3>1
  <2>5. OutStream(u) => u.inbuf = 0
    BY <1>1, <1>5 DEF Running, Counted, Continues
  <2> QED BY <2>1, <2>2, <2>3, <2>4, <2>5 DEF Counted
<1>7. Signalled(u)
  <2>1. Signalled(v)
    BY <1>1 DEF Running
  <2>2. /\ u.sentHeader = v.sentHeader /\ u.parts = v.parts
        /\ u.stuffToRead = v.stuffToRead /\ u.quiet = v.quiet
        /\ v.updateTimer => u.updateTimer
        /\ u.outCredits # v.outCredits /\ v.stuffToRead => u.updateTimer
        /\ CreditsOnlyForStreams /\ ~OutStream(v) /\ u.updateTimer => v.updateTimer
    BY DEF Continues
  <2>3. (u.sentHeader <=> u.parts > 0) /\ (u.stuffToRead => f.header)
    BY <2>1, <2>2 DEF Signalled, Onward
  <2>4. OutStream(u) =>
          /\ f.in > 0 \/ f.result = "ok" => u.stuffToRead \/ f.newlyReadOrEof
          /\ u.stuffToRead /\ (u.quiet \/ u.outCredits > 0) =>
               u.updateTimer \/ f.newlyReadOrEof
    BY <1>5, <2>1, <2>2 DEF Signalled, Onward
  <2>5. ~OutStream(u) =>
          /\ f.result = "ok" => f.newlyReadOrEof \/ (u.updateTimer /\ u.stuffToRead)
          /\ CreditsOnlyForStreams /\ u.updateTimer =>
               f.result = "ok" /\ f.in = 0 /\ u.stuffToRead
    BY <1>5, <2>1, <2>2 DEF Signalled, Onward
  <2> QED BY <2>3, <2>4, <2>5 DEF Signalled
<1>8. Running(u, q)
  <2>1. u.req.mode = "single" =>
          u.bodySent /\ u.timers \subseteq {"activity", "session"}
    BY <1>1 DEF Running, Continues
  <2> QED BY <1>6, <1>7, <2>1 DEF Running
<1>9. Kept(u)
  BY <1>1, <1>5 DEF Kept, Continues
<1>10. Shape(u)
  BY <1>1 DEF Shape, Continues, Deferred, Ready
<1>11. NoData(u)
  BY DEF NoData, Continues, Ready
<1>12. Promised(v, u)
  <2>1. ArrivedOf(u) = f.arrived /\ f.arrived >= g.arrived
    BY <1>2 DEF ArrivedOf, Onward
  <2>2. AllowedOf(u) >= AllowedOf(v)
    BY <1>1, <1>5, <2>1 DEF AllowedOf, Continues, Ready
  <2> QED BY <1>1, <2>1, <2>2 DEF Promised, Continues
<1> QED BY <1>8, <1>9, <1>10, <1>11, <1>12 DEF WorkerInv

\* A callback of curl.
LEMMA CurlOwes ==
  ASSUME NEW r \in Nat, NEW q \in Nat, NEW v, Ready(v, r),
         NEW g, Good(g), Wired(g), Onward(g, v.hreq), Same(g, v.hreq),
         g.written = v.hreq.written,
         v.hreq.taken + Repeated(r) + g.newlyWritten
           <= g.taken + Repeated(q) + v.hreq.newlyWritten
  PROVE  LET u == [v EXCEPT !.hreq = g]
         IN  WorkerInv(u, q) /\ Promised(v, u) /\ NoData(u)
<1> DEFINE u == [v EXCEPT !.hreq = g]
<1>1. v \in Worker /\ g \in Request
  BY DEF Ready, WorkerInv, Good
<1>2. u \in Worker
  BY <1>1 DEF Worker
<1>3. u.hreq = g /\ u.bodySent = v.bodySent /\ u.uploaded = v.uploaded
  BY <1>1 DEF Worker
<1>4. Continues(v, u)
  <2>1. /\ u.state = v.state /\ u.ending = v.ending /\ u.req = v.req
        /\ u.quiet = v.quiet /\ u.stuffToRead = v.stuffToRead
        /\ u.inbuf = v.inbuf /\ u.bytesReceived = v.bytesReceived
        /\ u.timers = v.timers /\ u.said = v.said /\ u.parts = v.parts
        /\ u.delivered = v.delivered /\ u.sentHeader = v.sentHeader
        /\ u.credited = v.credited /\ u.out = v.out
        /\ u.granted = v.granted /\ u.outCredits = v.outCredits
        /\ u.updateTimer = v.updateTimer
    BY <1>1 DEF Worker
  <2>2. v.granted >= v.granted
    BY <1>1, WorkerNats
  <2>3. v.uploaded <= v.credited
    BY DEF Ready, WorkerInv, Kept
  <2> HIDE DEF u
  <2> QED BY <1>3, <2>1, <2>2, <2>3 DEF Continues
<1>5. ~u.bodySent => Open(g)
  BY <1>3 DEF Ready, WorkerInv, Running, Open, Same
<1>6. g.written + v.uploaded <= v.hreq.written + v.uploaded
  <2>1. g.written \in Nat /\ v.uploaded \in Nat
    BY <1>1, WorkerNats DEF Request
  <2> QED BY <2>1
<1> HIDE DEF u
<1>7. WorkerInv(u, q) /\ Promised(v, u) /\ NoData(u)
  BY <1>2, <1>3, <1>4, <1>5, <1>6, ContinuesOwes
<1> QED BY <1>7 DEF u

\* What was reported together leaves the sum as it was.
LEMMA ReportedSum ==
  ASSUME NEW r \in Nat, NEW f \in Request, NEW g \in Request, Reported(f, g)
  PROVE  g.taken + Repeated(r) + f.newlyWritten
           <= f.taken + Repeated(r) + g.newlyWritten
<1>1. /\ f.taken \in Nat /\ g.taken \in Nat
      /\ f.newlyWritten \in Nat /\ g.newlyWritten \in Nat
      /\ Repeated(r) \in Nat
  BY RepeatedNat DEF Request
<1> QED BY <1>1 DEF Reported

\* A follow-up of the client.
LEMMA WorkerWriteOwes ==
  ASSUME NEW r \in Nat, NEW v, WorkerInv(v, r), v.out = <<>>,
         v.ending = "no", v.state # "NotStarted", v.req.mode = "stream",
         NEW inSequence \in BOOLEAN, NEW type, NEW size \in Nat,
         NEW more \in BOOLEAN, NEW credits \in Nat \cup {-1},
         type = "data" => v.uploaded + size <= v.credited,
         CreditsOnlyForStreams /\ ~OutStream(v) => credits = -1
  PROVE  \A u \in WorkerWrite(v, inSequence, type, size, more, credits) :
           WorkerInv(u, r) /\ Promised(v, u) /\ NoData(u)
<1> DEFINE gained == IF credits # -1 THEN credits ELSE 0
           s == [v EXCEPT !.inSeq = @ + 1, !.outCredits = @ + gained,
                          !.granted = @ + gained]
<1>0. v \in Worker /\ Kept(v)
  BY DEF WorkerInv
<1>1. CASE v.state # "Started"
  <2>1. WorkerWrite(v, inSequence, type, size, more, credits) = {v}
    BY <1>1 DEF WorkerWrite
  <2>2. Promised(v, v)
    <3>1. ArrivedOf(v) >= ArrivedOf(v) /\ AllowedOf(v) >= AllowedOf(v)
      BY <1>0, WorkerNats
    <3> QED BY <3>1 DEF Promised
  <2> QED BY <2>1, <2>2 DEF NoData
<1>2. CASE v.state = "Started" /\ (v.inSeq = -1 \/ ~inSequence \/ type = "cancel")
  <2>1. WorkerWrite(v, inSequence, type, size, more, credits)
          \subseteq {Defer(v, "Finished"), Defer(v, "Cancel")}
    BY <1>2 DEF WorkerWrite
  <2> QED BY <1>0, <1>2, <2>1, DeferOwes DEF Deferred
<1>3. CASE v.state = "Started" /\ ~(v.inSeq = -1 \/ ~inSequence \/ type = "cancel")
  <2>a. Ready(v, r)
    BY <1>3 DEF Ready
  <2>1. gained \in Nat /\ v.granted \in Nat /\ v.outCredits \in Nat /\ v.inSeq \in Int
    BY <1>0 DEF Worker
  <2> HIDE DEF gained
  <2>2. s \in Worker
    <3>1. /\ v.inSeq + 1 \in Int /\ v.outCredits + gained \in Nat
          /\ v.granted + gained \in Nat
      BY <2>1
    <3> QED BY <1>0, <3>1 DEF Worker
  <2>3. /\ s.state = v.state /\ s.ending = v.ending /\ s.req = v.req
        /\ s.quiet = v.quiet /\ s.stuffToRead = v.stuffToRead
        /\ s.inbuf = v.inbuf /\ s.bytesReceived = v.bytesReceived
        /\ s.timers = v.timers /\ s.said = v.said /\ s.parts = v.parts
        /\ s.delivered = v.delivered /\ s.sentHeader = v.sentHeader
        /\ s.credited = v.credited /\ s.out = v.out
        /\ s.granted = v.granted + gained
        /\ s.outCredits = v.outCredits + gained
        /\ s.updateTimer = v.updateTimer /\ s.hreq = v.hreq
        /\ s.arrived = v.arrived /\ s.uploaded = v.uploaded
        /\ s.bodySent = v.bodySent
    BY <1>0 DEF Worker
  <2>4. /\ s.granted >= v.granted
        /\ s.granted + v.outCredits = v.granted + s.outCredits
        /\ s.outCredits # v.outCredits => credits # -1
    <3>1. credits = -1 => gained = 0
      BY DEF gained
    <3>2. s.granted >= v.granted
      BY <2>1, <2>3
    <3>3. s.granted + v.outCredits = v.granted + s.outCredits
      BY <2>1, <2>3
    <3>4. v.outCredits + 0 = v.outCredits
      BY <2>1
    <3> QED BY <2>3, <3>1, <3>2, <3>3, <3>4
  <2> HIDE DEF s
  <2>5. WorkerWrite(v, inSequence, type, size, more, credits) =
          IF type = "data" /\ v.bodySent THEN {Defer(s, "Error")}
          ELSE IF type = "data"
            THEN {Resume([x EXCEPT !.uploaded = @ + size], credits) :
                    x \in WriteBodyPart(s, size, more)}
          ELSE {Resume(s, credits)}
    BY <1>3, <2>3 DEF WorkerWrite, s, gained
  <2>6. After(v, s)
    <3>1. OutStream(s) <=> OutStream(v)
      BY <2>3 DEF OutStream
    <3>2. ArrivedOf(s) = ArrivedOf(v) /\ ArrivedOf(v) \in Nat
      BY <1>0, <2>3, WorkerNats DEF ArrivedOf
    <3>3. AllowedOf(s) >= AllowedOf(v)
      BY <2>3, <2>4, <3>1, <3>2 DEF AllowedOf
    <3> QED BY <2>3, <3>1, <3>2, <3>3 DEF After
  <2>7. CASE type = "data" /\ v.bodySent
    <3>1. Kept(s) /\ s.ending = "no" /\ s.state # "NotStarted" /\ s.out = <<>>
      <4>1. s.ending = "no" /\ s.state # "NotStarted" /\ s.out = <<>>
        BY <1>3, <2>3
      <4>2. Kept(s)
        BY <1>0, <2>3, <4>1 DEF Kept, OutStream
      <4> QED BY <4>1, <4>2
    <3>2. LET u == Defer(s, "Error")
          IN  WorkerInv(u, r) /\ Promised(s, u) /\ NoData(u)
      BY <2>2, <3>1, DeferOwes DEF Deferred
    <3> QED BY <1>0, <2>2, <2>5, <2>6, <2>7, <3>2, PromisedAfter DEF WorkerInv
  <2>8. ASSUME NEW x \in Worker, NEW u, u = Resume(x, credits),
               x.state = s.state, x.ending = s.ending, x.req = s.req,
               x.quiet = s.quiet, x.stuffToRead = s.stuffToRead,
               x.inbuf = s.inbuf, x.bytesReceived = s.bytesReceived,
               x.timers = s.timers, x.said = s.said, x.parts = s.parts,
               x.delivered = s.delivered, x.sentHeader = s.sentHeader,
               x.credited = s.credited, x.out = s.out, x.granted = s.granted,
               x.outCredits = s.outCredits, x.updateTimer = s.updateTimer,
               s.bodySent => x.bodySent, x.uploaded <= x.credited
        PROVE  /\ u \in Worker /\ Continues(v, u)
               /\ u.hreq = x.hreq /\ u.bodySent = x.bodySent
               /\ u.uploaded = x.uploaded
    <3>1. u \in Worker
      BY <2>8 DEF Resume, Update, Worker
    <3>2. /\ u.state = x.state /\ u.ending = x.ending /\ u.req = x.req
          /\ u.quiet = x.quiet /\ u.stuffToRead = x.stuffToRead
          /\ u.inbuf = x.inbuf /\ u.bytesReceived = x.bytesReceived
          /\ u.timers = x.timers /\ u.said = x.said /\ u.parts = x.parts
          /\ u.delivered = x.delivered /\ u.sentHeader = x.sentHeader
          /\ u.credited = x.credited /\ u.out = x.out
          /\ u.granted = x.granted /\ u.outCredits = x.outCredits
          /\ u.hreq = x.hreq /\ u.uploaded = x.uploaded
          /\ u.bodySent = x.bodySent
      BY <2>8 DEF Resume, Update, Worker
    <3>3. /\ x.updateTimer => u.updateTimer
          /\ credits # -1 /\ x.stuffToRead => u.updateTimer
          /\ credits = -1 => u.updateTimer = x.updateTimer
      BY <2>8 DEF Resume, Update, Worker
    <3>4. Continues(v, u)
      <4>1. /\ u.state = v.state /\ u.ending = v.ending /\ u.req = v.req
            /\ u.quiet = v.quiet /\ u.stuffToRead = v.stuffToRead
            /\ u.inbuf = v.inbuf /\ u.bytesReceived = v.bytesReceived
            /\ u.timers = v.timers /\ u.said = v.said /\ u.parts = v.parts
            /\ u.delivered = v.delivered /\ u.sentHeader = v.sentHeader
            /\ u.credited = v.credited /\ u.out = v.out
            /\ u.granted = s.granted /\ u.outCredits = s.outCredits
            /\ u.uploaded <= u.credited
        BY <2>3, <2>8, <3>2
      <4>2. /\ v.bodySent => u.bodySent
            /\ v.updateTimer => u.updateTimer
            /\ credits # -1 /\ v.stuffToRead => u.updateTimer
            /\ credits = -1 => u.updateTimer = v.updateTimer
        BY <2>3, <2>8, <3>2, <3>3
      <4> QED BY <2>4, <4>1, <4>2 DEF Continues
    <3> QED BY <3>1, <3>2, <3>4
  <2>9. CASE type # "data"
    <3> DEFINE u == Resume(s, credits)
    <3>1. v.uploaded <= v.credited
      BY <1>0 DEF Kept
    <3>2. /\ u \in Worker /\ Continues(v, u) /\ u.hreq = v.hreq
          /\ u.bodySent = v.bodySent /\ u.uploaded = v.uploaded
      BY <2>2, <2>3, <2>8, <3>1
    <3> HIDE DEF u
    <3>3. /\ Good(v.hreq) /\ Wired(v.hreq) /\ v.hreq \in Request
          /\ v.bodySent \/ Open(v.hreq)
      BY <2>a DEF Ready, WorkerInv, Running, Good
    <3>4. Onward(v.hreq, v.hreq) /\ Reported(v.hreq, v.hreq)
      BY <3>3, OnwardSame DEF Reported
    <3>5. v.hreq.taken + Repeated(r) + v.hreq.newlyWritten
            <= v.hreq.taken + Repeated(r) + v.hreq.newlyWritten
      BY <3>3, <3>4, ReportedSum
    <3>6. v.hreq.written + v.uploaded <= v.hreq.written + v.uploaded
      <4>1. v.hreq.written \in Nat /\ v.uploaded \in Nat
        BY <1>0, <3>3, WorkerNats DEF Request
      <4> QED BY <4>1
    <3>7. WorkerInv(u, r) /\ Promised(v, u) /\ NoData(u)
      BY <2>a, <3>2, <3>3, <3>4, <3>5, <3>6, ContinuesOwes
    <3> QED BY <2>5, <2>9, <3>7 DEF u
  <2>10. CASE type = "data" /\ ~v.bodySent
    <3>1. /\ Good(v.hreq) /\ Sound(v.hreq) /\ v.hreq \in Request /\ Open(v.hreq)
      BY <2>a, <2>10 DEF Ready, WorkerInv, Running, Good, Sound
    <3>2. ASSUME NEW x \in WriteBodyPart(s, size, more)
          PROVE  LET u == Resume([x EXCEPT !.uploaded = @ + size], credits)
                 IN  WorkerInv(u, r) /\ Promised(v, u) /\ NoData(u)
      <4>1. PICK g \in WriteBody(v.hreq, size) :
              \/ more /\ x = [s EXCEPT !.hreq = g]
              \/ ~more /\ \E f \in EndBody(g) :
                   x = [s EXCEPT !.hreq = f, !.bodySent = TRUE]
        <5>1. x \in UNION {IF more THEN {[s EXCEPT !.hreq = g]}
                ELSE {[s EXCEPT !.hreq = f, !.bodySent = TRUE] : f \in EndBody(g)} :
                  g \in WriteBody(v.hreq, size)}
          BY <2>3, <3>2 DEF WriteBodyPart
        <5>2. CASE more
          BY <5>1, <5>2
        <5>3. CASE ~more
          BY <5>1, <5>3
        <5> QED BY <5>2, <5>3
      <4>2. /\ Good(g) /\ Open(g) /\ g \in Request /\ Sound(g)
            /\ Onward(g, v.hreq) /\ Reported(g, v.hreq)
            /\ g.written <= v.hreq.written + size
        BY <3>1, <4>1, WriteBodyGood, WriteBodyOnward DEF Sound
      <4> DEFINE ok(f) == /\ \/ x = [s EXCEPT !.hreq = f]
                             \/ x = [s EXCEPT !.hreq = f, !.bodySent = TRUE]
                          /\ x.bodySent \/ Open(f)
                          /\ Good(f) /\ f \in Request /\ Wired(f)
                          /\ Onward(f, v.hreq) /\ Reported(f, v.hreq)
                          /\ f.written = g.written
      <4>3. \E f : ok(f)
        <5>1. CASE more
          <6>1. x = [s EXCEPT !.hreq = g]
            BY <4>1, <5>1
          <6>2. ok(g)
            BY <4>2, <6>1 DEF Sound
          <6> QED BY <6>2
        <5>2. CASE ~more
          <6>1. PICK f \in EndBody(g) :
                  x = [s EXCEPT !.hreq = f, !.bodySent = TRUE]
            BY <4>1, <5>2
          <6>2. Good(f) /\ Moved(f, g) /\ f \in Request
            BY <4>2, EndBodyGood, EndBodyOnward DEF Open, Moved
          <6>3. Moved(f, g) /\ Onward(f, v.hreq) /\ f.written = g.written
            BY <3>1, <4>2, <6>2, OnwardTrans DEF Moved
          <6>4. Reported(f, v.hreq)
            BY <3>1, <4>2, <6>2, ReportedTrans DEF Moved
          <6>5. x.bodySent
            BY <2>2, <6>1 DEF Worker
          <6>6. ok(f)
            BY <6>1, <6>2, <6>3, <6>4, <6>5 DEF Moved
          <6> QED BY <6>6
        <5> QED BY <5>1, <5>2
      <4>4. PICK f : ok(f)
        BY <4>3
      <4> DEFINE y == [x EXCEPT !.uploaded = @ + size]
                 u == Resume(y, credits)
      <4>5. s.uploaded + size \in Nat
        BY <1>0, <2>3, WorkerNats
      <4>6. y \in Worker
        <5>1. x \in Worker /\ x.uploaded = s.uploaded
          BY ZenonT(60), <2>2, <4>4 DEF Worker
        <5> QED BY <4>5, <5>1 DEF Worker
      <4>7. /\ y.hreq = f /\ y.uploaded = v.uploaded + size
            /\ y.bodySent = x.bodySent /\ (s.bodySent => y.bodySent)
            /\ y.state = s.state /\ y.ending = s.ending /\ y.req = s.req
            /\ y.quiet = s.quiet /\ y.stuffToRead = s.stuffToRead
            /\ y.inbuf = s.inbuf /\ y.bytesReceived = s.bytesReceived
            /\ y.timers = s.timers /\ y.said = s.said /\ y.parts = s.parts
            /\ y.delivered = s.delivered /\ y.sentHeader = s.sentHeader
            /\ y.credited = s.credited /\ y.out = s.out
            /\ y.granted = s.granted /\ y.outCredits = s.outCredits
            /\ y.updateTimer = s.updateTimer
        BY ZenonT(60), <2>2, <2>3, <4>4 DEF Worker
      <4> HIDE DEF y
      <4>8. y.uploaded <= y.credited
        BY <2>3, <2>10, <4>7
      <4>9. /\ u \in Worker /\ Continues(v, u) /\ u.hreq = f
            /\ u.bodySent = x.bodySent /\ u.uploaded = v.uploaded + size
        BY <2>8, <4>6, <4>7, <4>8
      <4> HIDE DEF u
      <4>10. f.written + v.uploaded <= v.hreq.written + (v.uploaded + size)
        <5>1. f.written \in Nat /\ v.hreq.written \in Nat /\ v.uploaded \in Nat
          BY <1>0, <3>1, <4>4, WorkerNats DEF Request
        <5> QED BY <4>2, <4>4, <5>1
      <4>11. v.hreq.taken + Repeated(r) + f.newlyWritten
               <= f.taken + Repeated(r) + v.hreq.newlyWritten
        BY <3>1, <4>4, ReportedSum
      <4>12. WorkerInv(u, r) /\ Promised(v, u) /\ NoData(u)
        BY <2>a, <4>4, <4>9, <4>10, <4>11, ContinuesOwes
      <4> QED BY <4>12 DEF u, y
    <3> QED BY <2>5, <2>10, <3>2
  <2> QED BY <2>7, <2>9, <2>10
<1> QED BY <1>1, <1>2, <1>3

----------------------------------------------------------------------------
\* Lemmas about what the HttpRequest reports.

\* From v to x the session may have read what the request has.
Aside(x, v) ==
  /\ x.state = v.state /\ x.ending = v.ending /\ x.req = v.req
  /\ x.quiet = v.quiet /\ x.timers = v.timers /\ x.said = v.said
  /\ x.parts = v.parts /\ x.delivered = v.delivered
  /\ x.sentHeader = v.sentHeader /\ x.credited = v.credited /\ x.out = v.out
  /\ x.granted = v.granted /\ x.outCredits = v.outCredits
  /\ x.bodySent = v.bodySent /\ x.uploaded = v.uploaded

\* It is still within what Kept says.
AsideKept(x) ==
  /\ x.bytesReceived = x.delivered + x.inbuf
  /\ x.req.maxSize # -1 => x.bytesReceived <= x.req.maxSize

LEMMA AsideAfter ==
  ASSUME NEW r, NEW v, Ready(v, r), NEW x \in Worker, Aside(x, v), AsideKept(x),
         x.hreq \in Request, x.hreq.arrived >= v.hreq.arrived
  PROVE  /\ Kept(x) /\ After(v, x) /\ x.ending = "no"
         /\ x.state = "Started" /\ x.out = <<>>
<1>1. /\ v \in Worker /\ Kept(v) /\ v.ending = "no" /\ ArrivedOf(v) = v.hreq.arrived
      /\ v.state = "Started" /\ v.out = <<>>
  BY ReadyTypes DEF Ready, WorkerInv
<1>2. x.ending = "no" /\ x.state = "Started" /\ x.out = <<>>
  BY <1>1 DEF Aside
<1>3. OutStream(x) <=> OutStream(v)
  BY DEF OutStream, Aside
<1>4. Kept(x)
  BY <1>1, <1>2, <1>3 DEF Kept, Aside, AsideKept
<1>5. After(v, x)
  <2>1. ArrivedOf(x) = x.hreq.arrived
    BY NoneAssumption DEF ArrivedOf
  <2>2. ArrivedOf(x) >= ArrivedOf(v)
    BY <1>1, <2>1
  <2>3. v.granted >= v.granted
    BY <1>1, WorkerNats
  <2>4. AllowedOf(x) >= AllowedOf(v)
    BY <1>1, <1>3, <2>2, <2>3 DEF AllowedOf, Aside
  <2> QED BY <1>1, <1>3, <2>2, <2>4 DEF After, Aside
<1> QED BY <1>2, <1>4, <1>5

LEMMA AfterPromised ==
  ASSUME NEW v \in Worker, NEW x \in Worker, After(v, x), x.ending = "no"
  PROVE  Promised(v, x)
  BY DEF After, Promised

\* The client is told of an error.
LEMMA ErrorOwes ==
  ASSUME NEW r, NEW v, Ready(v, r), NEW x \in Worker, Aside(x, v), AsideKept(x),
         x.hreq \in Request, x.hreq.arrived >= v.hreq.arrived
  PROVE  LET u == RespondError(x)
         IN  /\ WorkerInv(u, r) /\ Promised(v, u) /\ NoData(u)
             /\ u.ending = "error"
<1> DEFINE y == WriteResponse(x, Plain("error", 0))
           u == Finish(y, "error")
<1>1. /\ Kept(x) /\ After(v, x) /\ x.ending = "no"
      /\ x.state # "NotStarted" /\ x.out = <<>>
  BY AsideAfter
<1>2. WorkerInv(u, r) /\ Promised(x, u) /\ NoData(u)
  BY <1>1, RespondOwes
<1>3. y \in Worker
  <2>1. Plain("error", 0) \in Message
    BY DEF Plain, Message
  <2> QED BY <2>1, WriteResponseFields
<1>4. u.ending = "error"
  <2> HIDE DEF y
  <2> QED BY <1>3, FinishFields
<1>5. v \in Worker /\ u \in Worker
  BY <1>2 DEF Ready, WorkerInv
<1>6. Promised(v, u)
  <2> HIDE DEF u
  <2> QED BY <1>1, <1>2, <1>5, PromisedAfter
<1> QED BY <1>2, <1>4, <1>6 DEF RespondError

\* The session goes on.  What was written is still to be reported.
LEMMA NewsOwes ==
  ASSUME NEW r \in Nat, NEW v, Ready(v, r), NEW x \in Worker, Aside(x, v),
         AsideKept(x), Good(x.hreq), Wired(x.hreq), Same(x.hreq, v.hreq),
         x.hreq.written = v.hreq.written, x.hreq.arrived >= v.hreq.arrived,
         x.hreq.taken = v.hreq.taken + x.hreq.newlyWritten,
         x.bytesReceived + x.hreq.in = x.hreq.arrived,
         OutStream(v) => x.inbuf = 0,
         Signalled(x)
  PROVE  /\ Ready(x, r) /\ After(v, x) /\ x.bodySent = v.bodySent
         /\ x.credited + v.hreq.newlyWritten + x.hreq.newlyWritten
              <= SessionBufferSize + x.hreq.taken + Repeated(r)
<1> DEFINE g == v.hreq
           f == x.hreq
<1>1. f \in Request /\ g \in Request
  BY ReadyTypes DEF Good
<1>2. /\ Kept(x) /\ After(v, x) /\ x.ending = "no"
      /\ x.state = "Started" /\ x.out = <<>>
  BY <1>1, AsideAfter
<1>3. v \in Worker /\ Running(v, r) /\ v.state = "Started"
  BY DEF Ready, WorkerInv
<1>4. /\ f.taken \in Nat /\ g.taken \in Nat
      /\ f.newlyWritten \in Nat /\ g.newlyWritten \in Nat
      /\ v.credited \in Nat /\ SessionBufferSize \in Nat /\ Repeated(r) \in Nat
  BY <1>1, <1>3, WorkerNats, RepeatedNat, ClientAssumption DEF Request
<1>5. x.credited + g.newlyWritten + f.newlyWritten
        <= SessionBufferSize + f.taken + Repeated(r)
  <2>1. /\ v.credited + g.newlyWritten <= SessionBufferSize + g.taken + Repeated(r)
        /\ f.taken = g.taken + f.newlyWritten /\ x.credited = v.credited
    BY <1>3 DEF Running, Counted, Aside
  <2> QED BY <1>4, <2>1
<1>6. x.credited + f.newlyWritten <= SessionBufferSize + f.taken + Repeated(r)
  <2>1. x.credited = v.credited
    BY DEF Aside
  <2> QED BY <1>4, <1>5, <2>1
<1>7. OutStream(x) <=> OutStream(v)
  BY DEF OutStream, Aside
<1>8. Counted(x, r)
  BY <1>3, <1>6, <1>7 DEF Counted, Running, Aside
<1>9. Running(x, r)
  BY <1>3, <1>8 DEF Running, Aside, Open, Same
<1>10. Shape(x)
  BY <1>2 DEF Shape, Deferred
<1>11. WorkerInv(x, r)
  BY <1>2, <1>9, <1>10 DEF WorkerInv
<1> QED BY <1>2, <1>5, <1>11 DEF Ready, Aside

\* The client is told something that is not response data.
LEMMA SpeakOwes ==
  ASSUME NEW r \in Nat, NEW x, Ready(x, r), x.req.mode # "single",
         NEW m \in Message, m.type # "data", NEW n \in Nat,
         x.credited + n + x.hreq.newlyWritten
           <= SessionBufferSize + x.hreq.taken + Repeated(r)
  PROVE  LET z == [WriteResponse(x, m) EXCEPT !.credited = @ + n]
         IN  WorkerInv(z, r) /\ Promised(x, z) /\ NoData(z)
<1> DEFINE y == WriteResponse(x, m)
           z == [y EXCEPT !.credited = @ + n]
<1>1. /\ x \in Worker /\ Kept(x) /\ Running(x, r) /\ Shape(x)
      /\ x.state = "Started" /\ x.out = <<>> /\ x.ending = "no"
  BY ReadyTypes DEF Ready, WorkerInv
<1>2. /\ y \in Worker /\ Unsaid(y, x) /\ y.said = x.said + 1
      /\ y.parts = x.parts /\ y.out \in {x.out, Append(x.out, m)}
  BY <1>1, WriteResponseFields
<1>3. x.credited + n \in Nat
  BY <1>1, WorkerNats
<1> HIDE DEF y
<1>4. z \in Worker
  <2>1. y.credited + n \in Nat
    BY <1>2, <1>3 DEF Unsaid
  <2> QED BY <1>2, <2>1 DEF Worker
<1>5. /\ z.req = x.req /\ z.state = x.state /\ z.hreq = x.hreq
      /\ z.quiet = x.quiet /\ z.outCredits = x.outCredits
      /\ z.sentHeader = x.sentHeader /\ z.bodySent = x.bodySent
      /\ z.stuffToRead = x.stuffToRead /\ z.inbuf = x.inbuf
      /\ z.bytesReceived = x.bytesReceived /\ z.timers = x.timers
      /\ z.updateTimer = x.updateTimer /\ z.delivered = x.delivered
      /\ z.arrived = x.arrived /\ z.granted = x.granted
      /\ z.uploaded = x.uploaded /\ z.outcome = x.outcome
      /\ z.ending = x.ending /\ z.parts = x.parts /\ z.said = x.said + 1
      /\ z.out = y.out /\ z.credited = x.credited + n
  BY <1>2 DEF Worker, Unsaid
<1> HIDE DEF z
<1>6. OutStream(z) <=> OutStream(x)
  BY <1>5 DEF OutStream
<1>7. Kept(z)
  <2>1. z.uploaded <= z.credited
    <3>1. x.uploaded <= x.credited
      BY <1>1 DEF Kept
    <3>2. x.uploaded \in Nat /\ x.credited \in Nat
      BY <1>1, WorkerNats
    <3> QED BY <1>5, <3>1, <3>2
  <2> QED BY <1>1, <1>5, <1>6, <2>1 DEF Kept
<1>8. Running(z, r)
  <2>1. z.credited + z.hreq.newlyWritten
          <= SessionBufferSize + z.hreq.taken + Repeated(r)
    BY <1>5
  <2>2. Counted(z, r)
    BY <1>1, <1>5, <1>6, <2>1 DEF Running, Counted
  <2>3. Signalled(z)
    BY <1>1, <1>5, <1>6 DEF Running, Signalled
  <2> QED BY <1>1, <1>5, <2>2, <2>3 DEF Running
<1>9. Shape(z)
  BY <1>1, <1>5 DEF Shape, Deferred
<1>10. NoData(z)
  <2>1. CASE z.out = <<>>
    BY <2>1 DEF NoData
  <2>2. CASE z.out = Append(<<>>, m)
    BY <2>2 DEF NoData
  <2> QED BY <1>1, <1>2, <1>5, <2>1, <2>2
<1>11. Promised(x, z)
  <2>1. ArrivedOf(z) = ArrivedOf(x) /\ AllowedOf(z) = AllowedOf(x)
    BY <1>5, <1>6 DEF ArrivedOf, AllowedOf
  <2>2. ArrivedOf(x) >= ArrivedOf(x) /\ AllowedOf(x) >= AllowedOf(x)
    BY <1>1, WorkerNats
  <2> QED BY <1>1, <1>5, <2>1, <2>2 DEF Promised
<1> QED BY <1>4, <1>7, <1>8, <1>9, <1>10, <1>11 DEF WorkerInv, z, y

\* The client is given credits for the body bytes that were taken.
LEMMA BytesWrittenOwes ==
  ASSUME NEW r \in Nat, NEW v, NEW x, Ready(v, r), Ready(x, r), After(v, x),
         x.bodySent = v.bodySent, NEW n \in Nat,
         x.credited + n + x.hreq.newlyWritten
           <= SessionBufferSize + x.hreq.taken + Repeated(r)
  PROVE  LET u == ReqBytesWritten(x, n)
         IN  WorkerInv(u, r) /\ Promised(v, u) /\ NoData(u)
<1> DEFINE m == Plain("credit", n)
           z == [WriteResponse(x, m) EXCEPT !.credited = @ + n]
<1>1. /\ v \in Worker /\ x \in Worker /\ Running(x, r)
      /\ x.out = <<>> /\ x.ending = "no" /\ WorkerInv(x, r)
  BY ReadyTypes DEF Ready, WorkerInv
<1>2. CASE x.bodySent
  <2>1. NoData(x)
    BY <1>1 DEF NoData
  <2> QED BY <1>1, <1>2, <2>1, AfterPromised DEF ReqBytesWritten
<1>3. CASE ~x.bodySent
  <2>1. m \in Message /\ m.type # "data"
    BY DEF Plain, Message
  <2>2. x.req.mode # "single"
    BY <1>1, <1>3 DEF Running
  <2>3. WorkerInv(z, r) /\ Promised(x, z) /\ NoData(z)
    BY <2>1, <2>2, SpeakOwes
  <2>4. ReqBytesWritten(x, n) = z
    BY <1>3 DEF ReqBytesWritten
  <2> HIDE DEF z
  <2>5. z \in Worker
    BY <2>3 DEF WorkerInv
  <2>6. Promised(v, z)
    BY <1>1, <2>3, <2>5, PromisedAfter
  <2> QED BY <2>3, <2>4, <2>6
<1> QED BY <1>2, <1>3

\* There is news: it is read or the update timer will do it.
LEMMA ReadyReadOwes ==
  ASSUME NEW r \in Nat, NEW v, Ready(v, r), v.hreq.result # "err",
         v.hreq.newlyReadOrEof,
         NEW x \in ReqReadyRead([v EXCEPT !.hreq = Updated(@)])
  PROVE  \/ /\ WorkerInv(x, r) /\ Promised(v, x) /\ NoData(x)
            /\ x.ending = "error"
         \/ /\ Ready(x, r) /\ After(v, x) /\ x.bodySent = v.bodySent
            /\ x.credited + v.hreq.newlyWritten + x.hreq.newlyWritten
                 <= SessionBufferSize + x.hreq.taken + Repeated(r)
<1> DEFINE g == v.hreq
           h0 == Updated(g)
           b == [v EXCEPT !.hreq = h0]
           s == [b EXCEPT !.stuffToRead = TRUE]
           size == Readable(h0, -1)
           collected(h) == [s EXCEPT !.hreq = h, !.inbuf = @ + size,
                                     !.bytesReceived = @ + size]
<1>1. /\ v \in Worker /\ Kept(v) /\ Running(v, r) /\ Good(g) /\ Sound(g)
      /\ g \in Request /\ g.in \in Nat /\ g.arrived \in Nat
  BY ReadyTypes DEF Ready, WorkerInv, Running
<1>2. Good(h0)
  BY <1>1, UpdatedGood
<1>3. /\ h0 \in Request /\ Wired(h0) /\ Same(h0, g)
      /\ ~h0.newlyReadOrEof /\ h0.newlyWritten = 0
      /\ h0.taken = g.taken /\ h0.written = g.written
      /\ h0.arrived = g.arrived /\ h0.in = g.in /\ h0.header = g.header
      /\ h0.result = g.result /\ h0.errorCondition = g.errorCondition
  BY <1>1, UpdatedOnward
<1>4. g.header
  BY <1>1 DEF Sound, Wired
<1>5. v.req.maxSize \in Nat \cup {-1} /\ v.inbuf \in Nat
      /\ v.bytesReceived \in Nat /\ v.delivered \in Nat
  BY <1>1, WorkerNats
<1>6. AsideKept(v) /\ Signalled(v) /\ v.bytesReceived + g.in = g.arrived
  BY <1>1 DEF Kept, AsideKept, Running, Counted
<1>7. x \in IF OutStream(b)
        THEN {IF ~b.quiet /\ b.outCredits < 1 THEN s ELSE Update(s)}
        ELSE {IF TooLarge(b, size) THEN RespondError([s EXCEPT !.hreq = h])
              ELSE IF IsFinished(h) THEN Update(collected(h)) ELSE collected(h) :
                h \in ReadResponseBody(h0, -1)}
  <2>1. b.hreq = h0 /\ b = [v EXCEPT !.hreq = Updated(@)]
    BY <1>1 DEF Worker
  <2> HIDE DEF b, h0
  <2> QED BY <2>1 DEF ReqReadyRead
<1> HIDE DEF h0
<1>8. /\ b \in Worker /\ b.hreq = h0 /\ b.inbuf = v.inbuf
      /\ b.bytesReceived = v.bytesReceived /\ b.updateTimer = v.updateTimer
      /\ Aside(b, v)
  BY <1>1, <1>3 DEF Worker, Aside
<1> HIDE DEF b
<1>9. /\ s \in Worker /\ s.hreq = h0 /\ s.inbuf = v.inbuf /\ s.stuffToRead
      /\ s.bytesReceived = v.bytesReceived /\ s.updateTimer = v.updateTimer
      /\ Aside(s, v)
  BY <1>8 DEF Worker, Aside
<1> HIDE DEF s
<1>10. OutStream(b) <=> OutStream(v)
  BY <1>8 DEF OutStream, Aside
<1>11. CASE OutStream(v)
  <2>1. x = IF ~b.quiet /\ b.outCredits < 1 THEN s ELSE Update(s)
    BY <1>7, <1>10, <1>11
  <2>2. /\ x \in Worker /\ x.hreq = h0 /\ x.inbuf = v.inbuf /\ x.stuffToRead
        /\ x.bytesReceived = v.bytesReceived /\ Aside(x, v)
        /\ x.quiet \/ x.outCredits >= 1 => x.updateTimer
    <3>1. CASE ~b.quiet /\ b.outCredits < 1
      <4>1. v.outCredits \in Nat
        BY <1>1, WorkerNats
      <4>2. ~(v.quiet \/ v.outCredits >= 1)
        BY <1>8, <3>1, <4>1 DEF Aside
      <4> QED BY <1>9, <2>1, <3>1, <4>2 DEF Aside
    <3>2. CASE ~(~b.quiet /\ b.outCredits < 1)
      <4>1. x = Update(s)
        BY <2>1, <3>2
      <4> QED BY <1>9, <4>1 DEF Update, Worker, Aside
    <3> QED BY <3>1, <3>2
  <2>3. Signalled(x)
    <3>1. OutStream(x)
      BY <1>11, <2>2 DEF OutStream, Aside
    <3>2. x.outCredits \in Nat
      BY <2>2, WorkerNats
    <3>3. x.quiet \/ x.outCredits > 0 => x.updateTimer
      BY <2>2, <3>2
    <3> QED BY <1>3, <1>4, <1>6, <2>2, <3>1, <3>3 DEF Signalled, Aside
  <2>4. AsideKept(x)
    BY <1>6, <2>2 DEF AsideKept, Aside
  <2>5. OutStream(v) => x.inbuf = 0
    BY <1>1, <2>2 DEF Running, Counted
  <2>6. /\ x.hreq.arrived >= g.arrived /\ x.hreq.taken = g.taken + x.hreq.newlyWritten
        /\ x.bytesReceived + x.hreq.in = x.hreq.arrived
    <3>1. g.taken \in Nat
      BY <1>1 DEF Request
    <3> QED BY <1>1, <1>3, <1>6, <2>2, <3>1
  <2> QED BY <1>2, <1>3, <2>2, <2>3, <2>4, <2>5, <2>6, NewsOwes
<1>12. CASE ~OutStream(v)
  <2>1. PICK h \in ReadResponseBody(h0, -1) :
          x = IF TooLarge(b, size) THEN RespondError([s EXCEPT !.hreq = h])
              ELSE IF IsFinished(h) THEN Update(collected(h)) ELSE collected(h)
    BY <1>7, <1>10, <1>12
  <2>2. size = g.in
    BY <1>3 DEF Readable
  <2>3. /\ h \in Request /\ Wired(h) /\ h.written = g.written
        /\ h.taken + h0.newlyWritten = h0.taken + h.newlyWritten
        /\ h.arrived + h0.in = h0.arrived + h.in + size
        /\ h.arrived >= h0.arrived
        /\ h.header = g.header /\ h.result = g.result
        /\ h.errorCondition = g.errorCondition
        /\ ~h.newlyReadOrEof => h.in = h0.in - size
        /\ g.result # "none" => h.in = h0.in - size
    BY <1>3, ReadResponseOnward DEF Sound, Reported
  <2>4. Good(h) /\ Same(h, g)
    BY <1>2, <1>3, ReadGood DEF Same
  <2> HIDE DEF size
  <2>5. /\ h.in \in Nat /\ h.arrived \in Nat /\ g.taken \in Nat
        /\ h.taken \in Nat /\ h.newlyWritten \in Nat
    BY <1>1, <2>3, SizeAssumption DEF Request
  <2>6. /\ h.taken = g.taken + h.newlyWritten
        /\ h.arrived = g.arrived + h.in
        /\ h.arrived >= g.arrived
        /\ ~h.newlyReadOrEof \/ g.result # "none" => h.in = 0
    BY <1>1, <1>3, <2>2, <2>3, <2>5
  <2>7. CASE TooLarge(b, size)
    <3> DEFINE e == [s EXCEPT !.hreq = h]
    <3>1. x = RespondError(e)
      BY <2>1, <2>7
    <3>2. /\ e \in Worker /\ Aside(e, v) /\ e.hreq = h /\ e.inbuf = v.inbuf
          /\ e.bytesReceived = v.bytesReceived
      BY <1>9, <2>3 DEF Worker, Aside
    <3> HIDE DEF e
    <3>3. AsideKept(e)
      BY <1>6, <3>2 DEF AsideKept, Aside
    <3> QED BY <2>3, <2>6, <3>1, <3>2, <3>3, ErrorOwes
  <2>8. CASE ~TooLarge(b, size)
    <3> DEFINE c == collected(h)
    <3>1. x = IF IsFinished(h) THEN Update(c) ELSE c
      BY <2>1, <2>8
    <3>2. /\ c \in Worker /\ Aside(c, v) /\ c.hreq = h
          /\ c.inbuf = v.inbuf + size
          /\ c.bytesReceived = v.bytesReceived + size
          /\ c.stuffToRead /\ c.updateTimer = v.updateTimer
      <4>1. v.inbuf + size \in Nat /\ v.bytesReceived + size \in Nat
        BY <1>1, <1>5, <2>2
      <4>2. c \in Worker
        BY <1>9, <2>3, <4>1 DEF Worker
      <4> QED BY <1>9, <4>2 DEF Worker, Aside
    <3> HIDE DEF c
    <3>3. /\ x \in Worker /\ Aside(x, v) /\ x.hreq = h
          /\ x.inbuf = v.inbuf + size
          /\ x.bytesReceived = v.bytesReceived + size
          /\ x.stuffToRead
          /\ x.updateTimer <=> IsFinished(h) \/ v.updateTimer
      <4>1. CASE IsFinished(h)
        <5>1. x = Update(c)
          BY <3>1, <4>1
        <5> QED BY <3>2, <4>1, <5>1 DEF Update, Worker, Aside
      <4>2. CASE ~IsFinished(h)
        BY <3>1, <3>2, <4>2
      <4> QED BY <4>1, <4>2
    <3>4. AsideKept(x)
      <4>1. x.bytesReceived = v.delivered + (v.inbuf + size)
        BY <1>1, <1>5, <1>6, <2>2, <3>3 DEF AsideKept
      <4>2. v.req.maxSize # -1 => v.bytesReceived + size <= v.req.maxSize
        <5>1. size \in Nat
          BY <1>1, <2>2
        <5>2. b.bytesReceived = v.bytesReceived /\ b.req = v.req
          BY <1>8 DEF Aside
        <5>3. v.req.maxSize # -1 =>
                size = 0 \/ ~(v.bytesReceived + size > v.req.maxSize)
          BY <2>8, <5>1, <5>2 DEF TooLarge
        <5>4. v.req.maxSize # -1 => v.bytesReceived <= v.req.maxSize
          BY <1>6 DEF AsideKept
        <5> QED BY <1>5, <5>1, <5>3, <5>4
      <4> QED BY <3>3, <4>1, <4>2 DEF AsideKept, Aside
    <3>5. x.bytesReceived + x.hreq.in = x.hreq.arrived
      BY <1>1, <1>5, <1>6, <2>2, <2>5, <2>6, <3>3
    <3>6. ~OutStream(x)
      BY <1>12, <3>3 DEF OutStream, Aside
    <3>7. IsFinished(h) <=> h.result = "ok"
      <4>1. h.errorCondition = "none"
        BY <1>4, <2>3 DEF Wired
      <4>2. h.result \in {"none", "ok", "err"}
        BY <2>3 DEF Request
      <4> QED BY <2>3, <4>1, <4>2 DEF IsFinished
    <3>8. CreditsOnlyForStreams /\ v.updateTimer => h.result = "ok"
      BY <1>6, <1>12, <2>3 DEF Signalled
    <3>9. Signalled(x)
      BY <1>4, <1>6, <2>3, <2>6, <3>3, <3>6, <3>7, <3>8 DEF Signalled, Aside
    <3> QED BY <1>12, <2>3, <2>4, <2>6, <3>3, <3>4, <3>5, <3>9, NewsOwes
  <2> QED BY <2>7, <2>8
<1> QED BY <1>11, <1>12

\* The queued call of the request, with the slots it runs.
LEMMA ConnUpdatedOwes ==
  ASSUME NEW r \in Nat, NEW v, Ready(v, r)
  PROVE  \A u \in WorkerConnUpdated(v) :
           WorkerInv(u, r) /\ Promised(v, u) /\ NoData(u)
<1> DEFINE g == v.hreq
           s == [v EXCEPT !.hreq = Updated(@)]
           n == g.newlyWritten
<1>1. /\ v \in Worker /\ Kept(v) /\ Running(v, r) /\ Good(g) /\ Sound(g)
      /\ g \in Request /\ g.arrived \in Nat /\ n \in Nat
  BY ReadyTypes DEF Ready, WorkerInv, Running
<1>2. CASE g.result = "err"
  <2>1. WorkerConnUpdated(v) = {RespondError(s)}
    BY <1>2 DEF WorkerConnUpdated
  <2>2. Updated(g) \in Request /\ Updated(g).arrived = g.arrived
    BY ZenonT(60), <1>1 DEF Updated, Request
  <2>3. /\ s \in Worker /\ Aside(s, v) /\ s.hreq = Updated(g)
        /\ s.inbuf = v.inbuf /\ s.bytesReceived = v.bytesReceived
    BY <1>1, <2>2 DEF Worker, Aside
  <2> HIDE DEF s
  <2>4. AsideKept(s)
    BY <1>1, <2>3 DEF AsideKept, Aside, Kept
  <2>5. s.hreq.arrived >= g.arrived
    BY <1>1, <2>2, <2>3
  <2> QED BY <2>1, <2>2, <2>3, <2>4, <2>5, ErrorOwes
<1>3. CASE g.result # "err"
  <2> DEFINE good(x) ==
        \/ /\ WorkerInv(x, r) /\ Promised(v, x) /\ NoData(x)
           /\ x.ending = "error"
        \/ /\ Ready(x, r) /\ After(v, x) /\ x.bodySent = v.bodySent
           /\ x.credited + n + x.hreq.newlyWritten
                <= SessionBufferSize + x.hreq.taken + Repeated(r)
  <2>1. ASSUME g.newlyReadOrEof, NEW x \in ReqReadyRead(s)
        PROVE  good(x)
    BY <1>3, <2>1, ReadyReadOwes
  <2>2. ASSUME ~g.newlyReadOrEof
        PROVE  good(s)
    <3> DEFINE h == Updated(g)
    <3>1. Good(h)
      BY <1>1, <1>3, UpdatedGood
    <3>2. /\ h \in Request /\ Wired(h) /\ Same(h, g)
          /\ ~h.newlyReadOrEof /\ h.newlyWritten = 0
          /\ h.taken = g.taken /\ h.written = g.written
          /\ h.arrived = g.arrived /\ h.in = g.in /\ h.header = g.header
          /\ h.result = g.result
      BY <1>1, <1>3, UpdatedOnward
    <3> HIDE DEF h
    <3>3. s = [v EXCEPT !.hreq = h]
      BY DEF h
    <3>4. /\ s \in Worker /\ s.hreq = h /\ s.inbuf = v.inbuf
          /\ s.bytesReceived = v.bytesReceived /\ s.updateTimer = v.updateTimer
          /\ s.stuffToRead = v.stuffToRead /\ Aside(s, v)
      BY ZenonT(60), <1>1, <3>2, <3>3 DEF Worker, Aside
    <3> HIDE DEF s
    <3>5. AsideKept(s)
      BY <1>1, <3>4 DEF AsideKept, Aside, Kept
    <3>6. OutStream(s) <=> OutStream(v)
      BY <3>4 DEF OutStream, Aside
    <3>7. Signalled(s)
      BY <1>1, <2>2, <3>2, <3>4, <3>6 DEF Signalled, Aside, Running
    <3>8. /\ s.hreq.arrived >= g.arrived
          /\ s.hreq.taken = g.taken + s.hreq.newlyWritten
          /\ s.bytesReceived + s.hreq.in = s.hreq.arrived
      <4>1. g.taken \in Nat
        BY <1>1 DEF Request
      <4>2. v.bytesReceived + g.in = g.arrived
        BY <1>1 DEF Running, Counted
      <4> QED BY <1>1, <3>2, <3>4, <4>1, <4>2
    <3>9. OutStream(v) => s.inbuf = 0
      BY <1>1, <3>4 DEF Running, Counted
    <3> QED BY <3>1, <3>2, <3>4, <3>5, <3>7, <3>8, <3>9, NewsOwes
  <2>3. ASSUME NEW x, good(x)
        PROVE  LET u == IF n > 0 /\ x.ending = "no" THEN ReqBytesWritten(x, n)
                                                    ELSE x
               IN  WorkerInv(u, r) /\ Promised(v, u) /\ NoData(u)
    <3>1. CASE Ready(x, r) /\ n > 0
      <4>1. x.ending = "no"
        BY <3>1, ReadyTypes
      <4>2. /\ After(v, x) /\ x.bodySent = v.bodySent
            /\ x.credited + n + x.hreq.newlyWritten
                 <= SessionBufferSize + x.hreq.taken + Repeated(r)
        BY <2>3, <4>1
      <4>3. LET u == ReqBytesWritten(x, n)
            IN  WorkerInv(u, r) /\ Promised(v, u) /\ NoData(u)
        BY <1>1, <3>1, <4>2, BytesWrittenOwes
      <4> QED BY <3>1, <4>1, <4>3
    <3>2. CASE Ready(x, r) /\ ~(n > 0)
      <4>1. x \in Worker /\ x.ending = "no" /\ WorkerInv(x, r) /\ x.out = <<>>
        BY <3>2, ReadyTypes DEF Ready, WorkerInv
      <4>2. After(v, x)
        BY <2>3, <4>1
      <4>3. Promised(v, x) /\ NoData(x)
        BY <1>1, <4>1, <4>2, AfterPromised DEF NoData
      <4> QED BY <3>2, <4>1, <4>3
    <3>3. CASE ~Ready(x, r)
      BY <2>3, <3>3
    <3> QED BY <3>1, <3>2, <3>3
  <2>4. ASSUME NEW u \in WorkerConnUpdated(v)
        PROVE  \E x : good(x) /\ u = IF n > 0 /\ x.ending = "no"
                                       THEN ReqBytesWritten(x, n) ELSE x
    <3> HIDE DEF good
    <3>1. u \in {IF n > 0 /\ x.ending = "no" THEN ReqBytesWritten(x, n) ELSE x :
                   x \in IF g.newlyReadOrEof THEN ReqReadyRead(s) ELSE {s}}
      BY <1>3, <2>4 DEF WorkerConnUpdated
    <3> HIDE DEF s, n
    <3>2. CASE g.newlyReadOrEof
      BY <2>1, <3>1, <3>2
    <3>3. CASE ~g.newlyReadOrEof
      BY <2>2, <3>1, <3>3
    <3> QED BY <3>2, <3>3
  <2> HIDE DEF good
  <2> QED BY <2>3, <2>4
<1> QED BY <1>2, <1>3

----------------------------------------------------------------------------
\* Lemmas about the messages with response data.

LEMMA NoDataHeaded ==
  ASSUME NEW v, NEW u, NoData(u)
  PROVE  Headed(v, u)
  BY DEF NoData, Headed

\* From p to u at most one message was said: it has the head of the response
\* unless p had said that.
Tells(u, p) == \E m : /\ m.header <=> ~p.sentHeader
                      /\ u.out \in {p.out, Append(p.out, m)}

LEMMA SayDataFields ==
  ASSUME NEW p \in Worker, NEW size \in Nat, NEW more \in BOOLEAN
  PROVE  LET u == SayData(p, size, more)
         IN  /\ u \in Worker
             /\ u.req = p.req /\ u.state = p.state /\ u.hreq = p.hreq
             /\ u.quiet = p.quiet /\ u.outCredits = p.outCredits
             /\ u.bodySent = p.bodySent /\ u.stuffToRead = p.stuffToRead
             /\ u.inbuf = p.inbuf /\ u.bytesReceived = p.bytesReceived
             /\ u.timers = p.timers /\ u.updateTimer = p.updateTimer
             /\ u.arrived = p.arrived /\ u.granted = p.granted
             /\ u.credited = p.credited /\ u.uploaded = p.uploaded
             /\ u.outcome = p.outcome /\ u.ending = p.ending
             /\ u.sentHeader /\ u.delivered = p.delivered + size
             /\ u.said = p.said + 1 /\ u.parts = p.parts + 1
             /\ Tells(u, p)
<1> DEFINE q == [p EXCEPT !.sentHeader = TRUE, !.delivered = @ + size]
           m == Data(size, more, ~p.sentHeader)
           u == WriteResponse(q, m)
<1>1. p.delivered + size \in Nat /\ p.sentHeader \in BOOLEAN
  BY DEF Worker
<1>2. q \in Worker
  BY <1>1 DEF Worker
<1>3. m \in Message /\ m.type = "data"
  BY <1>1 DEF Data, Message
<1>4. /\ q.req = p.req /\ q.state = p.state /\ q.hreq = p.hreq
      /\ q.quiet = p.quiet /\ q.outCredits = p.outCredits
      /\ q.bodySent = p.bodySent /\ q.stuffToRead = p.stuffToRead
      /\ q.inbuf = p.inbuf /\ q.bytesReceived = p.bytesReceived
      /\ q.timers = p.timers /\ q.updateTimer = p.updateTimer
      /\ q.arrived = p.arrived /\ q.granted = p.granted
      /\ q.credited = p.credited /\ q.uploaded = p.uploaded
      /\ q.outcome = p.outcome /\ q.ending = p.ending
      /\ q.sentHeader /\ q.delivered = p.delivered + size
      /\ q.said = p.said /\ q.parts = p.parts /\ q.out = p.out
  BY DEF Worker
<1>5. SayData(p, size, more) = u
  BY DEF SayData
<1> HIDE DEF q, m
<1>6. /\ u \in Worker /\ Unsaid(u, q) /\ u.said = q.said + 1
      /\ u.parts = q.parts + 1 /\ u.out \in {q.out, Append(q.out, m)}
  BY <1>2, <1>3, WriteResponseFields
<1> HIDE DEF u
<1>7. Tells(u, p)
  <2>1. m.header <=> ~p.sentHeader
    BY DEF m, Data
  <2> QED BY <1>4, <1>6, <2>1 DEF Tells
<1> QED BY <1>4, <1>5, <1>6, <1>7 DEF Unsaid

\* Such a message, or none on a session nobody listens to.
LEMMA SayDataHeaded ==
  ASSUME NEW v, NEW r, Ready(v, r), v.stuffToRead,
         NEW u, Tells(u, v)
  PROVE  Headed(v, u)
<1>1. v \in Worker /\ v.hreq # None /\ Running(v, r)
  BY ReadyTypes DEF Ready, WorkerInv
<1>2. v.hreq.header /\ (v.sentHeader <=> v.parts > 0) /\ v.parts \in Nat
  BY <1>1, WorkerNats DEF Running, Signalled
<1>3. ~v.sentHeader <=> v.parts = 0
  BY <1>2
<1>4. PICK m : (m.header <=> ~v.sentHeader) /\ u.out \in {<<>>, Append(<<>>, m)}
  BY DEF Tells, Ready
<1>5. CASE u.out = <<>>
  BY <1>5 DEF Headed
<1>6. CASE u.out = Append(<<>>, m)
  <2>1. Len(u.out) = 1 /\ u.out[1] = m
    BY <1>6
  <2>2. \A i \in 1..Len(u.out) : u.out[i] = m
    BY <2>1
  <2> QED BY <1>1, <1>2, <1>3, <1>4, <2>2, Zenon DEF Headed
<1> QED BY <1>4, <1>5, <1>6

\* All that was collected, once the transfer is over.
LEMMA CollectedOwes ==
  ASSUME NEW r \in Nat, NEW v, Ready(v, r), v.updateTimer, v.stuffToRead,
         ~OutStream(v), NEW b \in Worker, Aside(b, v), b.hreq = v.hreq,
         b.inbuf = v.inbuf, b.bytesReceived = v.bytesReceived
  PROVE  LET u == CollectedResponse(b)
         IN  WorkerInv(u, r) /\ Promised(v, u) /\ Headed(v, u)
<1> DEFINE p == [b EXCEPT !.inbuf = 0]
           y == SayData(p, b.inbuf, FALSE)
           u == Finish(y, "final")
<1>1. /\ v \in Worker /\ Kept(v) /\ Running(v, r) /\ v.ending = "no"
      /\ v.hreq # None /\ ArrivedOf(v) = v.hreq.arrived /\ v.out = <<>>
      /\ v.hreq.arrived \in Nat /\ v.hreq.in \in Nat
  BY ReadyTypes DEF Ready, WorkerInv
<1>2. /\ v.inbuf \in Nat /\ v.bytesReceived \in Nat /\ v.delivered \in Nat
      /\ v.said \in Nat /\ v.parts \in Nat
  BY <1>1, WorkerNats
<1>3. /\ p \in Worker /\ p.req = v.req /\ p.hreq = v.hreq /\ p.inbuf = 0
      /\ p.bytesReceived = v.bytesReceived /\ p.delivered = v.delivered
      /\ p.said = v.said /\ p.parts = v.parts /\ p.out = <<>>
      /\ p.sentHeader = v.sentHeader /\ p.uploaded = v.uploaded
      /\ p.credited = v.credited
  BY <1>1 DEF Worker, Aside
<1> HIDE DEF p
<1>4. /\ y \in Worker /\ y.req = p.req /\ y.hreq = p.hreq
      /\ y.inbuf = p.inbuf /\ y.bytesReceived = p.bytesReceived
      /\ y.credited = p.credited /\ y.uploaded = p.uploaded
      /\ y.delivered = p.delivered + b.inbuf
      /\ y.said = p.said + 1 /\ y.parts = p.parts + 1
      /\ Tells(y, p)
  <2>1. b.inbuf \in Nat /\ FALSE \in BOOLEAN
    BY <1>2
  <2> QED BY <1>3, <2>1, SayDataFields
<1> HIDE DEF y
<1>5. /\ u \in Worker
      /\ u.state = "Stopped" /\ u.hreq = None /\ u.timers = {}
      /\ ~u.updateTimer /\ u.ending = "final"
      /\ u.arrived = ArrivedOf(y)
      /\ u.outcome = IF y.hreq = None THEN y.outcome ELSE y.hreq.result
      /\ u.req = y.req /\ u.out = y.out
      /\ u.said = y.said /\ u.parts = y.parts
      /\ u.delivered = y.delivered /\ u.inbuf = y.inbuf
      /\ u.bytesReceived = y.bytesReceived
      /\ u.credited = y.credited /\ u.uploaded = y.uploaded
  BY <1>4, FinishFields
<1> HIDE DEF u
<1>6. /\ u.outcome = v.hreq.result /\ u.arrived = v.hreq.arrived
      /\ ArrivedOf(u) = v.hreq.arrived
  <2>1. y.hreq = v.hreq
    BY <1>3, <1>4
  <2>2. u.arrived = v.hreq.arrived
    BY <1>1, <1>5, <2>1 DEF ArrivedOf
  <2>3. u.outcome = v.hreq.result
    BY <1>1, <1>5, <2>1, Zenon
  <2> QED BY <1>5, <2>2, <2>3 DEF ArrivedOf
<1>7. Headed(v, u)
  <2>1. Tells(u, v)
    BY <1>1, <1>3, <1>4, <1>5 DEF Tells
  <2> QED BY <2>1, SayDataHeaded
<1>8. ~OutStream(u)
  BY <1>3, <1>4, <1>5 DEF OutStream
<1>9. /\ u.delivered = v.bytesReceived /\ v.bytesReceived >= v.delivered
      /\ v.bytesReceived + v.hreq.in = v.hreq.arrived
      /\ u.inbuf = 0 /\ u.bytesReceived = v.bytesReceived
      /\ u.said = v.said + 1 /\ u.parts = v.parts + 1
  <2>1. v.bytesReceived = v.delivered + v.inbuf
    BY <1>1 DEF Kept
  <2>2. v.bytesReceived + v.hreq.in = v.hreq.arrived
    BY <1>1 DEF Running, Counted
  <2> QED BY <1>2, <1>3, <1>4, <1>5, <2>1, <2>2
<1>10. /\ v.bytesReceived <= v.hreq.arrived /\ v.hreq.arrived >= v.hreq.arrived
       /\ v.bytesReceived = v.bytesReceived + 0
       /\ v.hreq.in = 0 => v.bytesReceived = v.hreq.arrived
  BY <1>1, <1>2, <1>9
<1>11. CreditsOnlyForStreams => v.hreq.result = "ok" /\ v.hreq.in = 0
  BY <1>1 DEF Running, Signalled
<1>12. Kept(u)
  <2>1. u.req = v.req /\ u.credited = v.credited /\ u.uploaded = v.uploaded
    BY <1>3, <1>4, <1>5
  <2>2. v.req.mode = "single" => u.said = 1
    BY <1>1, <1>2, <1>9 DEF Kept
  <2>3. u.parts <= 1
    BY <1>1, <1>2, <1>9 DEF Kept
  <2>4. CreditsOnlyForStreams => u.outcome = "ok" /\ u.delivered = u.arrived
    BY <1>6, <1>9, <1>10, <1>11
  <2>5. u.bytesReceived = u.delivered + u.inbuf
    BY <1>9, <1>10
  <2> QED BY <1>1, <1>5, <1>9, <2>1, <2>2, <2>3, <2>4, <2>5 DEF Kept
<1>13. Shape(u)
  BY <1>5 DEF Shape, Deferred
<1>14. WorkerInv(u, r)
  BY <1>5, <1>12, <1>13 DEF WorkerInv
<1>15. Promised(v, u)
  <2>1. AllowedOf(u) = ArrivedOf(u)
    BY <1>8 DEF AllowedOf
  <2>2. AllowedOf(v) = ArrivedOf(v)
    BY DEF AllowedOf
  <2> QED BY <1>1, <1>5, <1>6, <1>9, <1>10, <1>11, <2>1, <2>2 DEF Promised
<1> QED BY <1>7, <1>14, <1>15 DEF CollectedResponse, u, y, p

\* A part of a streamed response, as much as the credits allow.
LEMMA StreamPartOwes ==
  ASSUME NEW r \in Nat, NEW v, Ready(v, r), v.updateTimer, v.stuffToRead,
         OutStream(v), NEW b \in Worker, Aside(b, v), b.hreq = v.hreq,
         b.inbuf = v.inbuf, b.bytesReceived = v.bytesReceived
  PROVE  \A u \in StreamPart(b) :
           WorkerInv(u, r) /\ Promised(v, u) /\ Headed(v, u)
<1> DEFINE g == v.hreq
           limit == ReadLimit(b)
           size == Readable(g, limit)
<1>1. /\ v \in Worker /\ Kept(v) /\ Running(v, r) /\ v.ending = "no"
      /\ Good(g) /\ Sound(g) /\ g \in Request /\ g # None
      /\ ArrivedOf(v) = g.arrived /\ v.out = <<>>
      /\ g.arrived \in Nat /\ g.in \in Nat /\ v.state = "Started"
      /\ g.taken \in Nat /\ g.newlyWritten \in Nat
  BY ReadyTypes DEF Ready, WorkerInv, Running
<1>2. /\ v.inbuf \in Nat /\ v.bytesReceived \in Nat /\ v.delivered \in Nat
      /\ v.said \in Nat /\ v.parts \in Nat /\ v.outCredits \in Nat
      /\ v.granted \in Nat /\ v.credited \in Nat /\ Repeated(r) \in Nat
      /\ SessionBufferSize \in Nat /\ v.req.maxSize \in Nat \cup {-1}
  BY <1>1, WorkerNats, RepeatedNat, ClientAssumption
<1>3. /\ v.quiet => limit = -1
      /\ ~v.quiet => limit = v.outCredits
      /\ limit \in {-1} \cup Nat
  BY <1>2 DEF ReadLimit, Aside
<1> HIDE DEF limit
<1>4. /\ size \in 0..g.in
      /\ v.quiet => size = g.in
      /\ ~v.quiet => size <= v.outCredits /\ (size # g.in => size = v.outCredits)
  <2>1. CASE v.quiet
    <3>1. size = g.in
      BY <1>3, <2>1 DEF Readable
    <3> HIDE DEF size
    <3> QED BY <1>1, <2>1, <3>1
  <2>2. CASE ~v.quiet
    <3>1. size = IF v.outCredits <= g.in THEN v.outCredits ELSE g.in
      BY <1>2, <1>3, <2>2 DEF Readable, Lesser
    <3> HIDE DEF size
    <3> QED BY SMTT(30), <1>1, <1>2, <2>2, <3>1
  <2> QED BY <2>1, <2>2
<1>5. ASSUME NEW h \in ReadResponseBody(g, limit)
      PROVE  /\ h \in Request /\ Good(h) /\ Wired(h) /\ Same(h, g)
             /\ Reported(h, g) /\ h.written = g.written
             /\ h.arrived + g.in = g.arrived + h.in + size
             /\ h.arrived >= g.arrived
             /\ h.header = g.header /\ h.result = g.result
             /\ ~h.newlyReadOrEof => h.in = g.in - size
             /\ h.errorCondition = g.errorCondition
  BY ZenonT(60), <1>1, <1>3, <1>5, ReadResponseOnward, ReadGood
<1> DEFINE part(h) ==
      LET more == h.in > 0 \/ ~IsFinished(h)
          s == SayData([Charge(b, size) EXCEPT !.hreq = h,
                                               !.stuffToRead = (h.in > 0),
                                               !.bytesReceived = @ + size],
                       size, more)
      IN  IF more THEN s ELSE Finish(s, "final")
<1>6. StreamPart(b) =
        {IF TooLarge(b, size) THEN RespondError([b EXCEPT !.hreq = h]) ELSE part(h) :
           h \in ReadResponseBody(g, limit)}
  BY DEF StreamPart, limit
<1> HIDE DEF part, size
<1>7. ASSUME NEW h \in ReadResponseBody(g, limit), TooLarge(b, size)
      PROVE  LET u == RespondError([b EXCEPT !.hreq = h])
             IN  WorkerInv(u, r) /\ Promised(v, u) /\ Headed(v, u)
  <2> DEFINE e == [b EXCEPT !.hreq = h]
  <2>1. /\ h \in Request /\ h.arrived >= g.arrived
    BY <1>5
  <2>2. /\ e \in Worker /\ Aside(e, v) /\ e.hreq = h /\ e.inbuf = v.inbuf
        /\ e.bytesReceived = v.bytesReceived
    BY <2>1 DEF Worker, Aside
  <2> HIDE DEF e
  <2>3. AsideKept(e)
    BY <1>1, <2>2 DEF AsideKept, Aside, Kept
  <2>4. LET u == RespondError(e)
        IN  WorkerInv(u, r) /\ Promised(v, u) /\ NoData(u)
    BY <2>1, <2>2, <2>3, ErrorOwes
  <2> QED BY <2>4, NoDataHeaded DEF e
<1>8. ASSUME NEW h \in ReadResponseBody(g, limit), ~TooLarge(b, size)
      PROVE  LET u == part(h)
             IN  WorkerInv(u, r) /\ Promised(v, u) /\ Headed(v, u)
  <2> DEFINE more == h.in > 0 \/ ~IsFinished(h)
             left == h.in > 0
             c == Charge(b, size)
             p == [c EXCEPT !.hreq = h, !.stuffToRead = left,
                            !.bytesReceived = @ + size]
             s == SayData(p, size, more)
             paid == IF v.quiet THEN v.outCredits ELSE v.outCredits - size
  <2>1. /\ h \in Request /\ Good(h) /\ Wired(h) /\ Same(h, g)
        /\ Reported(h, g) /\ h.written = g.written
        /\ h.arrived + g.in = g.arrived + h.in + size
        /\ h.arrived >= g.arrived
        /\ h.header = g.header /\ h.result = g.result
        /\ ~h.newlyReadOrEof => h.in = g.in - size
        /\ h.errorCondition = g.errorCondition
    BY <1>5
  <2>2. /\ h.in \in Nat /\ h.arrived \in Nat /\ h.taken \in Nat
        /\ h.newlyWritten \in Nat /\ size \in Nat
    <3>1. size \in Nat
      BY <1>1, <1>4
    <3> QED BY <2>1, <3>1, SizeAssumption DEF Request
  <2>3. paid \in Nat
    <3>1. CASE v.quiet
      BY <1>2, <3>1
    <3>2. CASE ~v.quiet
      <4>1. size <= v.outCredits
        BY <1>4, <3>2
      <4>2. v.outCredits - size \in Nat
        BY <1>2, <2>2, <4>1
      <4> QED BY <3>2, <4>2
    <3> QED BY <3>1, <3>2
  <2>4. c \in Worker /\ c = [b EXCEPT !.outCredits = paid]
    <3>1. b.quiet = v.quiet /\ b.outCredits = v.outCredits
      BY DEF Aside
    <3>2. c = [b EXCEPT !.outCredits = paid]
      BY <3>1 DEF Charge
    <3> HIDE DEF c, paid
    <3> QED BY <2>3, <3>2 DEF Worker
  <2> HIDE DEF c, paid
  <2>5. v.bytesReceived + size \in Nat
    BY <1>2, <2>2
  <2>6. c.bytesReceived = v.bytesReceived
    BY <2>4 DEF Worker
  <2>7. p \in Worker
    <3>1. left \in BOOLEAN
      OBVIOUS
    <3> HIDE DEF left
    <3>2. c.bytesReceived + size \in Nat
      BY <2>5, <2>6
    <3>3. h \in Request /\ c \in Worker
      BY <2>1, <2>4
    <3> QED BY <3>1, <3>2, <3>3 DEF Worker
  <2>8. /\ p.req = v.req /\ p.state = v.state /\ p.hreq = h
        /\ p.quiet = v.quiet /\ p.outCredits = paid
        /\ p.bodySent = v.bodySent /\ (p.stuffToRead <=> h.in > 0)
        /\ p.inbuf = v.inbuf /\ p.bytesReceived = v.bytesReceived + size
        /\ p.timers = v.timers /\ p.granted = v.granted
        /\ p.credited = v.credited /\ p.uploaded = v.uploaded
        /\ p.ending = v.ending /\ p.sentHeader = v.sentHeader
        /\ p.delivered = v.delivered /\ p.said = v.said
        /\ p.parts = v.parts /\ p.out = v.out
    BY ZenonT(60), <2>4 DEF Worker, Aside
  <2>9. more \in BOOLEAN
    OBVIOUS
  <2> HIDE DEF p, more
  <2>10. /\ s \in Worker
         /\ s.req = v.req /\ s.state = v.state /\ s.hreq = h
         /\ s.quiet = v.quiet /\ s.outCredits = paid
         /\ s.bodySent = v.bodySent /\ (s.stuffToRead <=> h.in > 0)
         /\ s.inbuf = v.inbuf /\ s.bytesReceived = v.bytesReceived + size
         /\ s.timers = v.timers /\ s.granted = v.granted
         /\ s.credited = v.credited /\ s.uploaded = v.uploaded
         /\ s.ending = v.ending /\ s.sentHeader
         /\ s.delivered = v.delivered + size
         /\ s.said = v.said + 1 /\ s.parts = v.parts + 1
         /\ Tells(s, v)
    <3>1. /\ s \in Worker
          /\ s.req = p.req /\ s.state = p.state /\ s.hreq = p.hreq
          /\ s.quiet = p.quiet /\ s.outCredits = p.outCredits
          /\ s.bodySent = p.bodySent /\ s.stuffToRead = p.stuffToRead
          /\ s.inbuf = p.inbuf /\ s.bytesReceived = p.bytesReceived
          /\ s.timers = p.timers /\ s.granted = p.granted
          /\ s.credited = p.credited /\ s.uploaded = p.uploaded
          /\ s.ending = p.ending /\ s.sentHeader
          /\ s.delivered = p.delivered + size
          /\ s.said = p.said + 1 /\ s.parts = p.parts + 1
          /\ Tells(s, p)
      <4>1. p \in Worker /\ size \in Nat /\ more \in BOOLEAN
        BY <2>2, <2>7, <2>9
      <4> QED BY <4>1, SayDataFields
    <3> HIDE DEF s
    <3>2. Tells(s, v)
      BY <2>8, <3>1 DEF Tells
    <3> QED BY <1>1, <2>8, <3>1, <3>2
  <2>11. part(h) = IF more THEN s ELSE Finish(s, "final")
    BY DEF part, c, p, s, more
  <2> HIDE DEF s
  <2>12. v.inbuf = 0 /\ v.bytesReceived = v.delivered + v.inbuf
    BY <1>1 DEF Running, Counted, Kept
  <2>13. /\ s.bytesReceived = s.delivered + s.inbuf
         /\ s.bytesReceived + h.in = h.arrived
         /\ v.delivered + size >= v.delivered
         /\ v.delivered + size <= h.arrived
         /\ h.in = 0 => v.delivered + size = h.arrived
    <3>1. v.bytesReceived + g.in = g.arrived
      BY <1>1 DEF Running, Counted
    <3>2. v.bytesReceived + size + h.in = h.arrived
      <4>1. g.in \in Nat /\ g.arrived \in Nat /\ v.bytesReceived \in Nat
        BY <1>1, <1>2
      <4>2. h.arrived + g.in = g.arrived + h.in + size
        BY <2>1
      <4> QED BY <2>2, <3>1, <4>1, <4>2
    <3>3. v.delivered = v.bytesReceived
      BY <1>2, <2>12
    <3>4. v.delivered + size + 0 = v.delivered + size
      BY <1>2, <2>2
    <3>5. /\ v.delivered + size >= v.delivered
          /\ v.delivered + size <= h.arrived
          /\ h.in = 0 => v.delivered + size = h.arrived
      BY <1>2, <2>2, <3>2, <3>3
    <3> QED BY <2>10, <2>12, <3>2, <3>3, <3>4, <3>5
  <2>14. v.req.maxSize # -1 => v.bytesReceived + size <= v.req.maxSize
    <3>1. b.bytesReceived = v.bytesReceived /\ b.req = v.req
      BY DEF Aside
    <3>2. v.req.maxSize # -1 =>
            size = 0 \/ ~(v.bytesReceived + size > v.req.maxSize)
      BY <1>8, <2>2, <3>1 DEF TooLarge
    <3>3. v.req.maxSize # -1 => v.bytesReceived <= v.req.maxSize
      BY <1>1 DEF Kept
    <3> QED BY <1>2, <2>2, <3>2, <3>3
  <2>15. v.req.mode # "single"
    BY DEF OutStream
  <2>16. ~v.quiet => v.delivered + size <= v.granted
                     /\ v.delivered + size + paid = v.granted
    <3>1. ~v.quiet => v.delivered + v.outCredits = v.granted
      BY <1>1 DEF Running, Counted
    <3> QED BY <1>2, <1>4, <2>2, <3>1 DEF paid
  <2>17. CASE more
    <3>1. part(h) = s
      BY <2>11, <2>17
    <3>2. Headed(v, s)
      BY <2>10, SayDataHeaded
    <3>3. OutStream(s)
      BY <2>10 DEF OutStream
    <3>4. Kept(s)
      BY <1>1, <2>10, <2>13, <2>14, <2>15, <3>3 DEF Kept
    <3>5. Shape(s)
      BY <1>1, <2>10 DEF Shape, Deferred
    <3>6. Counted(s, r)
      <4>1. s.inbuf = 0
        BY <2>10, <2>12
      <4>2. ~s.quiet => s.delivered + s.outCredits = s.granted
        BY <2>10, <2>16
      <4>3. s.hreq.written <= s.req.body + s.uploaded
        BY <1>1, <2>1, <2>10 DEF Running, Counted
      <4>4. s.credited + h.newlyWritten
              <= SessionBufferSize + h.taken + Repeated(r)
        <5>1. v.credited + g.newlyWritten
                <= SessionBufferSize + g.taken + Repeated(r)
          BY <1>1 DEF Running, Counted
        <5>2. h.taken + g.newlyWritten = g.taken + h.newlyWritten
          BY <2>1 DEF Reported
        <5>3. v.credited + h.newlyWritten
                <= SessionBufferSize + h.taken + Repeated(r)
          <6>1. /\ g.taken \in Nat /\ g.newlyWritten \in Nat
                /\ v.credited \in Nat /\ Repeated(r) \in Nat
                /\ SessionBufferSize \in Nat
            BY <1>1, <1>2
          <6> QED BY <2>2, <5>1, <5>2, <6>1
        <5> QED BY <2>10, <5>3
      <4> QED BY <2>10, <2>13, <4>1, <4>2, <4>3, <4>4 DEF Counted
    <3>7. Signalled(s)
      <4>1. s.parts > 0
        BY <1>2, <2>10
      <4>2. h.header
        BY <1>1, <2>1 DEF Running, Signalled
      <4>3. h.in > 0 \/ h.result = "ok" => s.stuffToRead
        BY <2>10, <2>17 DEF more, IsFinished
      <4>4. s.stuffToRead /\ (s.quiet \/ s.outCredits > 0) => h.newlyReadOrEof
        <5>1. ASSUME h.in > 0, ~h.newlyReadOrEof
              PROVE  ~(v.quiet \/ paid > 0)
          <6>1. h.in = g.in - size
            BY <2>1, <5>1
          <6>2. size # g.in
            BY <1>1, <2>2, <5>1, <6>1
          <6>3. ~v.quiet /\ size = v.outCredits
            BY <1>4, <6>2
          <6>4. paid = 0
            BY <1>2, <6>3 DEF paid
          <6> QED BY <6>3, <6>4
        <5> QED BY <2>10, <5>1
      <4> QED BY <2>10, <3>3, <4>1, <4>2, <4>3, <4>4 DEF Signalled
    <3>8. Running(s, r)
      BY <1>1, <2>1, <2>10, <3>6, <3>7 DEF Running, Open, Same
    <3>9. WorkerInv(s, r)
      BY <2>10, <3>4, <3>5, <3>8 DEF WorkerInv
    <3>10. Promised(v, s)
      <4>1. ArrivedOf(s) = h.arrived
        BY <2>1, <2>10, NoneAssumption DEF ArrivedOf
      <4>2. AllowedOf(s) = (IF ~v.quiet THEN v.granted ELSE h.arrived)
            /\ AllowedOf(v) = (IF ~v.quiet THEN v.granted ELSE g.arrived)
        BY <1>1, <2>10, <3>3, <4>1 DEF AllowedOf
      <4>3. v.granted >= v.granted
        BY <1>2
      <4>4. ArrivedOf(s) >= ArrivedOf(v) /\ AllowedOf(s) >= AllowedOf(v)
        BY <1>1, <2>1, <4>1, <4>2, <4>3
      <4>5. s.delivered <= ArrivedOf(s) /\ s.delivered <= AllowedOf(s)
        BY <2>10, <2>13, <2>16, <4>1, <4>2
      <4>6. s.said = v.said + 1 /\ s.delivered >= v.delivered /\ s.ending = "no"
        BY <1>1, <2>10, <2>13
      <4> QED BY <1>1, <4>4, <4>5, <4>6 DEF Promised
    <3> QED BY <3>1, <3>2, <3>9, <3>10
  <2>18. CASE ~more
    <3> DEFINE u == Finish(s, "final")
    <3>1. part(h) = u
      BY <2>11, <2>18
    <3>2. /\ u \in Worker
          /\ u.state = "Stopped" /\ u.hreq = None /\ u.timers = {}
          /\ ~u.updateTimer /\ u.ending = "final"
          /\ u.arrived = ArrivedOf(s)
          /\ u.req = s.req /\ u.quiet = s.quiet /\ u.out = s.out
          /\ u.said = s.said /\ u.parts = s.parts
          /\ u.delivered = s.delivered /\ u.inbuf = s.inbuf
          /\ u.bytesReceived = s.bytesReceived /\ u.granted = s.granted
          /\ u.credited = s.credited /\ u.uploaded = s.uploaded
      BY <2>10, FinishFields
    <3> HIDE DEF u
    <3>3. Headed(v, u)
      BY <2>10, <3>2, SayDataHeaded DEF Tells
    <3>4. OutStream(u)
      BY <2>10, <3>2 DEF OutStream
    <3>5. Kept(u)
      BY <1>1, <2>10, <2>13, <2>14, <2>15, <3>2, <3>4 DEF Kept
    <3>6. Shape(u)
      BY <3>2 DEF Shape, Deferred
    <3>7. WorkerInv(u, r)
      BY <3>2, <3>5, <3>6 DEF WorkerInv
    <3>8. Promised(v, u)
      <4>1. ArrivedOf(u) = h.arrived
        BY <2>1, <2>10, <3>2, NoneAssumption DEF ArrivedOf
      <4>2. AllowedOf(u) = (IF ~v.quiet THEN v.granted ELSE h.arrived)
            /\ AllowedOf(v) = (IF ~v.quiet THEN v.granted ELSE g.arrived)
        BY <1>1, <2>10, <3>2, <3>4, <4>1 DEF AllowedOf
      <4>3. v.granted >= v.granted
        BY <1>2
      <4>4. ArrivedOf(u) >= ArrivedOf(v) /\ AllowedOf(u) >= AllowedOf(v)
        BY <1>1, <2>1, <4>1, <4>2, <4>3
      <4>5. u.delivered <= ArrivedOf(u) /\ u.delivered <= AllowedOf(u)
        BY <2>10, <2>13, <2>16, <3>2, <4>1, <4>2
      <4>6. u.said = v.said + 1 /\ u.delivered >= v.delivered /\ u.ending = "final"
        BY <2>10, <2>13, <3>2
      <4>7. u.delivered = ArrivedOf(u)
        <5>1. h.in = 0
          BY <2>2, <2>18 DEF more
        <5> QED BY <2>10, <2>13, <3>2, <4>1, <5>1
      <4> QED BY <1>1, <4>4, <4>5, <4>6, <4>7 DEF Promised
    <3> QED BY <3>1, <3>3, <3>7, <3>8
  <2> QED BY <2>17, <2>18
<1> QED BY <1>6, <1>7, <1>8

\* The update timer.
LEMMA DoUpdateOwes ==
  ASSUME NEW r \in Nat, NEW v, WorkerInv(v, r), v.out = <<>>, v.updateTimer
  PROVE  \A u \in WorkerDoUpdate(v) :
           WorkerInv(u, r) /\ Promised(v, u) /\ Headed(v, u)
<1> DEFINE s == [v EXCEPT !.updateTimer = FALSE]
           b == [s EXCEPT !.stuffToRead = FALSE]
<1>1. /\ v \in Worker /\ Kept(v) /\ Shape(v) /\ v.ending = "no"
      /\ v.state \in {"Started"} \cup Deferred
  BY DEF WorkerInv, Shape, Worker
<1>2. /\ s \in Worker /\ Aside(s, v) /\ s.hreq = v.hreq /\ s.inbuf = v.inbuf
      /\ s.bytesReceived = v.bytesReceived /\ s.stuffToRead = v.stuffToRead
      /\ ~s.updateTimer /\ s.arrived = v.arrived /\ s.outcome = v.outcome
  BY <1>1 DEF Worker, Aside
<1>3. /\ b \in Worker /\ Aside(b, v) /\ b.hreq = v.hreq /\ b.inbuf = v.inbuf
      /\ b.bytesReceived = v.bytesReceived
  BY <1>1 DEF Worker, Aside
<1>4. OutStream(s) <=> OutStream(v)
  BY <1>2 DEF OutStream, Aside
<1>5. Kept(s)
  BY <1>1, <1>2, <1>4 DEF Kept, Aside
<1>6. CASE v.state = "Started" /\ ~v.stuffToRead
  <2>1. WorkerDoUpdate(v) = {s}
    BY <1>6 DEF WorkerDoUpdate, Deferred
  <2> HIDE DEF s
  <2>2. Ready(v, r)
    BY <1>6 DEF Ready
  <2>3. Running(v, r) /\ v.hreq \in Request /\ v.hreq.arrived >= v.hreq.arrived
    BY <2>2, ReadyTypes DEF Ready, WorkerInv
  <2>4. AsideKept(s)
    BY <1>1, <1>2 DEF AsideKept, Aside, Kept
  <2>5. After(v, s) /\ s.ending = "no" /\ s.state = "Started" /\ s.out = <<>>
    BY <1>2, <2>2, <2>3, <2>4, AsideAfter
  <2>6. Signalled(s)
    BY <1>2, <1>4, <1>6, <2>3 DEF Signalled, Aside, Running
  <2>7. Counted(s, r)
    BY <1>2, <1>4, <2>3 DEF Counted, Aside, Running
  <2>8. Running(s, r)
    BY <1>2, <2>3, <2>6, <2>7 DEF Running, Aside
  <2>9. Shape(s)
    BY <2>5 DEF Shape, Deferred
  <2>10. WorkerInv(s, r)
    BY <1>2, <1>5, <2>8, <2>9 DEF WorkerInv
  <2>11. NoData(s)
    BY <2>5 DEF NoData
  <2>12. Promised(v, s)
    BY <1>1, <1>2, <2>5, AfterPromised
  <2> QED BY <2>1, <2>10, <2>11, <2>12, NoDataHeaded
<1>7. CASE v.state = "Started" /\ v.stuffToRead
  <2>1. Ready(v, r)
    BY <1>7 DEF Ready
  <2>2. CASE OutStream(v)
    <3>1. WorkerDoUpdate(v) = StreamPart(b)
      BY <1>7, <2>2 DEF WorkerDoUpdate, Deferred
    <3> HIDE DEF b
    <3> QED BY <1>3, <1>7, <2>1, <2>2, <3>1, StreamPartOwes
  <2>3. CASE ~OutStream(v)
    <3>1. WorkerDoUpdate(v) = {CollectedResponse(b)}
      BY <1>7, <2>3 DEF WorkerDoUpdate, Deferred
    <3> HIDE DEF b
    <3> QED BY <1>3, <1>7, <2>1, <2>3, <3>1, CollectedOwes
  <2> QED BY <2>2, <2>3
<1>8. CASE v.state \in Deferred
  <2>1. WorkerDoUpdate(v) = {IF v.state = "Finished" THEN Finish(s, "silent")
                             ELSE IF v.state = "Cancel" THEN RespondCancel(s)
                             ELSE RespondError(s)}
    BY <1>8 DEF WorkerDoUpdate, Deferred
  <2> HIDE DEF s
  <2>2. s.ending = "no" /\ s.state # "NotStarted" /\ s.out = <<>>
    BY <1>1, <1>2, <1>8 DEF Aside, Deferred
  <2>3. After(v, s)
    <3>1. ArrivedOf(s) = ArrivedOf(v) /\ AllowedOf(s) = AllowedOf(v)
      BY <1>2, <1>4 DEF ArrivedOf, AllowedOf, Aside
    <3>2. ArrivedOf(v) >= ArrivedOf(v) /\ AllowedOf(v) >= AllowedOf(v)
      BY <1>1, WorkerNats
    <3> QED BY <1>1, <1>2, <1>4, <3>1, <3>2 DEF After, Aside
  <2>4. ASSUME NEW u, WorkerInv(u, r), Promised(s, u), NoData(u)
        PROVE  WorkerInv(u, r) /\ Promised(v, u) /\ Headed(v, u)
    <3>1. u \in Worker
      BY <2>4 DEF WorkerInv
    <3> QED BY <1>1, <1>2, <2>3, <2>4, <3>1, PromisedAfter, NoDataHeaded
  <2>5. CASE v.state = "Finished"
    <3>1. s.req.mode = "stream"
      BY <1>1, <1>2, <2>5 DEF Shape, Aside
    <3> DEFINE u == Finish(s, "silent")
    <3>2. WorkerInv(u, r) /\ Promised(s, u) /\ NoData(u)
      BY <1>2, <1>5, <2>2, <3>1, SilentOwes
    <3> HIDE DEF u
    <3>3. WorkerInv(u, r) /\ Promised(v, u) /\ Headed(v, u)
      BY <2>4, <3>2
    <3> QED BY <2>1, <2>5, <3>3 DEF u
  <2>6. CASE v.state = "Cancel"
    <3> DEFINE u == RespondCancel(s)
    <3>1. WorkerInv(u, r) /\ Promised(s, u) /\ NoData(u)
      BY <1>2, <1>5, <2>2, RespondOwes DEF RespondCancel
    <3> HIDE DEF u
    <3>2. WorkerInv(u, r) /\ Promised(v, u) /\ Headed(v, u)
      BY <2>4, <3>1
    <3> QED BY <2>1, <2>6, <3>2 DEF u
  <2>7. CASE v.state = "Error"
    <3> DEFINE u == RespondError(s)
    <3>1. WorkerInv(u, r) /\ Promised(s, u) /\ NoData(u)
      BY <1>2, <1>5, <2>2, RespondOwes DEF RespondError
    <3> HIDE DEF u
    <3>2. WorkerInv(u, r) /\ Promised(v, u) /\ Headed(v, u)
      BY <2>4, <3>1
    <3> QED BY <2>1, <2>7, <3>2 DEF u
  <2> QED BY <1>8, <2>5, <2>6, <2>7 DEF Deferred
<1> QED BY <1>1, <1>6, <1>7, <1>8

----------------------------------------------------------------------------
\* Lemmas about the start of a session.

\* The request that a session starts with.
LEMMA StartRequestGood ==
  ASSUME NEW req \in ZRequestType
  PROVE  \A h \in StartRequest(req) :
           /\ Good(h) /\ Sound(h)
           /\ Onward(h, NewRequest) /\ Reported(h, NewRequest)
           /\ h.written <= req.body
           /\ req.more => Open(h)
<1> DEFINE might == req.body > 0 \/ req.more
           first == UNION {IF req.body > 0 THEN WriteBody(h, req.body) ELSE {h} :
                             h \in Start(req.method, might)}
           all == UNION {IF req.more \/ ~might THEN {g} ELSE EndBody(g) : g \in first}
           N(h) == /\ h \in Request /\ Good(h) /\ Sound(h)
                   /\ Onward(h, NewRequest) /\ Reported(h, NewRequest)
                   /\ h.written <= req.body
<1>1. /\ req.body \in Nat /\ req.more \in BOOLEAN /\ req.method \in Methods
      /\ might \in BOOLEAN
  BY DEF ZRequestType
<1>2. NewRequest \in Request /\ NewRequest.written = 0
  BY NewGood DEF Good, NewRequest
<1>3. StartRequest(req) = all
  BY DEF StartRequest
<1>4. ASSUME NEW h \in Start(req.method, might)
      PROVE  N(h) /\ h.written = 0 /\ (might => Open(h))
  <2> HIDE DEF might
  <2>1. Good(h) /\ h.willWriteBody = might /\ ~h.outFinished
    BY <1>1, <1>4, StartGood
  <2>2. Moved(h, NewRequest)
    BY <1>1, <1>4, StartOnward
  <2>3. h.written = 0 /\ h.written <= req.body
    BY <1>1, <1>2, <2>2 DEF Moved
  <2> QED BY <2>1, <2>2, <2>3 DEF Moved, Sound, Open
<1>5. ASSUME NEW g \in first
      PROVE  N(g) /\ (might => Open(g))
  <2>1. PICK h \in Start(req.method, might) :
          g \in IF req.body > 0 THEN WriteBody(h, req.body) ELSE {h}
    BY <1>5
  <2>2. N(h) /\ h.written = 0 /\ (might => Open(h))
    BY <1>4, <2>1
  <2>3. CASE req.body > 0
    <3>1. Open(h) /\ g \in WriteBody(h, req.body)
      BY <2>1, <2>2, <2>3
    <3>2. Good(g) /\ Open(g)
      BY <1>1, <2>2, <3>1, WriteBodyGood
    <3>3. /\ g \in Request /\ Wired(g) /\ Onward(g, h) /\ Reported(g, h)
          /\ g.written <= h.written + req.body
      BY <1>1, <2>2, <3>1, WriteBodyOnward
    <3>4. Onward(g, NewRequest) /\ Reported(g, NewRequest)
      BY <1>2, <2>2, <3>3, OnwardTrans, ReportedTrans
    <3>5. g.written <= req.body
      BY <1>1, <2>2, <3>3
    <3> QED BY <3>2, <3>3, <3>4, <3>5 DEF Sound
  <2>4. CASE ~(req.body > 0)
    BY <2>1, <2>2, <2>4
  <2> QED BY <2>3, <2>4
<1>6. ASSUME NEW f \in all
      PROVE  N(f) /\ (req.more => Open(f))
  <2> HIDE DEF first
  <2>1. PICK g \in first : f \in IF req.more \/ ~might THEN {g} ELSE EndBody(g)
    BY <1>6
  <2>2. N(g) /\ (might => Open(g))
    BY <1>5, <2>1
  <2>3. CASE req.more \/ ~might
    BY <2>1, <2>2, <2>3
  <2>4. CASE ~req.more /\ might
    <3>1. Open(g) /\ f \in EndBody(g)
      BY <2>1, <2>2, <2>4
    <3>2. Good(f) /\ Moved(f, g)
      BY <2>2, <3>1, EndBodyGood, EndBodyOnward DEF Open
    <3>3. f \in Request /\ Onward(f, NewRequest) /\ Reported(f, NewRequest)
      BY <1>2, <2>2, <3>2, OnwardTrans, ReportedTrans DEF Moved
    <3>4. f.written <= req.body
      BY <2>2, <3>2 DEF Moved
    <3> QED BY <2>4, <3>2, <3>3, <3>4 DEF Moved, Sound
  <2> QED BY <2>3, <2>4
<1> QED BY <1>3, <1>6

\* The fields that a worker has from the start.
Fresh(v) ==
  /\ v.state = "NotStarted" /\ v.hreq = None /\ v.ending = "no" /\ v.out = <<>>
  /\ v.timers = {} /\ ~v.updateTimer /\ ~v.stuffToRead /\ ~v.sentHeader
  /\ v.said = 0 /\ v.parts = 0 /\ v.delivered = 0 /\ v.arrived = 0
  /\ v.inbuf = 0 /\ v.bytesReceived = 0 /\ v.uploaded = 0 /\ v.credited = 0
  /\ v.granted = 0 /\ v.outCredits = 0

LEMMA FreshWorker ==
  ASSUME NEW req \in ZRequest
  PROVE  /\ NewWorker(req) \in Worker /\ Fresh(NewWorker(req))
         /\ NewWorker(req).req = req
<1>1. req.seq \in Int
  BY RequestAssumption DEF ZRequestType
<1>2. <<>> \in Seq(Message)
  OBVIOUS
<1>3. NewWorker(req) \in Worker
  BY <1>1, <1>2 DEF NewWorker, Worker
<1> QED BY <1>3 DEF NewWorker, Fresh

LEMMA NewWorkerInv ==
  ASSUME NEW req \in ZRequest, NEW r
  PROVE  WorkerInv(NewWorker(req), r)
<1> DEFINE v == NewWorker(req)
<1>1. v \in Worker /\ Fresh(v) /\ v.req = req
  BY FreshWorker
<1>2. v = NewWorker(v.req)
  BY <1>1
<1>3. req \in ZRequestType /\ (req.maxSize # -1 => 0 <= req.maxSize)
  BY RequestAssumption DEF ZRequestType
<1> HIDE DEF v
<1>4. Kept(v)
  <2>1. 0 + 0 = 0 /\ 0 <= 0
    OBVIOUS
  <2> QED BY <1>1, <1>3, <2>1 DEF Kept, Fresh
<1>5. Shape(v)
  BY <1>1, <1>2 DEF Shape, Fresh, Deferred
<1>6. WorkerInv(v, r)
  BY <1>1, <1>4, <1>5 DEF WorkerInv, Fresh
<1> QED BY <1>6 DEF v

\* A session that has its request is ready, before it says anything.
LEMMA StartedReady ==
  ASSUME NEW r \in Nat, NEW v \in Worker, Fresh(v), ~Rejected(v.req),
         NEW h \in StartRequest(v.req), NEW x \in Worker,
         x.hreq = h, x.req = v.req, x.state = "Started",
         x.bodySent <=> ~v.req.more, x.timers = StartTimers(v.req),
         x.outCredits = x.granted, x.ending = v.ending, x.out = v.out,
         x.updateTimer = v.updateTimer, x.stuffToRead = v.stuffToRead,
         x.sentHeader = v.sentHeader, x.said = v.said, x.parts = v.parts,
         x.delivered = v.delivered, x.inbuf = v.inbuf,
         x.bytesReceived = v.bytesReceived, x.uploaded = v.uploaded,
         x.credited = v.credited
  PROVE  /\ Ready(x, r) /\ After(v, x)
         /\ \A n \in 0..SessionBufferSize :
              x.credited + n + x.hreq.newlyWritten
                <= SessionBufferSize + x.hreq.taken + Repeated(r)
<1> DEFINE req == v.req
<1>1. /\ req \in ZRequestType /\ req.body \in Nat /\ x.granted \in Nat
      /\ req.maxSize # -1 => 0 <= req.maxSize
  <2>1. req \in ZRequestType /\ req.maxSize \in Nat \cup {-1}
    BY WorkerNats
  <2> QED BY <2>1, WorkerNats
<1>2. /\ Good(h) /\ Sound(h) /\ Onward(h, NewRequest) /\ Reported(h, NewRequest)
      /\ h.written <= req.body /\ (req.more => Open(h))
  BY <1>1, StartRequestGood
<1>3. /\ h \in Request /\ h # None /\ Wired(h)
      /\ h.in \in Nat /\ h.arrived \in Nat /\ h.written \in Nat
      /\ h.taken \in Nat /\ h.newlyWritten \in Nat
      /\ SessionBufferSize \in Nat /\ Repeated(r) \in Nat
  <2>1. h \in Request /\ Wired(h)
    BY <1>2 DEF Sound
  <2> QED BY <2>1, NoneAssumption, SizeAssumption, ClientAssumption, RepeatedNat
         DEF Request
<1>4. /\ h.arrived = h.in /\ h.taken = h.newlyWritten
      /\ h.in > 0 \/ h.result = "ok" => h.newlyReadOrEof
  <2>1. h.arrived + 0 = 0 + h.in /\ h.taken + 0 = 0 + h.newlyWritten
    BY <1>2 DEF Onward, Reported, NewRequest
  <2>2. ~h.newlyReadOrEof => h.in = 0 /\ h.result = "none"
    BY <1>2 DEF Onward, NewRequest
  <2> QED BY <1>3, <2>1, <2>2
<1>5. OutStream(x) <=> OutStream(v)
  BY DEF OutStream
<1>6. \A n \in 0..SessionBufferSize :
        x.credited + n + h.newlyWritten
          <= SessionBufferSize + h.taken + Repeated(r)
  <2>1. x.credited = 0
    BY DEF Fresh
  <2> QED BY <1>3, <1>4, <2>1
<1>7. Counted(x, r)
  <2>1. x.credited + 0 + h.newlyWritten
          <= SessionBufferSize + h.taken + Repeated(r)
    BY <1>3, <1>6
  <2>2. /\ 0 + h.in = h.arrived /\ 0 + x.granted = x.granted
        /\ h.written <= req.body + 0 /\ 0 + 0 + h.newlyWritten = 0 + h.newlyWritten
    BY <1>1, <1>2, <1>3, <1>4
  <2> QED BY <2>1, <2>2 DEF Counted, Fresh
<1>8. Signalled(x)
  BY <1>4 DEF Signalled, Fresh
<1>9. Running(x, r)
  <2>1. req.mode = "single" =>
          x.bodySent /\ x.timers \subseteq {"activity", "session"}
    BY DEF Rejected, StartTimers
  <2> QED BY <1>2, <1>3, <1>7, <1>8, <2>1 DEF Running
<1>10. Kept(x)
  <2>1. 0 + 0 = 0 /\ 0 <= 0
    OBVIOUS
  <2> QED BY <1>1, <2>1 DEF Kept, Fresh
<1>11. Shape(x)
  BY DEF Shape, Fresh, Deferred
<1>12. Ready(x, r)
  BY <1>9, <1>10, <1>11 DEF Ready, WorkerInv, Fresh
<1>13. After(v, x)
  <2>1. ArrivedOf(v) = 0 /\ AllowedOf(v) = 0
    BY DEF ArrivedOf, AllowedOf, Fresh
  <2>2. ArrivedOf(x) >= 0 /\ AllowedOf(x) >= 0
    BY WorkerNats
  <2> QED BY <1>5, <2>1, <2>2 DEF After, Fresh
<1> QED BY <1>6, <1>12, <1>13

LEMMA StartOwes ==
  ASSUME NEW r \in Nat, NEW v, WorkerInv(v, r), v.state = "NotStarted"
  PROVE  \A u \in WorkerStart(v, v.req) :
           WorkerInv(u, r) /\ Promised(v, u) /\ NoData(u)
<1> DEFINE req == v.req
           quiet == /\ req.valid # "bad-uri" /\ req.mode = "stream"
                    /\ req.address # "both"
           s == [v EXCEPT !.state = "Started", !.quiet = quiet]
           credits == IF req.credits # -1 THEN req.credits ELSE 0
           started(h) == [s EXCEPT !.hreq = h, !.bodySent = ~req.more,
                                   !.timers = StartTimers(req),
                                   !.outCredits = credits, !.granted = credits]
           window == IF req.more THEN SessionBufferSize ELSE 0
           hello == Plain(IF req.more THEN "credit" ELSE "keep-alive", window)
<1>1. /\ v \in Worker /\ Kept(v) /\ v = NewWorker(req) /\ req \in ZRequest
  BY DEF WorkerInv, Shape, Worker
<1>2. Fresh(v)
  BY <1>1, FreshWorker
<1>3. req \in ZRequestType /\ credits \in Nat /\ req.more \in BOOLEAN
  BY <1>1, RequestAssumption DEF ZRequestType
<1>4. /\ s \in Worker /\ s.req = req /\ s.state = "Started" /\ s.hreq = None
      /\ s.ending = v.ending /\ s.out = v.out /\ s.said = v.said
      /\ s.parts = v.parts /\ s.delivered = v.delivered /\ s.inbuf = v.inbuf
      /\ s.bytesReceived = v.bytesReceived /\ s.uploaded = v.uploaded
      /\ s.credited = v.credited /\ s.granted = v.granted
      /\ s.arrived = v.arrived /\ s.updateTimer = v.updateTimer
      /\ s.stuffToRead = v.stuffToRead /\ s.sentHeader = v.sentHeader
  <2>1. quiet \in BOOLEAN
    OBVIOUS
  <2> HIDE DEF quiet
  <2> QED BY ZenonT(60), <1>1, <1>2, <2>1 DEF Worker, Fresh
<1>5. OutStream(s) <=> OutStream(v)
  BY <1>4 DEF OutStream
<1>6. WorkerStart(v, req) =
        IF Rejected(req) THEN {Defer(s, "Error")}
        ELSE IF req.mode = "single" THEN {started(h) : h \in StartRequest(req)}
        ELSE {[WriteResponse(started(h), hello) EXCEPT !.credited = window] :
                h \in StartRequest(req)}
  BY DEF WorkerStart
<1> HIDE DEF s, credits
<1>7. CASE Rejected(req)
  <2>1. Kept(s)
    BY <1>1, <1>2, <1>4, <1>5 DEF Kept, Fresh
  <2> DEFINE u == Defer(s, "Error")
  <2>2. WorkerInv(u, r) /\ Promised(s, u) /\ NoData(u)
    <3>1. s.ending = "no" /\ s.state # "NotStarted" /\ s.out = <<>>
      BY <1>2, <1>4 DEF Fresh
    <3> QED BY <1>4, <2>1, <3>1, DeferOwes DEF Deferred
  <2>3. After(v, s)
    <3>1. ArrivedOf(v) = 0 /\ AllowedOf(v) = 0
      BY <1>2 DEF ArrivedOf, AllowedOf, Fresh
    <3>2. ArrivedOf(s) >= 0 /\ AllowedOf(s) >= 0
      BY <1>4, WorkerNats
    <3> QED BY <1>2, <1>4, <1>5, <3>1, <3>2 DEF After, Fresh
  <2> HIDE DEF u
  <2>4. Promised(v, u)
    BY <1>1, <1>4, <2>2, <2>3, PromisedAfter DEF WorkerInv
  <2> QED BY <1>6, <1>7, <2>2, <2>4 DEF u
<1>8. ASSUME ~Rejected(req), NEW h \in StartRequest(req)
      PROVE  LET x == started(h)
             IN  /\ Ready(x, r) /\ After(v, x) /\ x.credited = 0
                 /\ x.req = req
                 /\ \A n \in 0..SessionBufferSize :
                      x.credited + n + x.hreq.newlyWritten
                        <= SessionBufferSize + x.hreq.taken + Repeated(r)
  <2> DEFINE x == started(h)
             bodySent == ~req.more
  <2>1. h \in Request
    BY <1>3, <1>8, StartRequestGood DEF Good
  <2>2. bodySent \in BOOLEAN
    OBVIOUS
  <2>3. StartTimers(req) \subseteq {"activity", "session", "expire", "keepAlive"}
    BY DEF StartTimers
  <2> HIDE DEF bodySent
  <2>4. x = [s EXCEPT !.hreq = h, !.bodySent = bodySent,
                      !.timers = StartTimers(req),
                      !.outCredits = credits, !.granted = credits]
    BY DEF bodySent
  <2> HIDE DEF x
  <2>5. x \in Worker
    BY ZenonT(60), <1>3, <1>4, <2>1, <2>2, <2>3, <2>4 DEF Worker
  <2>6. /\ x.hreq = h /\ x.req = req /\ x.state = "Started"
        /\ x.bodySent = bodySent /\ x.timers = StartTimers(req)
        /\ x.outCredits = credits /\ x.granted = credits
        /\ x.ending = v.ending /\ x.out = v.out
        /\ x.updateTimer = v.updateTimer /\ x.stuffToRead = v.stuffToRead
        /\ x.sentHeader = v.sentHeader /\ x.said = v.said /\ x.parts = v.parts
        /\ x.delivered = v.delivered /\ x.inbuf = v.inbuf
        /\ x.bytesReceived = v.bytesReceived /\ x.uploaded = v.uploaded
        /\ x.credited = v.credited
    BY <1>4, <2>4 DEF Worker
  <2>7. x.bodySent <=> ~req.more
    BY <2>6 DEF bodySent
  <2>8. x.credited = 0
    BY <1>2, <2>6 DEF Fresh
  <2>9. /\ Ready(x, r) /\ After(v, x)
        /\ \A n \in 0..SessionBufferSize :
             x.credited + n + x.hreq.newlyWritten
               <= SessionBufferSize + x.hreq.taken + Repeated(r)
    BY <1>1, <1>2, <1>8, <2>5, <2>6, <2>7, StartedReady
  <2> QED BY <2>6, <2>8, <2>9 DEF x
<1> HIDE DEF started
<1>9. CASE ~Rejected(req) /\ req.mode = "single"
  <2>1. ASSUME NEW h \in StartRequest(req)
        PROVE  LET x == started(h)
               IN  WorkerInv(x, r) /\ Promised(v, x) /\ NoData(x)
    <3> DEFINE x == started(h)
    <3>1. Ready(x, r) /\ After(v, x)
      BY <1>8, <1>9, <2>1
    <3> HIDE DEF x
    <3>2. x \in Worker /\ x.ending = "no" /\ x.out = <<>> /\ WorkerInv(x, r)
      BY <3>1, ReadyTypes DEF Ready, WorkerInv
    <3>3. Promised(v, x) /\ NoData(x)
      BY <1>1, <3>1, <3>2, AfterPromised DEF NoData
    <3> QED BY <3>2, <3>3 DEF x
  <2> QED BY <1>6, <1>9, <2>1
<1>10. CASE ~Rejected(req) /\ req.mode # "single"
  <2>1. window \in 0..SessionBufferSize /\ window \in Nat
    BY ClientAssumption
  <2>2. hello \in Message /\ hello.type # "data"
    BY <2>1 DEF Plain, Message
  <2> HIDE DEF window, hello
  <2>3. ASSUME NEW h \in StartRequest(req)
        PROVE  LET z == [WriteResponse(started(h), hello) EXCEPT !.credited = window]
               IN  WorkerInv(z, r) /\ Promised(v, z) /\ NoData(z)
    <3> DEFINE x == started(h)
               y == WriteResponse(x, hello)
               z == [y EXCEPT !.credited = @ + window]
    <3>1. /\ Ready(x, r) /\ After(v, x) /\ x.credited = 0 /\ x.req = req
          /\ x.credited + window + x.hreq.newlyWritten
               <= SessionBufferSize + x.hreq.taken + Repeated(r)
      BY <1>8, <1>10, <2>1, <2>3
    <3>2. WorkerInv(z, r) /\ Promised(x, z) /\ NoData(z)
      BY <1>10, <2>1, <2>2, <3>1, SpeakOwes
    <3> HIDE DEF x
    <3>3. x \in Worker
      BY <3>1 DEF Ready, WorkerInv
    <3>4. y.credited = 0
      BY <2>2, <3>1, <3>3, WriteResponseFields DEF Unsaid
    <3>5. z = [y EXCEPT !.credited = window]
      <4>1. y.credited + window = window
        BY <2>1, <3>4
      <4> HIDE DEF y
      <4> QED BY <4>1
    <3> HIDE DEF z
    <3>6. Promised(v, z)
      BY <1>1, <3>1, <3>2, <3>3, PromisedAfter DEF WorkerInv
    <3> QED BY <3>2, <3>5, <3>6 DEF x, y
  <2> QED BY <1>6, <1>10, <2>3
<1> QED BY <1>7, <1>9, <1>10

----------------------------------------------------------------------------
\* A step starts from a worker that has nothing left to hand over.
LEMMA QuietOwes ==
  ASSUME NEW x, NEW r, WorkerInv(x, r)
  PROVE  LET v == [x EXCEPT !.out = <<>>]
         IN  /\ WorkerInv(v, r) /\ v.out = <<>>
             /\ v.req = x.req /\ v.state = x.state /\ v.hreq = x.hreq
             /\ v.timers = x.timers /\ v.updateTimer = x.updateTimer
             /\ v.ending = x.ending /\ v.uploaded = x.uploaded
             /\ v.credited = x.credited
             /\ \A u : Promised(v, u) /\ Headed(v, u) =>
                         Promised(x, u) /\ Headed(x, u)
<1> DEFINE v == [x EXCEPT !.out = <<>>]
<1>1. x \in Worker
  BY DEF WorkerInv
<1>2. /\ v \in Worker /\ v.out = <<>>
      /\ v.req = x.req /\ v.state = x.state /\ v.hreq = x.hreq
      /\ v.quiet = x.quiet /\ v.outCredits = x.outCredits
      /\ v.sentHeader = x.sentHeader /\ v.bodySent = x.bodySent
      /\ v.stuffToRead = x.stuffToRead /\ v.inbuf = x.inbuf
      /\ v.bytesReceived = x.bytesReceived /\ v.timers = x.timers
      /\ v.updateTimer = x.updateTimer /\ v.delivered = x.delivered
      /\ v.arrived = x.arrived /\ v.granted = x.granted
      /\ v.credited = x.credited /\ v.uploaded = x.uploaded
      /\ v.outcome = x.outcome /\ v.ending = x.ending
      /\ v.said = x.said /\ v.parts = x.parts
  <2>1. <<>> \in Seq(Message)
    OBVIOUS
  <2> QED BY <1>1, <2>1 DEF Worker
<1>3. x.state = "NotStarted" => v = x
  <2> SUFFICES ASSUME x.state = "NotStarted" PROVE v = x
    OBVIOUS
  <2>1. x = NewWorker(x.req)
    BY DEF WorkerInv, Shape
  <2>2. x.out = <<>>
    BY <1>1, <2>1, FreshWorker DEF Worker, Fresh
  <2> QED BY <1>1, <2>2 DEF Worker
<1> HIDE DEF v
<1>4. OutStream(v) <=> OutStream(x)
  BY <1>2 DEF OutStream
<1>5. Kept(v)
  BY <1>2, <1>4 DEF WorkerInv, Kept
<1>6. Shape(v)
  BY <1>2, <1>3 DEF WorkerInv, Shape, Deferred
<1>7. v.state = "Started" => Running(v, r)
  <2>1. Running(x, r) => Counted(v, r)
    BY <1>2, <1>4 DEF Running, Counted
  <2>2. Running(x, r) => Signalled(v)
    BY <1>2, <1>4 DEF Running, Signalled
  <2> QED BY <1>2, <2>1, <2>2 DEF WorkerInv, Running
<1>8. ASSUME NEW u, Promised(v, u), Headed(v, u)
      PROVE  Promised(x, u) /\ Headed(x, u)
  <2>1. ArrivedOf(v) = ArrivedOf(x) /\ AllowedOf(v) = AllowedOf(x)
    BY <1>2, <1>4 DEF ArrivedOf, AllowedOf
  <2> QED BY <1>2, <1>4, <1>8, <2>1 DEF Promised, Headed
<1>9. WorkerInv(v, r)
  BY <1>2, <1>5, <1>6, <1>7 DEF WorkerInv
<1> QED BY <1>2, <1>8, <1>9 DEF v

\* The invariant of the specification.
WInv ==
  /\ WorkerInv(w, rewinds)
  /\ writes \in 0..MaxWrites /\ keepAlives \in 0..MaxKeepAlives
  /\ rewinds \in 0..MaxRewinds

\* What a step keeps and what it is.
Step == WorkerInv(w', rewinds') /\ Promised(w, w') /\ Headed(w, w')

LEMMA StartStep == WInv /\ ClientStart => Step
<1> SUFFICES ASSUME WInv, ClientStart PROVE Step
  OBVIOUS
<1>1. rewinds \in Nat /\ WorkerInv(w, rewinds)
  BY BoundAssumption DEF WInv
<1>2. /\ w.state = "NotStarted" /\ rewinds' = rewinds
      /\ w' \in WorkerStart(w, w.req)
  BY DEF ClientStart, Bounds
<1>3. WorkerInv(w', rewinds) /\ Promised(w, w') /\ NoData(w')
  BY <1>1, <1>2, StartOwes
<1> QED BY <1>2, <1>3, NoDataHeaded DEF Step

\* The step that follows from a quiet worker.
LEMMA QuietStep ==
  ASSUME NEW x, NEW r, WorkerInv(x, r), NEW u, NEW q,
         LET v == [x EXCEPT !.out = <<>>]
         IN  WorkerInv(u, q) /\ Promised(v, u) /\ NoData(u)
  PROVE  WorkerInv(u, q) /\ Promised(x, u) /\ Headed(x, u)
  BY QuietOwes, NoDataHeaded

LEMMA WriteStep ==
  ASSUME NEW inSequence \in BOOLEAN, NEW more \in BOOLEAN, NEW type,
         NEW size \in Pieces, NEW credits \in Credits(w.req),
         WInv, ClientWrite(inSequence, type, size, more, credits)
  PROVE  Step
<1> DEFINE v == [w EXCEPT !.out = <<>>]
<1>1. rewinds \in Nat /\ WorkerInv(w, rewinds)
  BY BoundAssumption DEF WInv
<1>2. /\ WorkerInv(v, rewinds) /\ v.out = <<>> /\ v.req = w.req
      /\ v.state = w.state /\ v.ending = w.ending
      /\ v.uploaded = w.uploaded /\ v.credited = w.credited
  BY <1>1, QuietOwes
<1>3. /\ w.state # "NotStarted" /\ w.ending = "no" /\ w.req.mode = "stream"
      /\ type = "data" => w.uploaded + size <= w.credited
      /\ w' \in WorkerWrite(v, inSequence, type, size, more, credits)
      /\ rewinds' = rewinds
  BY DEF ClientWrite, Reachable, Quiesced
<1>4. w.req \in ZRequest /\ size \in Nat /\ credits \in Nat \cup {-1}
  <2>1. w.req \in ZRequest
    BY <1>1 DEF WorkerInv, Worker
  <2> QED BY <2>1, ClientAssumption
<1> HIDE DEF v
<1>5. CreditsOnlyForStreams /\ ~OutStream(v) => credits = -1
  BY <1>2, <1>3, <1>4 DEF CreditsOnlyForStreams, OutStream
<1>6. WorkerInv(w', rewinds) /\ Promised(v, w') /\ NoData(w')
  BY <1>1, <1>2, <1>3, <1>4, <1>5, WorkerWriteOwes
<1>7. WorkerInv(w', rewinds) /\ Promised(w, w') /\ Headed(w, w')
  BY <1>1, <1>6, QuietStep DEF v
<1> QED BY <1>3, <1>7 DEF Step

LEMMA UpdateStep == WInv /\ DoUpdate => Step
<1> SUFFICES ASSUME WInv, DoUpdate PROVE Step
  OBVIOUS
<1> DEFINE v == [w EXCEPT !.out = <<>>]
<1>1. rewinds \in Nat /\ WorkerInv(w, rewinds)
  BY BoundAssumption DEF WInv
<1>2. WorkerInv(v, rewinds) /\ v.out = <<>> /\ v.updateTimer = w.updateTimer
  BY <1>1, QuietOwes
<1>3. w.updateTimer /\ w' \in WorkerDoUpdate(v) /\ rewinds' = rewinds
  BY DEF DoUpdate, Quiesced, Bounds
<1> HIDE DEF v
<1>4. WorkerInv(w', rewinds) /\ Promised(v, w') /\ Headed(v, w')
  BY <1>1, <1>2, <1>3, DoUpdateOwes
<1>5. Promised(w, w') /\ Headed(w, w')
  BY <1>1, <1>4, QuietOwes DEF v
<1> QED BY <1>3, <1>4, <1>5 DEF Step

\* A session with a request or a timer is ready to take a step.
LEMMA QuietReady ==
  ASSUME WInv, w.hreq # None \/ w.timers # {}
  PROVE  LET v == [w EXCEPT !.out = <<>>]
         IN  /\ Ready(v, rewinds) /\ v.hreq = w.hreq /\ v.timers = w.timers
             /\ rewinds \in Nat /\ WorkerInv(w, rewinds)
<1> DEFINE v == [w EXCEPT !.out = <<>>]
<1>1. rewinds \in Nat /\ WorkerInv(w, rewinds)
  BY BoundAssumption DEF WInv
<1>2. /\ WorkerInv(v, rewinds) /\ v.out = <<>> /\ v.hreq = w.hreq
      /\ v.timers = w.timers /\ v.state = w.state
  BY <1>1, QuietOwes
<1>3. w.state = "Started"
  BY <1>1 DEF WorkerInv, Shape
<1> HIDE DEF v
<1> QED BY <1>1, <1>2, <1>3 DEF Ready, v

LEMMA ConnUpdatedStep == WInv /\ ConnUpdated => Step
<1> SUFFICES ASSUME WInv, ConnUpdated PROVE Step
  OBVIOUS
<1> DEFINE v == [w EXCEPT !.out = <<>>]
<1>1. w.hreq # None /\ w' \in WorkerConnUpdated(v) /\ rewinds' = rewinds
  BY DEF ConnUpdated, Quiesced, Bounds
<1>2. Ready(v, rewinds) /\ rewinds \in Nat /\ WorkerInv(w, rewinds)
  BY <1>1, QuietReady
<1> HIDE DEF v
<1>3. WorkerInv(w', rewinds) /\ Promised(v, w') /\ NoData(w')
  BY <1>1, <1>2, ConnUpdatedOwes
<1>4. WorkerInv(w', rewinds) /\ Promised(w, w') /\ Headed(w, w')
  BY <1>2, <1>3, QuietStep DEF v
<1> QED BY <1>1, <1>4 DEF Step

\* The queued error of the request and the timers that end the session.
LEMMA ErrorStep == WInv /\ (QueuedError \/ SessionTimeout) => Step
<1> SUFFICES ASSUME WInv, QueuedError \/ SessionTimeout PROVE Step
  OBVIOUS
<1> DEFINE v == [w EXCEPT !.out = <<>>]
<1>1. /\ w.hreq # None \/ w.timers # {}
      /\ w' = RespondError(v) /\ rewinds' = rewinds
  BY DEF QueuedError, SessionTimeout, Quiesced, Bounds
<1>2. Ready(v, rewinds) /\ rewinds \in Nat /\ WorkerInv(w, rewinds)
  BY <1>1, QuietReady
<1> HIDE DEF v
<1>3. /\ v \in Worker /\ Aside(v, v) /\ AsideKept(v) /\ v.hreq \in Request
      /\ v.hreq.arrived >= v.hreq.arrived
  BY <1>2, ReadyTypes DEF Ready, WorkerInv, Kept, Aside, AsideKept
<1>4. WorkerInv(w', rewinds) /\ Promised(v, w') /\ NoData(w')
  BY <1>1, <1>2, <1>3, ErrorOwes
<1>5. WorkerInv(w', rewinds) /\ Promised(w, w') /\ Headed(w, w')
  BY <1>2, <1>4, QuietStep DEF v
<1> QED BY <1>1, <1>5 DEF Step

LEMMA ExpireStep == WInv /\ ExpireTimeout => Step
<1> SUFFICES ASSUME WInv, ExpireTimeout PROVE Step
  OBVIOUS
<1> DEFINE v == [w EXCEPT !.out = <<>>]
<1>1. /\ "expire" \in w.timers
      /\ w' = Finish(v, "silent") /\ rewinds' = rewinds
  BY DEF ExpireTimeout, Quiesced, Bounds
<1>2. /\ Ready(v, rewinds) /\ v.timers = w.timers
      /\ rewinds \in Nat /\ WorkerInv(w, rewinds)
  BY <1>1, QuietReady
<1> HIDE DEF v
<1>3. /\ v \in Worker /\ Kept(v) /\ v.ending = "no" /\ v.state # "NotStarted"
      /\ v.out = <<>>
  BY <1>2, ReadyTypes DEF Ready, WorkerInv
<1>4. v.req.mode = "stream"
  <2>1. v.req \in ZRequestType
    BY <1>3, WorkerNats
  <2>2. v.req.mode # "single"
    BY <1>1, <1>2 DEF Ready, WorkerInv, Running
  <2> QED BY <2>1, <2>2 DEF ZRequestType
<1>5. WorkerInv(w', rewinds) /\ Promised(v, w') /\ NoData(w')
  BY <1>1, <1>3, <1>4, SilentOwes
<1>6. WorkerInv(w', rewinds) /\ Promised(w, w') /\ Headed(w, w')
  BY <1>2, <1>5, QuietStep DEF v
<1> QED BY <1>1, <1>6 DEF Step

LEMMA KeepAliveStep == WInv /\ KeepAliveTimeout => Step
<1> SUFFICES ASSUME WInv, KeepAliveTimeout PROVE Step
  OBVIOUS
<1> DEFINE v == [w EXCEPT !.out = <<>>]
           m == Plain("keep-alive", 0)
           y == WriteResponse(v, m)
           z == [y EXCEPT !.credited = @ + 0]
<1>1. "keepAlive" \in w.timers /\ w' = y /\ rewinds' = rewinds
  BY DEF KeepAliveTimeout, Quiesced
<1>2. /\ Ready(v, rewinds) /\ v.timers = w.timers
      /\ rewinds \in Nat /\ WorkerInv(w, rewinds)
  BY <1>1, QuietReady
<1> HIDE DEF v
<1>3. v \in Worker /\ v.req.mode # "single" /\ Running(v, rewinds)
  BY <1>1, <1>2 DEF Ready, WorkerInv, Running
<1>4. m \in Message /\ m.type # "data"
  BY DEF Plain, Message
<1>5. v.credited + 0 + v.hreq.newlyWritten
        <= SessionBufferSize + v.hreq.taken + Repeated(rewinds)
  <2>1. v.credited + 0 = v.credited
    BY <1>3, WorkerNats
  <2> QED BY <1>3, <2>1 DEF Running, Counted
<1>6. WorkerInv(z, rewinds) /\ Promised(v, z) /\ NoData(z)
  <2> HIDE DEF m
  <2>1. 0 \in Nat
    OBVIOUS
  <2> QED BY <1>2, <1>3, <1>4, <1>5, <2>1, SpeakOwes
<1>7. z = y
  <2>1. y \in Worker
    BY <1>3, <1>4, WriteResponseFields
  <2> HIDE DEF y
  <2>2. y.credited + 0 = y.credited
    BY <2>1, WorkerNats
  <2> QED BY <2>1, <2>2 DEF Worker
<1> HIDE DEF z, y
<1>8. WorkerInv(w', rewinds) /\ Promised(w, w') /\ Headed(w, w')
  BY <1>1, <1>2, <1>6, <1>7, QuietStep DEF v
<1> QED BY <1>1, <1>8 DEF Step

\* A callback of curl leaves the request as g.
LEMMA CurlStep ==
  ASSUME WInv, w.hreq # None, NEW g, w' = [Quiesced EXCEPT !.hreq = g],
         Good(g), Wired(g), Onward(g, w.hreq), Same(g, w.hreq),
         g.written = w.hreq.written, rewinds' \in Nat,
         w.hreq.taken + Repeated(rewinds) + g.newlyWritten
           <= g.taken + Repeated(rewinds') + w.hreq.newlyWritten
  PROVE  Step
<1> DEFINE v == [w EXCEPT !.out = <<>>]
<1>1. /\ Ready(v, rewinds) /\ v.hreq = w.hreq
      /\ rewinds \in Nat /\ WorkerInv(w, rewinds)
  BY QuietReady
<1>2. w' = [v EXCEPT !.hreq = g]
  BY DEF Quiesced
<1> HIDE DEF v
<1>3. WorkerInv(w', rewinds') /\ Promised(v, w') /\ NoData(w')
  <2>1. /\ Onward(g, v.hreq) /\ Same(g, v.hreq) /\ g.written = v.hreq.written
        /\ v.hreq.taken + Repeated(rewinds) + g.newlyWritten
             <= g.taken + Repeated(rewinds') + v.hreq.newlyWritten
    BY <1>1
  <2> DEFINE q == rewinds'
             u == [v EXCEPT !.hreq = g]
  <2>2. WorkerInv(u, q) /\ Promised(v, u) /\ NoData(u)
    <3> HIDE DEF q
    <3>1. /\ q \in Nat
          /\ v.hreq.taken + Repeated(rewinds) + g.newlyWritten
               <= g.taken + Repeated(q) + v.hreq.newlyWritten
      BY <2>1 DEF q
    <3> QED BY <1>1, <2>1, <3>1, CurlOwes
  <2> QED BY <1>2, <2>2
<1>4. WorkerInv(w', rewinds') /\ Promised(w, w') /\ Headed(w, w')
  BY <1>1, <1>3, QuietStep DEF v
<1> QED BY <1>4 DEF Step

\* A callback other than a rewind.
LEMMA PlainCurlStep ==
  ASSUME WInv, Active, NEW g, Curl(g), rewinds' = rewinds,
         Good(g), Wired(g), Onward(g, w.hreq), Same(g, w.hreq),
         Reported(g, w.hreq), g.written = w.hreq.written
  PROVE  Step
<1>1. w.hreq # None /\ w' = [Quiesced EXCEPT !.hreq = g]
  BY DEF Active, Curl
<1>2. rewinds \in Nat
  BY BoundAssumption DEF WInv
<1>3. w.hreq \in Request /\ g \in Request
  BY <1>1, QuietReady, ReadyTypes DEF Good
<1>4. w.hreq.taken + Repeated(rewinds) + g.newlyWritten
        <= g.taken + Repeated(rewinds) + w.hreq.newlyWritten
  BY <1>2, <1>3, ReportedSum
<1> QED BY <1>1, <1>2, <1>4, CurlStep

LEMMA ActiveRequest ==
  ASSUME WInv, Active
  PROVE  /\ Good(w.hreq) /\ Sound(w.hreq) /\ w.hreq \in Request
         /\ w.hreq.conn /\ w.hreq.result = "none"
<1> DEFINE v == [w EXCEPT !.out = <<>>]
<1>1. Ready(v, rewinds) /\ v.hreq = w.hreq
  BY QuietReady DEF Active
<1> HIDE DEF v
<1>2. Good(v.hreq) /\ Sound(v.hreq) /\ v.hreq \in Request
  BY <1>1, ReadyTypes DEF Ready, WorkerInv, Running
<1> QED BY <1>1, <1>2 DEF Active

LEMMA CurlNextStep == WInv /\ CurlNext => Step
<1> SUFFICES ASSUME WInv, CurlNext PROVE Step
  OBVIOUS
<1> DEFINE h == w.hreq
<1>1. CASE CurlHeader
  <2> DEFINE g == HeaderFunction(h)
  <2>1. Active /\ Curl(g) /\ rewinds' = rewinds
    BY <1>1 DEF CurlHeader
  <2>2. Good(h) /\ Sound(h) /\ h.conn /\ h.result = "none"
    BY <2>1, ActiveRequest
  <2>3. /\ Good(g) /\ Same(g, h) /\ Wired(g) /\ Onward(g, h)
        /\ Reported(g, h) /\ g.written = h.written
    BY <2>2, HeaderGood, HeaderOnward
  <2> HIDE DEF g
  <2> QED BY <2>1, <2>3, PlainCurlStep
<1>2. ASSUME NEW size \in Chunk, CurlWrite(size)
      PROVE  Step
  <2> DEFINE g == WriteFunction(h, size)
  <2>1. Active /\ Curl(g) /\ rewinds' = rewinds /\ h.header
    BY <1>2 DEF CurlWrite
  <2>2. Good(h) /\ Sound(h) /\ h \in Request /\ h.result = "none"
    BY <2>1, ActiveRequest
  <2>3. Same(g, h)
    BY <2>2 DEF WriteFunction, Request, Same
  <2>4. /\ Good(g) /\ Wired(g) /\ Onward(g, h)
        /\ Reported(g, h) /\ g.written = h.written
    BY <2>1, <2>2, WriteFunctionGood, WriteOnward
  <2> HIDE DEF g
  <2> QED BY <2>1, <2>3, <2>4, PlainCurlStep
<1>3. ASSUME NEW size \in Chunk, CurlRead(size)
      PROVE  Step
  <2> DEFINE g == ReadFunction(h, size)
  <2>1. Active /\ Curl(g) /\ rewinds' = rewinds
    BY <1>3 DEF CurlRead
  <2>2. Good(h) /\ Sound(h) /\ h \in Request
    BY <2>1, ActiveRequest
  <2>3. Same(g, h)
    BY <2>2 DEF ReadFunction, SwitchToUnbuffered, Take, Request, Same
  <2>4. size \in Nat \ {0}
    BY SizeAssumption DEF Chunk
  <2>5. /\ Good(g) /\ Wired(g) /\ Onward(g, h)
        /\ Reported(g, h) /\ g.written = h.written
    BY <2>2, <2>4, ReadFunctionGood, ReadOnward
  <2> HIDE DEF g
  <2> QED BY <2>1, <2>3, <2>5, PlainCurlStep
<1>4. CASE CurlSeek
  <2> DEFINE g == SeekFunction(h)
  <2>1. /\ Active /\ Curl(g) /\ ~h.pauseSend /\ h # None
        /\ w' = [Quiesced EXCEPT !.hreq = g]
        /\ rewinds' = rewinds + 1 /\ rewinds \in Nat
    BY <1>4, BoundAssumption DEF CurlSeek, Active, Curl, WInv
  <2>2. /\ Good(h) /\ Sound(h) /\ h \in Request /\ h.conn /\ h.result = "none"
    BY <2>1, ActiveRequest
  <2>3. Same(g, h)
    BY <2>2 DEF SeekFunction, Done, Request, Same
  <2>4. /\ Good(g) /\ Wired(g) /\ Onward(g, h) /\ g.written = h.written
        /\ g.taken \in Nat /\ g.newlyWritten = h.newlyWritten
        /\ h.taken <= g.taken + RequestBodyMax
    BY <2>1, <2>2, SeekGood, SeekOnward
  <2> HIDE DEF g
  <2>5. h.taken + Repeated(rewinds) + g.newlyWritten
          <= g.taken + Repeated(rewinds') + h.newlyWritten
    <3>1. /\ h.taken \in Nat /\ h.newlyWritten \in Nat
          /\ Repeated(rewinds) \in Nat /\ RequestBodyMax \in Nat
          /\ Repeated(rewinds') = Repeated(rewinds) + RequestBodyMax
      BY <2>1, <2>2, RepeatedNat, SizeAssumption DEF Request
    <3> QED BY <2>4, <3>1
  <2>6. rewinds' \in Nat
    BY <2>1
  <2> QED BY <2>1, <2>3, <2>4, <2>5, <2>6, CurlStep
<1>5. ASSUME NEW result \in {"ok", "err"}, CurlDone(result)
      PROVE  Step
  <2> DEFINE g == Done(h, result)
  <2>1. Active /\ Curl(g) /\ rewinds' = rewinds /\ (result = "ok" => h.header)
    BY <1>5 DEF CurlDone
  <2>2. Good(h) /\ Sound(h) /\ h.conn /\ h.result = "none"
    BY <2>1, ActiveRequest
  <2>3. /\ Good(g) /\ Same(g, h) /\ Wired(g) /\ Onward(g, h)
        /\ Reported(g, h) /\ g.written = h.written
    BY <2>1, <2>2, DoneGood, DoneOnward
  <2> HIDE DEF g
  <2> QED BY <2>1, <2>3, PlainCurlStep
<1> QED BY <1>1, <1>2, <1>3, <1>4, <1>5 DEF CurlNext

----------------------------------------------------------------------------
LEMMA InitInv == Init => WInv
<1> SUFFICES ASSUME Init PROVE WInv
  OBVIOUS
<1>1. PICK req \in ZRequest : w = NewWorker(req)
  BY DEF Init
<1>2. WorkerInv(w, rewinds)
  BY <1>1, NewWorkerInv
<1> QED BY <1>2, BoundAssumption DEF Init, WInv

\* Every step is one of Session and says the head of the response once.
LEMMA NextStep == WInv /\ Next => Step
<1> SUFFICES ASSUME WInv, Next PROVE Step
  OBVIOUS
<1>1. CASE ClientNext
  <2>1. ASSUME NEW inSequence \in BOOLEAN, NEW more \in BOOLEAN, NEW type,
               NEW size \in Pieces, NEW credits \in Credits(w.req),
               ClientWrite(inSequence, type, size, more, credits)
        PROVE  Step
    BY <2>1, WriteStep
  <2> QED BY <1>1, <2>1, StartStep DEF ClientNext
<1>2. CASE LoopNext
  BY <1>2, UpdateStep, ConnUpdatedStep, ErrorStep DEF LoopNext
<1>3. CASE TimerNext
  BY <1>3, ExpireStep, ErrorStep, KeepAliveStep DEF TimerNext
<1>4. CASE CurlNext
  BY <1>4, CurlNextStep
<1> QED BY <1>1, <1>2, <1>3, <1>4 DEF Next

LEMMA StepInv == WInv /\ [Next]_vars => WInv'
<1> SUFFICES ASSUME WInv, [Next]_vars PROVE WInv'
  OBVIOUS
<1>1. CASE Next
  <2>1. WorkerInv(w', rewinds')
    BY <1>1, NextStep DEF Step
  <2>2. /\ writes' \in 0..MaxWrites /\ keepAlives' \in 0..MaxKeepAlives
        /\ rewinds' \in 0..MaxRewinds
    BY <1>1, BoundAssumption
       DEF WInv, Next, ClientNext, ClientStart, ClientWrite, LoopNext, DoUpdate,
           ConnUpdated, QueuedError, TimerNext, ExpireTimeout, SessionTimeout,
           KeepAliveTimeout, CurlNext, CurlHeader, CurlWrite, CurlRead,
           CurlSeek, CurlDone, Curl, Bounds
  <2> QED BY <2>1, <2>2 DEF WInv
<1>2. CASE UNCHANGED vars
  BY <1>2 DEF vars, WInv
<1> QED BY <1>1, <1>2

LEMMA SpecInv == Spec => []WInv
  BY InitInv, StepInv, PTL DEF Spec

----------------------------------------------------------------------------
\* The record of a worker is well-typed, that of its request included.
THEOREM TypeCorrect == Spec => []TypeOK
<1>1. WInv => TypeOK
  BY DEF WInv, WorkerInv, TypeOK
<1> QED BY <1>1, SpecInv, PTL

\* The client of the REQ interface gets one message, the client of a session
\* that does not stream is told the response in one message.
THEOREM OneReplyOnly == Spec => []OneReply
<1>1. WInv => OneReply
  <2> SUFFICES ASSUME WInv PROVE OneReply
    OBVIOUS
  <2>1. Kept(w)
    BY DEF WInv, WorkerInv
  <2> QED BY <2>1 DEF Kept, OneReply
<1> QED BY <1>1, SpecInv, PTL

\* No more of the response body is kept or passed on than the request allows.
THEOREM MaxSizeNeverPassed == Spec => []MaxSizeKept
<1>1. WInv => MaxSizeKept
  BY DEF WInv, WorkerInv, Kept, MaxSizeKept
<1> QED BY <1>1, SpecInv, PTL

\* The request body that waits for curl fits into what the client was promised.
THEOREM UploadBounded == Spec => []UploadWindow
<1>1. WInv => UploadWindow
  <2> SUFFICES ASSUME WInv, Started PROVE UploadWindow
    BY DEF UploadWindow
  <2> DEFINE h == w.hreq
  <2>1. /\ w \in Worker /\ Kept(w) /\ Running(w, rewinds) /\ rewinds \in Nat
    BY BoundAssumption DEF WInv, WorkerInv, Started
  <2>2. Good(h) /\ h \in Request
    BY <2>1 DEF Running, Good
  <2>3. /\ h.taken + Unread(h) = h.written
        /\ h.written <= w.req.body + w.uploaded
        /\ w.uploaded <= w.credited
        /\ w.credited + h.newlyWritten
             <= SessionBufferSize + h.taken + Repeated(rewinds)
    BY <2>1, <2>2 DEF Good, BodyGood, Running, Counted, Kept
  <2>4. /\ h.taken \in Nat /\ h.written \in Nat /\ h.newlyWritten \in Nat
        /\ Unread(h) \in Int
    BY <2>2 DEF Request, Unread
  <2>5. /\ w.req.body \in Nat /\ w.uploaded \in Nat /\ w.credited \in Nat
        /\ SessionBufferSize \in Nat /\ Repeated(rewinds) \in Nat
    BY <2>1, WorkerNats, ClientAssumption, RepeatedNat
  <2>6. Unread(h) <= w.req.body + SessionBufferSize + Repeated(rewinds)
    BY <2>3, <2>4, <2>5
  <2> QED BY <2>6 DEF UploadWindow, Repeated
<1> QED BY <1>1, SpecInv, PTL

\* What the client may be told has a wake-up on its way.
THEOREM WakeupsKept == Spec => []NoLostWakeup
<1>1. WInv => NoLostWakeup
  <2> SUFFICES ASSUME WInv, Started PROVE NoLostWakeup
    BY DEF NoLostWakeup
  <2>1. Running(w, rewinds)
    BY DEF WInv, WorkerInv, Started
  <2>2. /\ w.hreq.result = "err" => w.hreq.pendingUpdate
        /\ w.hreq.newlyReadOrEof => w.hreq.pendingUpdate
    BY <2>1 DEF Running, Good, SignalGood, Wired
  <2>3. Signalled(w)
    BY <2>1 DEF Running
  <2> QED BY <2>2, <2>3 DEF Signalled, NoLostWakeup
<1> QED BY <1>1, SpecInv, PTL

\* The asserts of HttpRequest hold for a worker that uses it.
THEOREM AssertsHold == Spec => []RequestUsedProperly
<1>1. WInv => RequestUsedProperly
  BY DEF WInv, WorkerInv, Started, Running, Good, RequestUsedProperly
<1> QED BY <1>1, SpecInv, PTL

\* A response that is collected is said in full, provided that clients that
\* did not ask for a stream give no credits.
THEOREM CollectedComplete ==
  ASSUME CreditsOnlyForStreams
  PROVE  Spec => []CollectedMeansComplete
<1>1. WInv => CollectedMeansComplete
  BY DEF WInv, WorkerInv, Kept, CollectedMeansComplete, FinalMeansComplete
<1> QED BY <1>1, SpecInv, PTL

\* The head of the response is said with the first data and with no other, and
\* only when it is known.
THEOREM HeadSaidOnce == Spec => HeaderOnce
<1>1. WInv /\ [Next]_vars =>
        [\A i \in 1..Len(w'.out) :
           w'.out[i].type = "data" =>
             /\ w'.out[i].header <=> w.parts = 0
             /\ w.hreq # None /\ w.hreq.header]_vars
  <2> SUFFICES ASSUME WInv, Next
               PROVE  \A i \in 1..Len(w'.out) :
                        w'.out[i].type = "data" =>
                          /\ w'.out[i].header <=> w.parts = 0
                          /\ w.hreq # None /\ w.hreq.header
    OBVIOUS
  <2>1. Headed(w, w')
    BY NextStep DEF Step
  <2> QED BY <2>1 DEF Headed
<1> QED BY <1>1, SpecInv, PTL DEF Spec, HeaderOnce

----------------------------------------------------------------------------
\* A session keeps what Session promises, on the same condition: messages one
\* at a time, no more of the body than has arrived or than the client gave
\* credits for, and one ending, which is final only after all of the body.
LEMMA InitRefines == Init => S!Init
<1> SUFFICES ASSUME Init PROVE S!Init
  OBVIOUS
<1>1. PICK req \in ZRequest : w = NewWorker(req)
  BY DEF Init
<1>2. Fresh(w)
  BY <1>1, FreshWorker
<1> QED BY <1>2 DEF Fresh, S!Init, Arrived, Allowed

LEMMA StepRefines ==
  ASSUME CreditsOnlyForStreams, WInv, [Next]_vars
  PROVE  [S!Next]_(S!vars)
<1>1. CASE Next
  <2>1. Promised(w, w')
    BY <1>1, NextStep DEF Step
  <2>2. /\ Arrived = ArrivedOf(w) /\ Arrived' = ArrivedOf(w')
        /\ Allowed = AllowedOf(w) /\ Allowed' = AllowedOf(w')
    BY DEF Arrived, Allowed, ArrivedOf, AllowedOf, OutStream
  <2>3. w.ending = "no" /\ S!Inputs
    BY <2>1, <2>2 DEF Promised, S!Inputs
  <2>4. CASE /\ w'.said = w.said /\ w'.delivered = w.delivered
             /\ w'.ending \in {"no", "silent"}
    BY <2>3, <2>4 DEF S!Next, S!Listen, S!End
  <2>5. CASE /\ w'.said = w.said + 1 /\ w'.delivered = w.delivered
             /\ w'.ending \in {"no", "error", "cancel"}
    BY <2>3, <2>5 DEF S!Next, S!Say, S!End
  <2>6. CASE /\ w'.said = w.said + 1 /\ w'.delivered >= w.delivered
             /\ w'.delivered <= Arrived' /\ w'.delivered <= Allowed'
             /\ \/ w'.ending = "no"
                \/ w'.ending = "final" /\ w'.delivered = Arrived'
    BY <2>3, <2>6 DEF S!Next, S!Deliver
  <2> QED BY <2>1, <2>2, <2>4, <2>5, <2>6 DEF Promised
<1>2. CASE UNCHANGED vars
  BY <1>2 DEF vars, S!vars, Arrived, Allowed, OutStream
<1> QED BY <1>1, <1>2

THEOREM SessionImplemented ==
  ASSUME CreditsOnlyForStreams
  PROVE  Spec => ImplementsSession
<1>1. WInv /\ [Next]_vars => [S!Next]_(S!vars)
  BY StepRefines
<1> QED BY <1>1, InitRefines, SpecInv, PTL DEF Spec, ImplementsSession, S!Spec
=============================================================================
