------------------------- MODULE HttpTransferProofs -------------------------
(***************************************************************************)
(* What the functions of HttpTransfer preserve, for buffers and bodies of  *)
(* any size.  Whoever owns a request, HttpRequest's user or a worker of    *)
(* WorkerHttp, proves its own invariant from these lemmas.                 *)
(*                                                                         *)
(* Good is what every function keeps, one lemma for each.  Wired and       *)
(* Onward, further down, relate the response to the signals about it.      *)
(***************************************************************************)
EXTENDS HttpTransfer, TLAPS

\* The body that curl may still have to send, and what it would send twice.
BodyGood(g) ==
  /\ g.outPos # -1 => /\ g.out = g.written
                      /\ g.taken = g.outPos
                      /\ g.outPos <= g.out
                      /\ g.outPos <= RequestBodyMax
  /\ g.outPos = -1 => g.written > RequestBodyMax
  /\ g.taken + Unread(g) = g.written
  /\ g.pauseSend => Unread(g) = 0 /\ ~g.outFinished
  /\ g.eof => Unread(g) = 0 /\ g.outFinished

\* Signals that were raised have a queued call.
SignalGood(g) == (g.newlyReadOrEof \/ g.newlyWritten > 0) => g.pendingUpdate

Good(g) ==
  /\ g \in Request
  /\ ~g.aborted
  /\ BodyGood(g)
  /\ SignalGood(g)
  /\ g.pauseRecv => g.in > 0
  /\ g.ignoreBody => g.errorCondition # "none"
  /\ g.method = "head" /\ g.willWriteBody => g.bodyNotAllowed

\* The body may still be written to; two requests agree on that.
Open(g) == g.willWriteBody /\ ~g.outFinished
Same(f, g) == f.willWriteBody = g.willWriteBody /\ f.outFinished = g.outFinished

----------------------------------------------------------------------------
LEMMA NewGood == Good(NewRequest)
  BY SizeAssumption
     DEF Good, NewRequest, Request, Methods, BodyGood, SignalGood, Unread

\* What does not touch the body leaves it as good as it was.
LEMMA BodySame ==
  ASSUME NEW g, NEW f, BodyGood(g),
         f.outPos = g.outPos, f.out = g.out, f.taken = g.taken,
         f.written = g.written, f.pauseSend = g.pauseSend,
         f.outFinished = g.outFinished, f.eof = g.eof
  PROVE  BodyGood(f)
  BY DEF BodyGood, Unread

LEMMA HeaderGood ==
  ASSUME NEW g, Good(g)
  PROVE  Good(HeaderFunction(g)) /\ Same(HeaderFunction(g), g)
<1> DEFINE f == [g EXCEPT !.header = TRUE, !.newlyReadOrEof = TRUE,
                          !.pendingUpdate = TRUE]
<1>1. f \in Request
  BY DEF Good, Request
<1>2. BodyGood(f)
  BY BodySame DEF Good, Request
<1>3. Good(f) /\ Same(f, g)
  BY <1>1, <1>2 DEF Good, Request, SignalGood, Same
<1> QED BY <1>3 DEF HeaderFunction

\* A chunk is refused only when the buffer holds something, because no chunk
\* is larger than the buffer.
LEMMA WriteFunctionGood ==
  ASSUME NEW g, Good(g), NEW size \in Chunk
  PROVE  Good(WriteFunction(g, size))
<1>1. size \in Nat /\ size <= BufferSize /\ BufferSize \in Nat /\ size > 0
  BY SizeAssumption DEF Chunk
<1>2. g \in Request /\ g.in \in 0..BufferSize /\ g.arrived \in Nat
  BY DEF Good, Request
<1>3. CASE g.in + size > BufferSize
  <2> DEFINE f == [g EXCEPT !.pauseRecv = TRUE]
  <2>1. f \in Request
    BY <1>2 DEF Request
  <2>2. Good(f)
    BY <2>1, <1>1, <1>2, <1>3
       DEF Good, Request, BodyGood, SignalGood, Unread
  <2> QED BY <1>3, <2>2 DEF WriteFunction
<1>4. CASE ~(g.in + size > BufferSize)
  <2> DEFINE f == [g EXCEPT !.in = @ + size, !.arrived = @ + size,
                            !.newlyReadOrEof = TRUE, !.pendingUpdate = TRUE]
  <2>1. g.in + size \in 0..BufferSize /\ g.arrived + size \in Nat /\ g.in + size > 0
    BY <1>1, <1>2, <1>4
  <2>2. f \in Request
    BY <1>2, <2>1 DEF Request
  <2>3. Good(f)
    BY <2>1, <2>2, <1>2 DEF Good, Request, BodyGood, SignalGood, Unread
  <2> QED BY <1>4, <2>3 DEF WriteFunction
<1> QED BY <1>3, <1>4

\* Dropping the part curl has taken does not move its position.
LEMMA SwitchGood ==
  ASSUME NEW g, Good(g)
  PROVE  LET f == SwitchToUnbuffered(g)
         IN  Good(f) /\ (f.outPos # -1 => f.out <= RequestBodyMax)
<1>1. CASE g.outPos # -1 /\ g.out > RequestBodyMax
  <2> DEFINE f == [g EXCEPT !.out = @ - g.outPos, !.outPos = -1]
  <2>1. g \in Request /\ g.out \in Nat /\ g.outPos \in Nat /\ g.outPos <= g.out
    BY <1>1 DEF Good, Request, BodyGood
  <2>2. f \in Request
    <3>1. g.out - g.outPos \in Nat
      BY <2>1
    <3> QED BY <2>1, <3>1 DEF Request
  <2>3. /\ f.outPos = -1 /\ f.out = g.out - g.outPos
        /\ f.taken = g.taken /\ f.written = g.written
        /\ f.pauseSend = g.pauseSend /\ f.outFinished = g.outFinished
        /\ f.eof = g.eof
    BY <2>1 DEF Request
  <2>4. BodyGood(f)
    BY <1>1, <2>1, <2>3 DEF Good, BodyGood, Unread
  <2>5. Good(f)
    BY <2>2, <2>4 DEF Good, Request, SignalGood
  <2> QED BY <1>1, <2>3, <2>5 DEF SwitchToUnbuffered
<1>2. CASE ~(g.outPos # -1 /\ g.out > RequestBodyMax)
  BY <1>2, SizeAssumption DEF SwitchToUnbuffered, Good, Request
<1> QED BY <1>1, <1>2

LEMMA TakeGood ==
  ASSUME NEW g, Good(g), NEW n \in Nat \ {0}, n <= Unread(g),
         g.outPos # -1 => g.out <= RequestBodyMax
  PROVE  Good(Take(g, n))
<1> DEFINE f == Take(g, n)
<1>1. /\ g \in Request /\ g.out \in Nat /\ g.outPos \in Nat \cup {-1}
      /\ g.taken \in Nat /\ g.newlyWritten \in Nat /\ BodyGood(g)
  BY DEF Good, Request
<1>2. /\ f.outPos = IF g.outPos = -1 THEN -1 ELSE g.outPos + n
      /\ f.out = IF g.outPos = -1 THEN g.out - n ELSE g.out
      /\ f.taken = g.taken + n /\ f.written = g.written
      /\ f.pauseSend = g.pauseSend /\ f.outFinished = g.outFinished
      /\ f.pendingUpdate /\ f.eof = g.eof
  BY <1>1 DEF Take, Request
<1>3. /\ g.outPos = -1 => g.out - n \in Nat
      /\ g.outPos # -1 => g.outPos + n \in Nat
      /\ g.taken + n \in Nat /\ g.newlyWritten + n \in Nat
  BY <1>1 DEF Unread
<1>4. f \in Request
  BY <1>1, <1>3 DEF Take, Request
<1>5. BodyGood(f)
  <2> HIDE DEF f
  <2>1. CASE g.outPos = -1
    BY <1>1, <1>2, <2>1 DEF BodyGood, Unread
  <2>2. CASE g.outPos # -1
    BY <1>1, <1>2, <1>3, <2>2, SizeAssumption DEF BodyGood, Unread
  <2> QED BY <2>1, <2>2
<1>6. SignalGood(f)
  BY <1>2 DEF SignalGood
<1>7. /\ f.aborted = g.aborted /\ f.pauseRecv = g.pauseRecv /\ f.in = g.in
      /\ f.ignoreBody = g.ignoreBody /\ f.errorCondition = g.errorCondition
      /\ f.method = g.method /\ f.willWriteBody = g.willWriteBody
      /\ f.bodyNotAllowed = g.bodyNotAllowed
  BY <1>1 DEF Take, Request
<1> QED BY <1>4, <1>5, <1>6, <1>7 DEF Good

LEMMA ReadFunctionGood ==
  ASSUME NEW g, Good(g), NEW size \in Nat \ {0}
  PROVE  Good(ReadFunction(g, size))
<1> DEFINE b == SwitchToUnbuffered(g)
           n == Lesser(size, Unread(b))
<1>1. Good(b) /\ (b.outPos # -1 => b.out <= RequestBodyMax)
  BY SwitchGood
<1>2. Unread(b) \in Nat
  BY <1>1 DEF Good, Request, BodyGood, Unread
<1> HIDE DEF b
<1>3. n \in Nat /\ n <= Unread(b) /\ (n = 0 => Unread(b) = 0)
  BY <1>2 DEF Lesser
<1>4. CASE n > 0
  BY <1>1, <1>3, <1>4, TakeGood DEF ReadFunction, b
<1>5. CASE ~(n > 0) /\ b.outFinished
  <2>1. Unread(b) = 0
    BY <1>3, <1>5
  <2> DEFINE f == [b EXCEPT !.eof = TRUE]
  <2>2. f \in Request
    BY <1>1 DEF Good, Request
  <2>3. BodyGood(f)
    BY <1>1, <1>5, <2>1 DEF Good, Request, BodyGood, Unread
  <2>4. Good(f)
    BY <1>1, <2>2, <2>3 DEF Good, Request, SignalGood
  <2> QED BY <1>5, <2>4 DEF ReadFunction, b
<1>6. CASE ~(n > 0) /\ ~b.outFinished
  <2>1. Unread(b) = 0
    BY <1>3, <1>6
  <2> DEFINE f == [b EXCEPT !.pauseSend = TRUE]
  <2>2. f \in Request
    BY <1>1 DEF Good, Request
  <2>3. BodyGood(f)
    BY <1>1, <1>6, <2>1 DEF Good, Request, BodyGood, Unread
  <2>4. Good(f)
    BY <1>1, <2>2, <2>3 DEF Good, Request, SignalGood
  <2> QED BY <1>6, <2>4 DEF ReadFunction, b
<1> QED BY <1>4, <1>5, <1>6

LEMMA DoneGood ==
  ASSUME NEW g, Good(g), NEW result \in {"ok", "err"}
  PROVE  Good(Done(g, result)) /\ Same(Done(g, result), g)
<1> DEFINE f == [g EXCEPT !.result = result, !.newlyReadOrEof = TRUE,
                          !.pendingUpdate = TRUE]
<1>1. f \in Request
  BY DEF Good, Request
<1>2. BodyGood(f)
  BY BodySame DEF Good, Request
<1>3. Good(f) /\ Same(f, g)
  BY <1>1, <1>2 DEF Good, Request, SignalGood, Same
<1> QED BY <1>3 DEF Done

\* A rewind restarts at the first byte; the whole body is still in the buffer.
LEMMA SeekGood ==
  ASSUME NEW g, Good(g), ~g.pauseSend
  PROVE  Good(SeekFunction(g))
<1>1. CASE g.outPos = -1
  BY <1>1, DoneGood DEF SeekFunction
<1>2. CASE g.outPos # -1
  <2> DEFINE f == [g EXCEPT !.outPos = 0, !.taken = 0, !.eof = FALSE]
  <2>1. f \in Request
    BY DEF Good, Request
  <2>2. BodyGood(f)
    BY <1>2, SizeAssumption DEF Good, Request, BodyGood, Unread
  <2>3. Good(f)
    BY <2>1, <2>2 DEF Good, Request, SignalGood
  <2> QED BY <1>2, <2>3 DEF SeekFunction
<1> QED BY <1>1, <1>2

----------------------------------------------------------------------------
LEMMA StartConnectGood ==
  ASSUME NEW g, Good(g), ~g.conn, ~(g.method = "head" /\ g.willWriteBody)
  PROVE  \A f \in StartConnect(g) : Good(f) /\ Same(f, g)
<1> DEFINE c == [g EXCEPT !.conn = TRUE]
<1>1. Good(c) /\ Same(c, g)
  <2>1. c \in Request
    BY DEF Good, Request
  <2>2. BodyGood(c)
    BY BodySame DEF Good, Request
  <2> QED BY <2>1, <2>2 DEF Good, Request, SignalGood, Same
<1>2. StartConnect(g) = Kick(c)
  BY DEF StartConnect
<1> HIDE DEF c
<1>3. /\ Good(Done(c, "err")) /\ Good(ReadFunction(c, 1))
      /\ Same(Done(c, "err"), c)
  BY <1>1, DoneGood, ReadFunctionGood
<1>4. Same(ReadFunction(c, 1), c)
  BY <1>1 DEF ReadFunction, SwitchToUnbuffered, Take, Good, Request, Same
<1> QED BY <1>1, <1>2, <1>3, <1>4 DEF Kick, Same

LEMMA StartGood ==
  ASSUME NEW method \in Methods, NEW will \in BOOLEAN
  PROVE  \A f \in Start(method, will) :
           Good(f) /\ f.willWriteBody = will /\ ~f.outFinished
<1> DEFINE g == [NewRequest EXCEPT !.method = method, !.willWriteBody = will]
<1>0. NewRequest \in Request
  BY NewGood DEF Good
<1>1. /\ g \in Request /\ ~g.conn /\ ~g.outFinished
      /\ g.method = method /\ g.willWriteBody = will /\ ~g.bodyNotAllowed
  <2>1. g \in Request
    BY <1>0 DEF Request
  <2> QED BY <2>1 DEF NewRequest
<1>2. ~(method = "head" /\ will) => Good(g)
  BY <1>1, SizeAssumption
     DEF Good, NewRequest, BodyGood, SignalGood, Unread
<1>3. LET f == [g EXCEPT !.bodyNotAllowed = TRUE]
      IN  Good(f) /\ f.willWriteBody = will /\ ~f.outFinished
  <2> DEFINE f == [g EXCEPT !.bodyNotAllowed = TRUE]
  <2>1. f \in Request
    BY <1>1 DEF Request
  <2>2. BodyGood(f) /\ SignalGood(f)
    BY SizeAssumption DEF NewRequest, BodyGood, SignalGood, Unread
  <2>3. Good(f)
    BY <2>1, <2>2 DEF Good, NewRequest
  <2> QED BY <2>3 DEF NewRequest
<1> HIDE DEF g
<1>4. CASE will /\ method = "get"
  BY <1>1, <1>2, <1>4 DEF Start, g
<1>5. CASE will /\ method = "head"
  BY <1>3, <1>5 DEF Start, g
<1>6. CASE ~(will /\ method = "get") /\ ~(will /\ method = "head")
  <2>1. Start(method, will) = StartConnect(g)
    BY <1>6 DEF Start, g
  <2>2. ~(g.method = "head" /\ g.willWriteBody)
    BY <1>1, <1>6
  <2> QED BY <1>1, <1>2, <1>6, <2>1, <2>2, StartConnectGood DEF Same
<1> QED BY <1>4, <1>5, <1>6

\* Body data always ends a pause, so a paused transfer has nothing to send.
LEMMA WriteBodyGood ==
  ASSUME NEW g, Good(g), Open(g), NEW size \in Nat
  PROVE  \A f \in WriteBody(g, size) : Good(f) /\ Open(f)
<1>1. CASE size = 0 \/ g.ignoreBody
  BY <1>1 DEF WriteBody, Open
<1>2. CASE ~(size = 0 \/ g.ignoreBody) /\ g.bodyNotAllowed
  <2> DEFINE f == [g EXCEPT !.ignoreBody = TRUE,
                            !.errorCondition = "body-not-allowed"]
  <2>1. f \in Request /\ Open(f)
    BY DEF Good, Request, Open
  <2>2. BodyGood(f) /\ SignalGood(f)
    BY BodySame DEF Good, Request, SignalGood
  <2>3. Good(f)
    BY <2>1, <2>2 DEF Good, Request
  <2> QED BY <1>2, <2>1, <2>3 DEF WriteBody, Open
<1>3. CASE ~(size = 0 \/ g.ignoreBody) /\ ~g.bodyNotAllowed
  <2>1. \A f \in IF g.conn THEN {g} ELSE StartConnect(g) :
          Good(f) /\ Open(f)
    BY <1>3, StartConnectGood DEF Good, Open, Same
  <2>2. ASSUME NEW f, Good(f), Open(f)
        PROVE  LET e == [f EXCEPT !.out = @ + size, !.written = @ + size,
                                  !.pauseSend = FALSE]
               IN  Good(e) /\ Open(e)
    <3> DEFINE e == [f EXCEPT !.out = @ + size, !.written = @ + size,
                              !.pauseSend = FALSE]
    <3>1. /\ f \in Request /\ f.out \in Nat /\ f.written \in Nat
          /\ f.taken \in Nat /\ f.outPos \in Nat \cup {-1}
      BY <2>2 DEF Good, Request
    <3>2. /\ e.out = f.out + size /\ e.written = f.written + size /\ ~e.pauseSend
          /\ e.outPos = f.outPos /\ e.taken = f.taken
          /\ e.outFinished = f.outFinished /\ e.eof = f.eof
      BY <3>1 DEF Request
    <3>3. e \in Request /\ Open(e)
      <4>1. f.out + size \in Nat /\ f.written + size \in Nat
        BY <3>1
      <4> QED BY <2>2, <3>1, <4>1 DEF Request, Open
    <3>4. BodyGood(e)
      <4> HIDE DEF e
      <4>1. CASE f.outPos = -1
        BY <2>2, <3>1, <3>2, <4>1, SizeAssumption DEF Good, BodyGood, Unread, Open
      <4>2. CASE f.outPos # -1
        BY <2>2, <3>1, <3>2, <4>2 DEF Good, BodyGood, Unread, Open
      <4> QED BY <4>1, <4>2
    <3>5. Good(e)
      BY <2>2, <3>3, <3>4 DEF Good, Request, SignalGood
    <3> QED BY <3>3, <3>5
  <2> QED BY <1>3, <2>1, <2>2 DEF WriteBody, Open
<1> QED BY <1>1, <1>2, <1>3

LEMMA EndBodyGood ==
  ASSUME NEW g, Good(g), g.willWriteBody
  PROVE  \A f \in EndBody(g) : Good(f)
<1>1. CASE g.ignoreBody
  BY <1>1 DEF EndBody
<1>2. CASE ~g.ignoreBody
  <2> DEFINE n == [g EXCEPT !.willWriteBody = FALSE]
  <2>1. Good(n) /\ n.conn = g.conn /\ ~n.willWriteBody
    <3>1. n \in Request /\ n.conn = g.conn /\ ~n.willWriteBody
      BY DEF Good, Request
    <3>2. BodyGood(n) /\ SignalGood(n)
      BY BodySame DEF Good, Request, SignalGood
    <3> QED BY <3>1, <3>2 DEF Good, Request
  <2> HIDE DEF n
  <2>2. \A f \in IF g.conn THEN {g} ELSE StartConnect(n) : Good(f)
    BY <2>1, StartConnectGood
  <2>3. ASSUME NEW f, Good(f)
        PROVE  Good([f EXCEPT !.outFinished = TRUE, !.pauseSend = FALSE])
    <3> DEFINE e == [f EXCEPT !.outFinished = TRUE, !.pauseSend = FALSE]
    <3>1. e \in Request
      BY <2>3 DEF Good, Request
    <3>2. BodyGood(e) /\ SignalGood(e)
      BY <2>3 DEF Good, Request, BodyGood, SignalGood, Unread
    <3> QED BY <2>3, <3>1, <3>2 DEF Good, Request
  <2> QED BY <1>2, <2>2, <2>3 DEF EndBody, n
<1> QED BY <1>1, <1>2

\* A read that returns something ends a pause; it may be followed at once by
\* the next one.
LEMMA ReadGood ==
  ASSUME NEW g, Good(g), NEW size \in {-1} \cup Nat
  PROVE  \A f \in ReadResponseBody(g, size) :
           Good(f) /\ Same(f, g)
<1>1. CASE ~g.conn \/ Readable(g, size) = 0
  BY <1>1 DEF ReadResponseBody, Same
<1>2. CASE ~(~g.conn \/ Readable(g, size) = 0)
  <2> DEFINE r == [g EXCEPT !.in = @ - Readable(g, size), !.pauseRecv = FALSE]
  <2>1. g.in \in 0..BufferSize /\ BufferSize \in Nat
    BY SizeAssumption DEF Good, Request
  <2>2. g.in - Readable(g, size) \in 0..BufferSize
    BY <2>1, SizeAssumption DEF Readable, Lesser, Chunk
  <2>3. Good(r) /\ Same(r, g)
    <3>1. r \in Request /\ Same(r, g)
      BY <2>2 DEF Good, Request, Same
    <3>2. BodyGood(r) /\ SignalGood(r)
      BY BodySame DEF Good, Request, SignalGood
    <3> QED BY <3>1, <3>2 DEF Good, Request
  <2> HIDE DEF r
  <2>4. \A k \in Chunk : Good(WriteFunction(r, k)) /\ Same(WriteFunction(r, k), r)
    <3>1. \A k \in Chunk : Same(WriteFunction(r, k), r)
      BY <2>3 DEF WriteFunction, Good, Request, Same
    <3> QED BY <2>3, <3>1, WriteFunctionGood
  <2>5. ReadResponseBody(g, size) \subseteq
          {r} \cup {WriteFunction(r, k) : k \in Chunk}
    BY <1>2 DEF ReadResponseBody, Unpaused, r
  <2> QED BY <2>3, <2>4, <2>5 DEF Same
<1> QED BY <1>1, <1>2

LEMMA UpdatedGood ==
  ASSUME NEW g, Good(g), g.result # "err"
  PROVE  Good(Updated(g))
<1> DEFINE f == [g EXCEPT !.pendingUpdate = FALSE, !.newlyReadOrEof = FALSE,
                          !.newlyWritten = 0]
<1>1. f \in Request
  BY DEF Good, Request
<1>2. SignalGood(f)
  BY DEF Good, Request, SignalGood
<1>3. BodyGood(f)
  BY BodySame DEF Good, Request
<1>4. Good(f)
  BY <1>1, <1>2, <1>3 DEF Good, Request
<1> QED BY <1>4 DEF Updated

----------------------------------------------------------------------------
\* The order in which a response comes about: a connection, the head, data,
\* the end.  A failed transfer has a queued call that reports it; the body of
\* a HEAD request is an error only while there is no connection.
Wired(g) ==
  /\ ~g.conn => g.result = "none" /\ ~g.header
  /\ ~g.header => g.in = 0 /\ g.result # "ok"
                           /\ (g.newlyReadOrEof => g.result = "err")
  /\ g.result = "err" => g.pendingUpdate
  /\ g.errorCondition # "none" => /\ g.errorCondition = "body-not-allowed"
                                  /\ g.ignoreBody /\ ~g.conn
  /\ g.bodyNotAllowed /\ g.conn => ~g.willWriteBody

\* From g to f nothing was read: what arrived is in the buffer, news have a
\* signal, and a transfer that is over stays as it is.
Onward(f, g) ==
  /\ f.arrived + g.in = g.arrived + f.in
  /\ f.arrived >= g.arrived
  /\ g.header => f.header
  /\ g.newlyReadOrEof => f.newlyReadOrEof
  /\ ~f.newlyReadOrEof => f.in = g.in /\ f.result = g.result
  /\ g.result # "none" => f.in = g.in /\ f.result = g.result

\* The bytes taken and those the user has yet to be told about move together.
Reported(f, g) == f.taken + g.newlyWritten = g.taken + f.newlyWritten

\* g is typed and its response makes sense.
Sound(g) == g \in Request /\ Wired(g)

LEMMA OnwardTrans ==
  ASSUME NEW f \in Request, NEW g \in Request, NEW e \in Request,
         Onward(f, g), Onward(g, e)
  PROVE  Onward(f, e)
<1>1. /\ f.in \in Int /\ g.in \in Int /\ e.in \in Int
      /\ f.arrived \in Int /\ g.arrived \in Int /\ e.arrived \in Int
  BY SizeAssumption DEF Request
<1>2. f.arrived + e.in = e.arrived + f.in /\ f.arrived >= e.arrived
  BY <1>1 DEF Onward
<1> QED BY <1>2 DEF Onward

LEMMA ReportedTrans ==
  ASSUME NEW f \in Request, NEW g \in Request, NEW e \in Request,
         Reported(f, g), Reported(g, e)
  PROVE  Reported(f, e)
<1> DEFINE a == f.taken
           i == f.newlyWritten
           b == g.taken
           j == g.newlyWritten
           c == e.taken
           k == e.newlyWritten
<1>1. /\ a \in Int /\ b \in Int /\ c \in Int
      /\ i \in Int /\ j \in Int /\ k \in Int
  BY DEF Request
<1>2. a + j = b + i /\ b + k = c + j
  BY DEF Reported
<1>3. Reported(f, e) <=> a + k = c + i
  BY DEF Reported
<1> HIDE DEF a, b, c, i, j, k
<1>4. a + k = c + i
  BY <1>1, <1>2
<1> QED BY <1>3, <1>4

LEMMA OnwardSame ==
  ASSUME NEW f, NEW g \in Request, f.arrived = g.arrived, f.in = g.in,
         f.header = g.header, f.newlyReadOrEof = g.newlyReadOrEof,
         f.result = g.result
  PROVE  Onward(f, g)
<1>1. g.in \in Int /\ g.arrived \in Int
  BY SizeAssumption DEF Request
<1> QED BY <1>1 DEF Onward

LEMMA HeaderOnward ==
  ASSUME NEW g, Sound(g), g.conn, g.result = "none"
  PROVE  LET f == HeaderFunction(g)
         IN  Wired(f) /\ Onward(f, g) /\ Reported(f, g) /\ f.written = g.written
<1> DEFINE f == HeaderFunction(g)
<1>1. g \in Request /\ g.in \in Int /\ g.arrived \in Int
  BY SizeAssumption DEF Sound, Request
<1>2. /\ f.arrived = g.arrived /\ f.in = g.in /\ f.header /\ f.newlyReadOrEof
      /\ f.result = g.result /\ f.pendingUpdate /\ f.conn = g.conn
      /\ f.errorCondition = g.errorCondition
      /\ f.bodyNotAllowed = g.bodyNotAllowed /\ f.ignoreBody = g.ignoreBody
      /\ f.willWriteBody = g.willWriteBody
      /\ f.taken = g.taken /\ f.newlyWritten = g.newlyWritten
      /\ f.written = g.written
  BY <1>1 DEF HeaderFunction, Request
<1>3. Reported(f, g)
  BY <1>2 DEF Reported
<1> HIDE DEF f
<1>4. Onward(f, g)
  BY <1>1, <1>2 DEF Onward
<1>5. Wired(f)
  BY <1>1, <1>2 DEF Sound, Wired
<1> QED BY <1>2, <1>3, <1>4, <1>5 DEF f

LEMMA WriteOnward ==
  ASSUME NEW g, Sound(g), g.header, g.result = "none", NEW size \in Chunk
  PROVE  LET f == WriteFunction(g, size)
         IN  Wired(f) /\ Onward(f, g) /\ Reported(f, g) /\ f.written = g.written
<1> DEFINE f == WriteFunction(g, size)
<1>1. /\ g \in Request /\ g.in \in Nat /\ g.arrived \in Nat /\ size \in Nat
      /\ g.conn
  BY SizeAssumption DEF Sound, Wired, Request, Chunk
<1>2. /\ f.header = g.header /\ f.result = g.result /\ f.conn = g.conn
      /\ f.errorCondition = g.errorCondition
      /\ f.bodyNotAllowed = g.bodyNotAllowed /\ f.ignoreBody = g.ignoreBody
      /\ f.willWriteBody = g.willWriteBody
      /\ f.taken = g.taken /\ f.newlyWritten = g.newlyWritten
      /\ f.written = g.written
  BY <1>1 DEF WriteFunction, Request
<1>3. \/ /\ f.arrived = g.arrived /\ f.in = g.in
         /\ f.newlyReadOrEof = g.newlyReadOrEof
      \/ /\ f.arrived = g.arrived + size /\ f.in = g.in + size
         /\ f.newlyReadOrEof
  BY <1>1 DEF WriteFunction, Request
<1>4. Reported(f, g)
  BY <1>2 DEF Reported
<1> HIDE DEF f
<1>5. f.arrived + g.in = g.arrived + f.in /\ f.arrived >= g.arrived
  BY <1>1, <1>3
<1>6. Onward(f, g)
  BY <1>2, <1>3, <1>5 DEF Onward
<1>7. Wired(f)
  BY <1>1, <1>2 DEF Sound, Wired
<1> QED BY <1>2, <1>4, <1>6, <1>7 DEF f

LEMMA ReadOnward ==
  ASSUME NEW g, Sound(g), Good(g), NEW size \in Nat \ {0}
  PROVE  LET f == ReadFunction(g, size)
         IN  Wired(f) /\ Onward(f, g) /\ Reported(f, g) /\ f.written = g.written
<1> DEFINE f == ReadFunction(g, size)
           b == SwitchToUnbuffered(g)
           n == Lesser(size, Unread(b))
<1>1. /\ g \in Request /\ g.taken \in Nat /\ g.newlyWritten \in Nat
      /\ b \in Request /\ Unread(b) \in Nat
  BY SwitchGood DEF Sound, Good, Request, BodyGood, Unread
<1>2. n \in Nat
  BY <1>1 DEF Lesser
<1>3. /\ b.header = g.header /\ b.result = g.result /\ b.conn = g.conn
      /\ b.errorCondition = g.errorCondition
      /\ b.bodyNotAllowed = g.bodyNotAllowed /\ b.ignoreBody = g.ignoreBody
      /\ b.willWriteBody = g.willWriteBody
      /\ b.arrived = g.arrived /\ b.in = g.in /\ b.newlyReadOrEof = g.newlyReadOrEof
      /\ b.pendingUpdate = g.pendingUpdate
      /\ b.taken = g.taken /\ b.newlyWritten = g.newlyWritten
      /\ b.written = g.written
  BY <1>1 DEF SwitchToUnbuffered, Request
<1>4. f \in {Take(b, n), [b EXCEPT !.eof = TRUE], [b EXCEPT !.pauseSend = TRUE]}
  BY DEF ReadFunction
<1> HIDE DEF b, n, f
<1>5. /\ f.header = b.header /\ f.result = b.result /\ f.conn = b.conn
      /\ f.errorCondition = b.errorCondition
      /\ f.bodyNotAllowed = b.bodyNotAllowed /\ f.ignoreBody = b.ignoreBody
      /\ f.willWriteBody = b.willWriteBody
      /\ f.arrived = b.arrived /\ f.in = b.in /\ f.newlyReadOrEof = b.newlyReadOrEof
      /\ b.pendingUpdate => f.pendingUpdate
      /\ f.written = b.written
  BY ZenonT(60), <1>1, <1>4 DEF Take, Request
<1>6. \/ f.taken = b.taken /\ f.newlyWritten = b.newlyWritten
      \/ f.taken = b.taken + n /\ f.newlyWritten = b.newlyWritten + n
  BY <1>1, <1>4 DEF Take, Request
<1>7. Reported(f, g)
  BY <1>1, <1>2, <1>3, <1>6 DEF Reported
<1>8. Onward(f, g)
  BY <1>1, <1>3, <1>5, OnwardSame
<1>9. Wired(f)
  BY <1>3, <1>5 DEF Sound, Wired
<1> QED BY <1>3, <1>5, <1>7, <1>8, <1>9 DEF f

LEMMA DoneOnward ==
  ASSUME NEW g, Sound(g), g.conn, g.result = "none",
         NEW result \in {"ok", "err"}, result = "ok" => g.header
  PROVE  LET f == Done(g, result)
         IN  Wired(f) /\ Onward(f, g) /\ Reported(f, g) /\ f.written = g.written
<1> DEFINE f == Done(g, result)
<1>1. g \in Request /\ g.in \in Int /\ g.arrived \in Int
  BY SizeAssumption DEF Sound, Request
<1>2. /\ f.arrived = g.arrived /\ f.in = g.in /\ f.header = g.header
      /\ f.newlyReadOrEof /\ f.result = result /\ f.pendingUpdate
      /\ f.conn = g.conn /\ f.errorCondition = g.errorCondition
      /\ f.bodyNotAllowed = g.bodyNotAllowed /\ f.ignoreBody = g.ignoreBody
      /\ f.willWriteBody = g.willWriteBody
      /\ f.taken = g.taken /\ f.newlyWritten = g.newlyWritten
      /\ f.written = g.written
  BY <1>1 DEF Done, Request
<1>3. Reported(f, g)
  BY <1>2 DEF Reported
<1> HIDE DEF f
<1>4. Onward(f, g)
  BY <1>1, <1>2 DEF Onward
<1>5. Wired(f)
  BY <1>1, <1>2 DEF Sound, Wired
<1> QED BY <1>2, <1>3, <1>4, <1>5 DEF f

\* A rewind reports some bytes once more, but never more than fit.
LEMMA SeekOnward ==
  ASSUME NEW g, Sound(g), Good(g), g.conn, g.result = "none"
  PROVE  LET f == SeekFunction(g)
         IN  /\ Wired(f) /\ Onward(f, g) /\ f.written = g.written
             /\ f.taken \in Nat /\ f.newlyWritten = g.newlyWritten
             /\ g.taken <= f.taken + RequestBodyMax
<1>0. g \in Request /\ g.taken \in Nat /\ RequestBodyMax \in Nat
  BY SizeAssumption DEF Sound, Request
<1>1. CASE g.outPos = -1
  <2>1. SeekFunction(g) = Done(g, "err")
    BY <1>1 DEF SeekFunction
  <2>2. /\ Done(g, "err").taken = g.taken
        /\ Done(g, "err").newlyWritten = g.newlyWritten
    BY <1>0 DEF Done, Request
  <2>3. g.taken <= g.taken + RequestBodyMax
    BY <1>0
  <2> QED BY <1>0, <2>1, <2>2, <2>3, DoneOnward
<1>2. CASE g.outPos # -1
  <2> DEFINE f == SeekFunction(g)
  <2>1. f = [g EXCEPT !.outPos = 0, !.taken = 0, !.eof = FALSE]
    BY <1>2 DEF SeekFunction
  <2> HIDE DEF f
  <2>2. /\ f.arrived = g.arrived /\ f.in = g.in /\ f.header = g.header
        /\ f.newlyReadOrEof = g.newlyReadOrEof /\ f.result = g.result
        /\ f.pendingUpdate = g.pendingUpdate
        /\ f.conn = g.conn /\ f.errorCondition = g.errorCondition
        /\ f.bodyNotAllowed = g.bodyNotAllowed /\ f.ignoreBody = g.ignoreBody
        /\ f.willWriteBody = g.willWriteBody
        /\ f.taken = 0 /\ f.newlyWritten = g.newlyWritten
        /\ f.written = g.written
    BY <1>0, <2>1 DEF Request
  <2>3. Onward(f, g) /\ Wired(f)
    BY <1>0, <2>2, OnwardSame DEF Sound, Wired
  <2>4. g.taken <= 0 + RequestBodyMax
    BY <1>0, <1>2 DEF Good, BodyGood
  <2> QED BY <2>2, <2>3, <2>4 DEF f
<1> QED BY <1>1, <1>2

\* What a function that curl or the user runs owes the session.
Moved(f, g) == /\ f \in Request /\ Wired(f) /\ Onward(f, g) /\ Reported(f, g)
               /\ f.written = g.written

LEMMA MovedTrans ==
  ASSUME NEW f \in Request, NEW g \in Request, NEW e \in Request,
         Moved(f, g), Moved(g, e)
  PROVE  Moved(f, e)
  BY OnwardTrans, ReportedTrans DEF Moved

LEMMA StartConnectOnward ==
  ASSUME NEW g, Sound(g), Good(g), ~g.conn,
         ~(g.method = "head" /\ g.willWriteBody),
         g.errorCondition = "none", ~(g.bodyNotAllowed /\ g.willWriteBody)
  PROVE  \A f \in StartConnect(g) : Moved(f, g)
<1> DEFINE c == [g EXCEPT !.conn = TRUE]
<1>1. c \in StartConnect(g) /\ StartConnect(g) = Kick(c)
  BY DEF StartConnect, Kick
<1>2. Good(c) /\ c \in Request /\ g \in Request
  BY <1>1, StartConnectGood DEF Good, Sound
<1>3. /\ c.arrived = g.arrived /\ c.in = g.in /\ c.header = g.header
      /\ c.newlyReadOrEof = g.newlyReadOrEof /\ c.result = g.result
      /\ c.conn /\ c.errorCondition = g.errorCondition
      /\ c.bodyNotAllowed = g.bodyNotAllowed
      /\ c.willWriteBody = g.willWriteBody
      /\ c.taken = g.taken /\ c.newlyWritten = g.newlyWritten
      /\ c.written = g.written
  BY <1>2 DEF Request
<1> HIDE DEF c
<1>4. Sound(c) /\ c.result = "none"
  BY <1>2, <1>3 DEF Sound, Wired
<1>5. Moved(c, g)
  BY <1>2, <1>3, <1>4, OnwardSame DEF Moved, Sound, Reported
<1>6. Moved(Done(c, "err"), c)
  BY <1>2, <1>3, <1>4, DoneOnward, DoneGood DEF Moved, Good
<1>7. Moved(ReadFunction(c, 1), c)
  BY <1>2, <1>4, ReadOnward, ReadFunctionGood DEF Moved, Good
<1>8. Done(c, "err") \in Request /\ ReadFunction(c, 1) \in Request
  BY <1>6, <1>7 DEF Moved
<1>9. Moved(Done(c, "err"), g) /\ Moved(ReadFunction(c, 1), g)
  BY <1>2, <1>5, <1>6, <1>7, <1>8, MovedTrans
<1> QED BY <1>1, <1>5, <1>9 DEF Kick

LEMMA StartOnward ==
  ASSUME NEW method \in Methods, NEW will \in BOOLEAN
  PROVE  \A f \in Start(method, will) : Moved(f, NewRequest)
<1> DEFINE g == [NewRequest EXCEPT !.method = method, !.willWriteBody = will]
           d == [g EXCEPT !.bodyNotAllowed = TRUE]
<1>1. NewRequest \in Request
  BY NewGood DEF Good
<1>2. g \in Request /\ d \in Request
  <2>1. g \in Request
    BY <1>1 DEF Request
  <2> QED BY <2>1 DEF Request
<1>3. Moved(g, NewRequest)
  BY <1>1, <1>2, OnwardSame DEF Moved, Wired, NewRequest, Reported
<1>4. Moved(d, NewRequest)
  BY <1>1, <1>2, OnwardSame DEF Moved, Wired, NewRequest, Reported
<1>5. CASE will /\ method \in {"get", "head"}
  BY <1>3, <1>4, <1>5 DEF Start
<1>6. CASE ~(will /\ method \in {"get", "head"})
  <2>1. /\ ~g.conn /\ ~(g.method = "head" /\ g.willWriteBody)
        /\ g.errorCondition = "none" /\ ~g.bodyNotAllowed
    BY <1>6 DEF NewRequest
  <2>2. Good(g)
    BY <1>2, <2>1, SizeAssumption
       DEF Good, NewRequest, BodyGood, SignalGood, Unread
  <2>3. Start(method, will) = StartConnect(g)
    BY <1>6 DEF Start
  <2>4. Sound(g)
    BY <1>3 DEF Sound, Moved
  <2> HIDE DEF g
  <2>5. \A f \in StartConnect(g) : Moved(f, g) /\ f \in Request
    BY <2>1, <2>2, <2>4, StartConnectOnward DEF Moved
  <2>6. g \in Request
    BY <2>4 DEF Sound
  <2> QED BY <1>1, <1>3, <2>3, <2>5, <2>6, MovedTrans
<1> QED BY <1>5, <1>6

\* The body grows by what is written to it, unless it is ignored.
LEMMA WriteBodyOnward ==
  ASSUME NEW g, Sound(g), Good(g), Open(g), NEW size \in Nat
  PROVE  \A f \in WriteBody(g, size) :
           /\ f \in Request /\ Wired(f) /\ Onward(f, g) /\ Reported(f, g)
           /\ f.written <= g.written + size
<1>0. g \in Request /\ g.written \in Nat /\ g.taken \in Nat
  BY DEF Sound, Request
<1>a. Moved(g, g)
  BY <1>0, OnwardSame DEF Moved, Sound, Reported
<1>1. CASE size = 0 \/ g.ignoreBody
  <2>1. WriteBody(g, size) = {g}
    BY <1>1 DEF WriteBody, Open
  <2>2. g.written <= g.written + size
    BY <1>0
  <2> QED BY <1>a, <2>1, <2>2 DEF Moved
<1>2. CASE ~(size = 0 \/ g.ignoreBody) /\ g.bodyNotAllowed
  <2> DEFINE f == [g EXCEPT !.ignoreBody = TRUE,
                            !.errorCondition = "body-not-allowed"]
  <2>1. WriteBody(g, size) = {f}
    BY <1>2 DEF WriteBody, Open
  <2>2. f \in Request
    BY <1>0 DEF Request
  <2>3. /\ f.arrived = g.arrived /\ f.in = g.in /\ f.header = g.header
        /\ f.newlyReadOrEof = g.newlyReadOrEof /\ f.result = g.result
        /\ f.pendingUpdate = g.pendingUpdate /\ f.ignoreBody
        /\ f.conn = g.conn /\ f.errorCondition = "body-not-allowed"
        /\ f.bodyNotAllowed = g.bodyNotAllowed /\ f.willWriteBody = g.willWriteBody
        /\ f.taken = g.taken /\ f.newlyWritten = g.newlyWritten
        /\ f.written = g.written
    BY <1>0 DEF Request
  <2> HIDE DEF f
  <2>4. Onward(f, g) /\ Reported(f, g)
    BY <1>0, <2>3, OnwardSame DEF Reported
  <2>5. Wired(f)
    BY <1>2, <2>3 DEF Sound, Wired, Open
  <2> QED BY <1>0, <2>1, <2>2, <2>3, <2>4, <2>5
<1>3. CASE ~(size = 0 \/ g.ignoreBody) /\ ~g.bodyNotAllowed
  <2> DEFINE put(x) == [x EXCEPT !.out = @ + size, !.written = @ + size,
                                 !.pauseSend = FALSE]
  <2>1. \A x \in IF g.conn THEN {g} ELSE StartConnect(g) : Moved(x, g)
    <3>1. g.errorCondition = "none" /\ ~(g.method = "head" /\ g.willWriteBody)
      BY <1>3 DEF Sound, Wired, Good
    <3> QED BY <1>3, <1>a, <3>1, StartConnectOnward
  <2>2. ASSUME NEW x, Moved(x, g)
        PROVE  /\ put(x) \in Request /\ Wired(put(x)) /\ Onward(put(x), g)
               /\ Reported(put(x), g) /\ put(x).written <= g.written + size
    <3> DEFINE f == put(x)
    <3>1. /\ x \in Request /\ x.out + size \in Nat /\ x.written + size \in Nat
          /\ x.written = g.written
      BY <2>2 DEF Moved, Request
    <3>2. f \in Request
      BY <3>1 DEF Request
    <3>3. /\ f.arrived = x.arrived /\ f.in = x.in /\ f.header = x.header
          /\ f.newlyReadOrEof = x.newlyReadOrEof /\ f.result = x.result
          /\ f.pendingUpdate = x.pendingUpdate /\ f.ignoreBody = x.ignoreBody
          /\ f.conn = x.conn /\ f.errorCondition = x.errorCondition
          /\ f.bodyNotAllowed = x.bodyNotAllowed
          /\ f.willWriteBody = x.willWriteBody
          /\ f.taken = x.taken /\ f.newlyWritten = x.newlyWritten
          /\ f.written = x.written + size
      BY <3>1 DEF Request
    <3> HIDE DEF f
    <3>4. Onward(f, g) /\ Wired(f) /\ Reported(f, g)
      BY <2>2, <3>3 DEF Moved, Onward, Wired, Reported
    <3>5. f.written <= g.written + size
      BY <1>0, <3>1, <3>3
    <3> QED BY <3>2, <3>4, <3>5 DEF f
  <2>3. WriteBody(g, size) =
          {put(x) : x \in IF g.conn THEN {g} ELSE StartConnect(g)}
    BY <1>3 DEF WriteBody, Open
  <2> QED BY <2>1, <2>2, <2>3
<1> QED BY <1>1, <1>2, <1>3

LEMMA EndBodyOnward ==
  ASSUME NEW g, Sound(g), Good(g), g.willWriteBody
  PROVE  \A f \in EndBody(g) : Moved(f, g)
<1>0. g \in Request
  BY DEF Sound
<1>a. Moved(g, g)
  BY <1>0, OnwardSame DEF Moved, Sound, Reported
<1>1. CASE g.ignoreBody
  BY <1>a, <1>1 DEF EndBody
<1>2. CASE ~g.ignoreBody
  <2> DEFINE n == [g EXCEPT !.willWriteBody = FALSE]
             end(x) == [x EXCEPT !.outFinished = TRUE, !.pauseSend = FALSE]
  <2>1. n \in Request /\ ~n.willWriteBody
    BY <1>0 DEF Request
  <2>2. /\ n.arrived = g.arrived /\ n.in = g.in /\ n.header = g.header
        /\ n.newlyReadOrEof = g.newlyReadOrEof /\ n.result = g.result
        /\ n.pendingUpdate = g.pendingUpdate /\ n.ignoreBody = g.ignoreBody
        /\ n.conn = g.conn /\ n.errorCondition = g.errorCondition
        /\ n.taken = g.taken /\ n.newlyWritten = g.newlyWritten
        /\ n.written = g.written
    BY <1>0 DEF Request
  <2>3. Good(n)
    <3>1. BodyGood(n) /\ SignalGood(n)
      BY BodySame DEF Good, Request, SignalGood
    <3> QED BY <2>1, <3>1 DEF Good, Request
  <2> HIDE DEF n
  <2>4. Sound(n) /\ Moved(n, g)
    BY <1>0, <2>1, <2>2, OnwardSame DEF Sound, Wired, Moved, Reported
  <2>5. \A x \in IF g.conn THEN {g} ELSE StartConnect(n) : Moved(x, g)
    <3>1. CASE g.conn
      BY <1>a, <3>1
    <3>2. CASE ~g.conn
      <4>1. n.errorCondition = "none" /\ ~n.conn
        BY <1>2, <2>2, <3>2 DEF Sound, Wired
      <4>2. \A x \in StartConnect(n) : Moved(x, n) /\ x \in Request
        BY <2>1, <2>3, <2>4, <4>1, StartConnectOnward DEF Moved
      <4> QED BY <1>0, <2>1, <2>4, <3>2, <4>2, MovedTrans
    <3> QED BY <3>1, <3>2
  <2>6. ASSUME NEW x, Moved(x, g) PROVE Moved(end(x), g)
    <3> DEFINE f == end(x)
    <3>1. x \in Request
      BY <2>6 DEF Moved
    <3>2. f \in Request
      BY <3>1 DEF Request
    <3>3. /\ f.arrived = x.arrived /\ f.in = x.in /\ f.header = x.header
          /\ f.newlyReadOrEof = x.newlyReadOrEof /\ f.result = x.result
          /\ f.pendingUpdate = x.pendingUpdate /\ f.ignoreBody = x.ignoreBody
          /\ f.conn = x.conn /\ f.errorCondition = x.errorCondition
          /\ f.bodyNotAllowed = x.bodyNotAllowed
          /\ f.willWriteBody = x.willWriteBody
          /\ f.taken = x.taken /\ f.newlyWritten = x.newlyWritten
          /\ f.written = x.written
      BY <3>1 DEF Request
    <3> HIDE DEF f
    <3>4. Moved(f, g)
      BY <2>6, <3>2, <3>3 DEF Moved, Onward, Wired, Reported
    <3> QED BY <3>4 DEF f
  <2>7. EndBody(g) = {end(x) : x \in IF g.conn THEN {g} ELSE StartConnect(n)}
    BY <1>2 DEF EndBody, n
  <2> QED BY <2>5, <2>6, <2>7
<1> QED BY <1>1, <1>2

\* A read takes n bytes, and more may come in at the same time.
LEMMA ReadResponseOnward ==
  ASSUME NEW g, Sound(g), NEW size \in {-1} \cup Nat
  PROVE  LET n == Readable(g, size)
         IN  /\ n \in 0..g.in
             /\ \A f \in ReadResponseBody(g, size) :
                  /\ f \in Request /\ Wired(f) /\ Reported(f, g)
                  /\ f.written = g.written
                  /\ f.arrived + g.in = g.arrived + f.in + n
                  /\ f.arrived >= g.arrived
                  /\ f.header = g.header /\ f.result = g.result
                  /\ f.errorCondition = g.errorCondition
                  /\ g.newlyReadOrEof => f.newlyReadOrEof
                  /\ ~f.newlyReadOrEof => f.in = g.in - n
                  /\ g.result # "none" => f.in = g.in - n
<1> DEFINE n == Readable(g, size)
           r == [g EXCEPT !.in = @ - n, !.pauseRecv = FALSE]
<1>0. /\ g \in Request /\ g.in \in Nat /\ g.in <= BufferSize /\ BufferSize \in Nat
      /\ g.arrived \in Nat
  BY SizeAssumption DEF Sound, Request
<1>1. n \in 0..g.in
  BY <1>0 DEF Readable, Lesser
<1> HIDE DEF n
<1>2. CASE ~g.conn \/ n = 0
  <2>1. n = 0
    BY <1>1, <1>2 DEF Sound, Wired
  <2>2. ReadResponseBody(g, size) = {g}
    BY <1>2 DEF ReadResponseBody, n
  <2>3. g.arrived + g.in = g.arrived + g.in + n /\ g.in = g.in - n
    BY <1>0, <2>1
  <2> QED BY <1>0, <1>1, <2>2, <2>3 DEF Sound, Reported, n
<1>3. CASE ~(~g.conn \/ n = 0)
  <2>1. r \in Request
    <3>1. g.in - n \in 0..BufferSize
      BY <1>0, <1>1
    <3> QED BY <1>0, <3>1 DEF Request
  <2>2. /\ r.arrived = g.arrived /\ r.in = g.in - n /\ r.header = g.header
        /\ r.newlyReadOrEof = g.newlyReadOrEof /\ r.result = g.result
        /\ r.pendingUpdate = g.pendingUpdate /\ r.ignoreBody = g.ignoreBody
        /\ r.conn = g.conn /\ r.errorCondition = g.errorCondition
        /\ r.bodyNotAllowed = g.bodyNotAllowed
        /\ r.willWriteBody = g.willWriteBody
        /\ r.taken = g.taken /\ r.newlyWritten = g.newlyWritten
        /\ r.written = g.written
    BY <1>0 DEF Request
  <2>3. g.in > 0 /\ g.header
    BY <1>0, <1>1, <1>3 DEF Sound, Wired
  <2> HIDE DEF r
  <2>4. Sound(r)
    BY <2>1, <2>2, <2>3 DEF Sound, Wired
  <2>5. ASSUME NEW f \in Request, Wired(f), Reported(f, r), Onward(f, r),
               f.written = r.written, f.header = r.header, f.result = r.result,
               f.errorCondition = r.errorCondition
        PROVE  /\ f \in Request /\ Wired(f) /\ Reported(f, g)
               /\ f.written = g.written
               /\ f.arrived + g.in = g.arrived + f.in + n
               /\ f.arrived >= g.arrived
               /\ f.header = g.header /\ f.result = g.result
               /\ f.errorCondition = g.errorCondition
               /\ g.newlyReadOrEof => f.newlyReadOrEof
               /\ ~f.newlyReadOrEof => f.in = g.in - n
               /\ g.result # "none" => f.in = g.in - n
    <3>1. f.arrived \in Nat /\ f.in \in Nat
      BY <2>5, SizeAssumption DEF Request
    <3>2. f.arrived + r.in = r.arrived + f.in
      BY <2>5 DEF Onward
    <3>3. f.arrived + g.in = g.arrived + f.in + n
      BY <1>0, <1>1, <2>2, <3>1, <3>2
    <3> QED BY <2>2, <2>5, <3>3 DEF Onward, Reported
  <2>6. ASSUME NEW k \in Chunk, r.result = "none"
        PROVE  LET f == WriteFunction(r, k)
               IN  /\ f \in Request /\ Wired(f) /\ Reported(f, r) /\ Onward(f, r)
                   /\ f.written = r.written /\ f.header = r.header
                   /\ f.result = r.result /\ f.errorCondition = r.errorCondition
    <3> DEFINE f == WriteFunction(r, k)
    <3>1. Wired(f) /\ Reported(f, r) /\ Onward(f, r) /\ f.written = r.written
      BY <2>2, <2>3, <2>4, <2>6, WriteOnward
    <3>2. /\ f.header = r.header /\ f.result = r.result
          /\ f.errorCondition = r.errorCondition
      BY <2>1 DEF WriteFunction, Request
    <3>3. f \in Request
      <4>1. /\ r.in \in Nat /\ r.arrived \in Nat /\ k \in Nat /\ BufferSize \in Nat
            /\ r.arrived + k \in Nat
        BY <2>1, SizeAssumption DEF Request, Chunk
      <4>2. CASE r.in + k > BufferSize
        BY <2>1, <4>2 DEF WriteFunction, Request
      <4>3. CASE ~(r.in + k > BufferSize)
        <5>1. r.in + k \in 0..BufferSize
          BY <4>1, <4>3
        <5> QED BY <2>1, <4>1, <4>3, <5>1 DEF WriteFunction, Request
      <4> QED BY <4>2, <4>3
    <3> QED BY <3>1, <3>2, <3>3
  <2>7. Reported(r, r) /\ Onward(r, r)
    BY <2>1, OnwardSame DEF Reported
  <2>8. ReadResponseBody(g, size) \subseteq
          {r} \cup (IF r.result = "none" THEN {WriteFunction(r, k) : k \in Chunk}
                                         ELSE {})
    BY <1>3 DEF ReadResponseBody, Unpaused, r, n
  <2>9. \A f \in ReadResponseBody(g, size) :
          /\ f \in Request /\ Wired(f) /\ Reported(f, r) /\ Onward(f, r)
          /\ f.written = r.written /\ f.header = r.header
          /\ f.result = r.result /\ f.errorCondition = r.errorCondition
    BY <2>1, <2>4, <2>6, <2>7, <2>8 DEF Sound
  <2> QED BY <1>1, <2>5, <2>9 DEF n
<1> QED BY <1>2, <1>3

\* What a report leaves of a request that has not failed.
LEMMA UpdatedOnward ==
  ASSUME NEW g, Sound(g), g.result # "err"
  PROVE  LET f == Updated(g)
         IN  /\ f \in Request /\ Wired(f) /\ Same(f, g)
             /\ ~f.newlyReadOrEof /\ f.newlyWritten = 0
             /\ f.taken = g.taken /\ f.written = g.written
             /\ f.arrived = g.arrived /\ f.in = g.in /\ f.header = g.header
             /\ f.result = g.result /\ f.errorCondition = g.errorCondition
<1> DEFINE f == Updated(g)
<1>1. g \in Request
  BY DEF Sound
<1>2. f = [g EXCEPT !.pendingUpdate = FALSE, !.newlyReadOrEof = FALSE,
                    !.newlyWritten = 0]
  BY DEF Updated
<1> HIDE DEF f
<1>3. f \in Request
  BY <1>1, <1>2 DEF Request
<1>4. /\ ~f.newlyReadOrEof /\ f.newlyWritten = 0
      /\ f.taken = g.taken /\ f.written = g.written
      /\ f.arrived = g.arrived /\ f.in = g.in /\ f.header = g.header
      /\ f.result = g.result /\ f.errorCondition = g.errorCondition
      /\ f.conn = g.conn /\ f.bodyNotAllowed = g.bodyNotAllowed
      /\ f.ignoreBody = g.ignoreBody /\ f.willWriteBody = g.willWriteBody
      /\ f.outFinished = g.outFinished
  BY <1>1, <1>2 DEF Request
<1>5. Wired(f)
  BY <1>4 DEF Sound, Wired
<1> QED BY <1>3, <1>4, <1>5 DEF Same, f
=============================================================================
