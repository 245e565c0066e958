------------------------- MODULE HttpRequestProofs -------------------------
(***************************************************************************)
(* Proofs about HttpRequest, for buffers and bodies of any size, and any   *)
(* number of rewinds.  The lemmas of HttpTransferProofs say what each      *)
(* function keeps of a request; the invariant of the specification adds    *)
(* what the user knows.                                                    *)
(***************************************************************************)
EXTENDS HttpRequest, HttpTransferProofs

\* The safety properties of HttpRequest that Good implies.
Claims ==
  /\ NoAssertFails /\ RecvPauseHasReader /\ SendPauseOnlyWhenDrained
  /\ UploadPositionExact /\ NoEarlyEof /\ RewindableWhileSmall

\* The inductive invariant.
ReqInv ==
  /\ TypeOK
  /\ user # "gone" => Good(h)
  /\ user = "open" => Open(h)
  /\ Claims

----------------------------------------------------------------------------
LEMMA GoodImplies ==
  Good(h) /\ (user = "open" => Open(h)) => Claims
<1> SUFFICES ASSUME Good(h), user = "open" => Open(h) PROVE Claims
  OBVIOUS
<1>1. h.taken \in Nat /\ h.written \in Nat
  BY DEF Good, Request
<1>2. NoEarlyEof
  BY <1>1 DEF Good, BodyGood, Open, NoEarlyEof
<1> QED
  BY <1>2 DEF Good, BodyGood, Claims, NoAssertFails, RecvPauseHasReader,
         SendPauseOnlyWhenDrained, UploadPositionExact, RewindableWhileSmall

LEMMA InitInv == Init => ReqInv
  BY NewGood, GoodImplies, UploadAssumption DEF Init, ReqInv, TypeOK, Good

LEMMA StepInv == ReqInv /\ [Next]_vars => ReqInv'
<1> SUFFICES ASSUME ReqInv, [Next]_vars PROVE ReqInv'
  OBVIOUS
<1> USE UploadAssumption
<1>a. user # "gone" => Good(h)
  BY DEF ReqInv
<1>b. ASSUME Good(h'), rewinds' \in 0..MaxRewinds,
             user' \in {"new", "open", "ended", "gone"},
             user' = "open" => Open(h')
      PROVE  ReqInv'
  <2>1. Claims'
    <3>1. (Good(h) /\ (user = "open" => Open(h)) => Claims)'
      BY GoodImplies, PTL
    <3> QED BY <1>b, <3>1
  <2> QED BY <1>b, <2>1 DEF ReqInv, TypeOK, Good
<1>c. rewinds \in 0..MaxRewinds /\ user \in {"new", "open", "ended", "gone"}
  BY DEF ReqInv, TypeOK
<1>1. ASSUME NEW method \in Methods, NEW will \in BOOLEAN, UserStart(method, will)
      PROVE  ReqInv'
  BY <1>1, <1>b, <1>c, StartGood DEF UserStart, Open, Same
<1>2. ASSUME NEW size \in 0..MaxUpload, UserWriteBody(size) PROVE ReqInv'
  <2>1. size \in Nat /\ Open(h) /\ Good(h)
    BY <1>2, <1>a DEF UserWriteBody, ReqInv
  <2> QED BY <1>2, <2>1, <1>b, <1>c, WriteBodyGood DEF UserWriteBody, Open, Same
<1>3. CASE UserEndBody
  <2>1. Open(h) /\ Good(h)
    BY <1>3, <1>a DEF UserEndBody, ReqInv
  <2> QED BY <1>3, <2>1, <1>b, <1>c, EndBodyGood DEF UserEndBody, Open, Same
<1>4. ASSUME NEW size \in {-1} \cup Chunk, UserRead(size) PROVE ReqInv'
  <2>1. /\ Good(h) /\ (user = "open" => Open(h))
        /\ size \in {-1} \cup Nat
    BY <1>4, <1>a, SizeAssumption DEF UserRead, ReqInv, Chunk
  <2> QED BY <1>4, <2>1, <1>b, <1>c, ReadGood DEF UserRead, Open, Same
<1>5. CASE UserDelete \/ QueuedError
  BY <1>5 DEF UserDelete, QueuedError, ReqInv, TypeOK, Claims, NoAssertFails,
         RecvPauseHasReader, SendPauseOnlyWhenDrained, UploadPositionExact,
         NoEarlyEof, RewindableWhileSmall
<1>6. CASE CurlHeader
  <2>1. Good(h) /\ (user = "open" => Open(h))
    BY <1>6, <1>a DEF CurlHeader, Active, ReqInv
  <2>2. Same(HeaderFunction(h), h)
    BY <2>1, HeaderGood
  <2> QED BY <1>6, <2>1, <2>2, <1>b, <1>c, HeaderGood DEF CurlHeader, Open, Same
<1>7. ASSUME NEW size \in Chunk, CurlWrite(size) PROVE ReqInv'
  <2>1. Good(h) /\ (user = "open" => Open(h))
    BY <1>7, <1>a DEF CurlWrite, Active, ReqInv
  <2>2. Same(WriteFunction(h, size), h)
    BY <2>1 DEF WriteFunction, Good, Request, Same
  <2> QED BY <1>7, <2>1, <2>2, <1>b, <1>c, WriteFunctionGood DEF CurlWrite, Open, Same
<1>8. ASSUME NEW size \in Chunk, CurlRead(size) PROVE ReqInv'
  <2>1. Good(h) /\ (user = "open" => Open(h))
    BY <1>8, <1>a DEF CurlRead, Active, ReqInv
  <2>2. size \in Nat \ {0}
    BY SizeAssumption DEF Chunk
  <2>3. Same(ReadFunction(h, size), h)
    BY <2>1 DEF ReadFunction, SwitchToUnbuffered, Take, Good, Request, Same
  <2> QED BY <1>8, <2>1, <2>2, <2>3, <1>b, <1>c, ReadFunctionGood DEF CurlRead, Open, Same
<1>9. CASE CurlSeek
  <2>1. Good(h) /\ (user = "open" => Open(h)) /\ ~h.pauseSend
    BY <1>9, <1>a DEF CurlSeek, Active, ReqInv
  <2>2. Same(SeekFunction(h), h)
    BY <2>1 DEF SeekFunction, Done, Good, Request, Same
  <2>3. rewinds' \in 0..MaxRewinds
    BY <1>9, <1>c DEF CurlSeek
  <2> QED BY <1>9, <2>1, <2>2, <2>3, <1>b, <1>c, SeekGood DEF CurlSeek, Open, Same
<1>10. ASSUME NEW result \in {"ok", "err"}, CurlDone(result) PROVE ReqInv'
  <2>1. Good(h) /\ (user = "open" => Open(h))
    BY <1>10, <1>a DEF CurlDone, Active, ReqInv
  <2>2. Same(Done(h, result), h)
    BY <2>1, DoneGood
  <2> QED BY <1>10, <2>1, <2>2, <1>b, <1>c, DoneGood DEF CurlDone, Open, Same
<1>11. CASE ConnUpdated
  <2>1. Good(h) /\ (user = "open" => Open(h))
    BY <1>11, <1>a DEF ConnUpdated, ReqInv
  <2>2. CASE h.result = "err"
    <3>1. user' = "gone" /\ rewinds' = rewinds
      BY <1>11, <2>2 DEF ConnUpdated
    <3>2. h' = [h EXCEPT !.pendingUpdate = FALSE, !.errorCondition = "transfer"]
      BY <1>11, <2>2 DEF ConnUpdated, Updated
    <3>3. h' \in Request
      BY <2>1, <3>2 DEF Good, Request
    <3>4. Claims'
      BY <2>1, <3>1, <3>2 DEF Good, BodyGood, Unread, Request, Claims,
         NoAssertFails, RecvPauseHasReader, SendPauseOnlyWhenDrained,
         UploadPositionExact, NoEarlyEof, RewindableWhileSmall
    <3> QED BY <3>1, <3>3, <3>4, <1>c DEF ReqInv, TypeOK
  <2>3. CASE h.result # "err"
    <3>1. Same(Updated(h), h)
      BY <2>1 DEF Updated, Good, Request, Same
    <3> QED BY <1>11, <2>1, <2>3, <3>1, <1>b, <1>c, UpdatedGood DEF ConnUpdated, Open, Same
  <2> QED BY <2>2, <2>3
<1>12. CASE UNCHANGED vars
  BY <1>12 DEF vars, ReqInv, TypeOK, Claims, NoAssertFails,
         RecvPauseHasReader, SendPauseOnlyWhenDrained, UploadPositionExact,
         NoEarlyEof, RewindableWhileSmall
<1> QED BY <1>1, <1>2, <1>3, <1>4, <1>5, <1>6, <1>7, <1>8, <1>9, <1>10, <1>11,
           <1>12 DEF Next

LEMMA SpecInv == Spec => []ReqInv
  BY InitInv, StepInv, PTL DEF Spec

----------------------------------------------------------------------------
\* The record of a request is well-typed; in particular the response buffer
\* never holds more than BUFFER_SIZE bytes.
THEOREM TypeCorrect == Spec => []TypeOK
<1>1. ReqInv => TypeOK
  BY DEF ReqInv, Claims
<1> QED BY <1>1, SpecInv, PTL

\* The asserts of HttpRequest and CurlConnection hold.
THEOREM AssertsHold == Spec => []NoAssertFails
<1>1. ReqInv => NoAssertFails
  BY DEF ReqInv, Claims
<1> QED BY <1>1, SpecInv, PTL

\* A transfer whose receiving is paused has data that a reader will fetch.
THEOREM RecvPauseEnds == Spec => []RecvPauseHasReader
<1>1. ReqInv => RecvPauseHasReader
  BY DEF ReqInv, Claims
<1> QED BY <1>1, SpecInv, PTL

\* A transfer whose sending is paused waits for the user, and the user knows.
THEOREM SendPauseEnds == Spec => []SendPauseOnlyWhenDrained
<1>1. ReqInv => SendPauseOnlyWhenDrained
  BY DEF ReqInv, Claims
<1> QED BY <1>1, SpecInv, PTL

\* No step loses a wake-up of the user.
THEOREM SignalsKept == Spec => []NoLostSignal
<1>1. ReqInv => NoLostSignal
  BY DEF ReqInv, Good, SignalGood, NoLostSignal
<1> QED BY <1>1, SpecInv, PTL

\* The upload neither loses nor repeats a byte.
THEOREM UploadExact == Spec => []UploadPositionExact
<1>1. ReqInv => UploadPositionExact
  BY DEF ReqInv, Claims
<1> QED BY <1>1, SpecInv, PTL

\* curl is never told too early that the body ends.
THEOREM EofLast == Spec => []NoEarlyEof
<1>1. ReqInv => NoEarlyEof
  BY DEF ReqInv, Claims
<1> QED BY <1>1, SpecInv, PTL

\* A body that fits into the buffer can be rewound.
THEOREM SmallBodiesRewind == Spec => []RewindableWhileSmall
<1>1. ReqInv => RewindableWhileSmall
  BY DEF ReqInv, Claims
<1> QED BY <1>1, SpecInv, PTL
=============================================================================
