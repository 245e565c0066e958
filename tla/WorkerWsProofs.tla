--------------------------- MODULE WorkerWsProofs ---------------------------
(***************************************************************************)
(* Proofs about WorkerWs: what a session over the WebSocket transport      *)
(* keeps, for every request, every run of frames and every bound, and that *)
(* it implements WsSession.                                                *)
(*                                                                         *)
(* First come the folds that add up bytes, frames and chunks; then each    *)
(* function of the WebSocket, about which a lemma says what it leaves of   *)
(* the invariant Good of a WebSocket and which signals it emits (Carries,  *)
(* Taking, Upgraded, Written); then the worker, whose slots run for these  *)
(* signals one after the other (Leads); and last the server that the       *)
(* socket is connected to (Served).  The theorems have the hypothesis      *)
(* Ordinary, which is explained where WorkerWs defines it.                 *)
(***************************************************************************)
EXTENDS WorkerWs, SequenceTheorems, TLAPS

----------------------------------------------------------------------------
\* What the folds of the WebSocket compute.
B == INSTANCE FoldLemmas WITH Op <- AddSize
F == INSTANCE FoldLemmas WITH Op <- CountFrame

LEMMA BytesFold == ASSUME NEW q PROVE Bytes(q) = B!Fold(0, q)
BY DEF Bytes, B!Fold, FoldLeft, MapThenFoldSet, Max, B!FoldLeft, B!MapThenFoldSet, B!Max

LEMMA FrameFold == ASSUME NEW q PROVE FrameCount(q) = F!Fold(0, q)
BY DEF FrameCount, F!Fold, FoldLeft, MapThenFoldSet, Max, F!FoldLeft, F!MapThenFoldSet, F!Max

LEMMA BytesAppend ==
  ASSUME NEW Elem, NEW q \in Seq(Elem), NEW x \in Elem
  PROVE  Bytes(Append(q, x)) = Bytes(q) + x.size
BY BytesFold, B!FoldAppend DEF AddSize

LEMMA BytesEmpty == Bytes(<<>>) = 0
BY BytesFold, B!FoldEmpty

\* Sequences of items that have a size.
Sized(Elem) == \A x \in Elem : x.size \in Nat

LEMMA BytesNat ==
  ASSUME NEW Elem, Sized(Elem), NEW q \in Seq(Elem)
  PROVE  Bytes(q) \in Nat
<1>1. \A a \in Nat, x \in Elem : AddSize(a, x) \in Nat
  BY DEF Sized, AddSize
<1> QED BY <1>1, BytesFold, B!FoldIn

LEMMA BytesConcat ==
  ASSUME NEW Elem, Sized(Elem), NEW p \in Seq(Elem), NEW q \in Seq(Elem)
  PROVE  Bytes(p \o q) = Bytes(p) + Bytes(q)
<1> DEFINE T == {r \in Seq(Elem) : Bytes(p \o r) = Bytes(p) + Bytes(r)}
<1>1. <<>> \in T
  <2>1. p \o <<>> = p /\ Bytes(p) \in Nat
    BY BytesNat
  <2> QED BY <2>1, BytesEmpty
<1>2. ASSUME NEW r \in Seq(Elem), NEW x \in Elem, r \in T PROVE Append(r, x) \in T
  <2>1. p \o Append(r, x) = Append(p \o r, x) /\ p \o r \in Seq(Elem)
    OBVIOUS
  <2>2. /\ Bytes(Append(p \o r, x)) = Bytes(p \o r) + x.size
        /\ Bytes(Append(r, x)) = Bytes(r) + x.size
    BY <2>1, BytesAppend
  <2>3. x.size \in Nat /\ Bytes(p) \in Nat /\ Bytes(r) \in Nat
    BY BytesNat DEF Sized
  <2>4. Bytes(p \o r) = Bytes(p) + Bytes(r)
    BY <1>2
  <2>5. Bytes(p \o Append(r, x)) = Bytes(p) + Bytes(Append(r, x))
    BY <2>1, <2>2, <2>3, <2>4
  <2>6. Append(r, x) \in Seq(Elem)
    OBVIOUS
  <2> QED BY <2>5, <2>6
<1> HIDE DEF T
<1>3. Seq(Elem) \subseteq T
  BY <1>1, <1>2, B!SeqInduction
<1> QED BY <1>3 DEF T

LEMMA BytesSplit ==
  ASSUME NEW Elem, Sized(Elem), NEW q \in Seq(Elem), NEW n \in 0..Len(q)
  PROVE  LET p == SubSeq(q, 1, n)
             r == SubSeq(q, n + 1, Len(q))
         IN  /\ p \in Seq(Elem) /\ r \in Seq(Elem) /\ q = p \o r
             /\ Bytes(p) \in Nat /\ Bytes(r) \in Nat
             /\ Bytes(q) = Bytes(p) + Bytes(r)
<1> DEFINE p == SubSeq(q, 1, n)
           r == SubSeq(q, n + 1, Len(q))
<1>1. p \in Seq(Elem) /\ r \in Seq(Elem)
  OBVIOUS
<1>2. q = p \o r
  <2>1. 1 \in 1..(Len(q) + 1) /\ n \in (1 - 1)..Len(q) /\ Len(q) \in n..Len(q)
    OBVIOUS
  <2> QED BY <2>1, ConcatAdjacentSubSeq, SubSeqFull
<1> HIDE DEF p, r
<1>3. Bytes(p \o r) = Bytes(p) + Bytes(r) /\ Bytes(p) \in Nat /\ Bytes(r) \in Nat
  BY <1>1, BytesConcat, BytesNat
<1>4. Bytes(q) = Bytes(p) + Bytes(r)
  BY <1>2, <1>3
<1> QED BY <1>1, <1>2, <1>3, <1>4 DEF p, r

\* One item more.
LEMMA BytesNext ==
  ASSUME NEW Elem, Sized(Elem), NEW q \in Seq(Elem), NEW n \in Nat, n < Len(q)
  PROVE  Bytes(SubSeq(q, 1, n + 1)) = Bytes(SubSeq(q, 1, n)) + q[n + 1].size
<1>1. /\ SubSeq(q, 1, n) \in Seq(Elem) /\ q[n + 1] \in Elem
      /\ SubSeq(q, 1, n + 1) = Append(SubSeq(q, 1, n), q[n + 1])
  OBVIOUS
<1> QED BY <1>1, BytesAppend

LEMMA BytesHead ==
  ASSUME NEW Elem, Sized(Elem), NEW q \in Seq(Elem), q # <<>>
  PROVE  /\ q[1] \in Elem /\ Tail(q) \in Seq(Elem) /\ Bytes(Tail(q)) \in Nat
         /\ Bytes(q) = q[1].size + Bytes(Tail(q))
<1>1. /\ q[1] \in Elem /\ Tail(q) \in Seq(Elem) /\ <<q[1]>> \in Seq(Elem)
      /\ q = <<q[1]>> \o Tail(q) /\ <<q[1]>> = Append(<<>>, q[1]) /\ <<>> \in Seq(Elem)
  OBVIOUS
<1>2. Bytes(<<q[1]>>) = q[1].size
  <2>1. Bytes(<<q[1]>>) = 0 + q[1].size
    BY <1>1, BytesAppend, BytesEmpty
  <2> QED BY <1>1, <2>1 DEF Sized
<1>3. Bytes(q) = Bytes(<<q[1]>>) + Bytes(Tail(q)) /\ Bytes(Tail(q)) \in Nat
  BY <1>1, BytesConcat, BytesNat
<1> QED BY <1>1, <1>2, <1>3

\* Items that take space leave no empty sum.
LEMMA BytesZero ==
  ASSUME NEW Elem, Sized(Elem), NEW q \in Seq(Elem), Bytes(q) = 0,
         \A i \in 1..Len(q) : q[i].size > 0
  PROVE  q = <<>>
<1> SUFFICES ASSUME q # <<>> PROVE FALSE
  OBVIOUS
<1>1. 1 \in 1..Len(q)
  OBVIOUS
<1>2. q[1].size > 0 /\ q[1].size \in Nat
  BY <1>1, BytesHead DEF Sized
<1> QED BY <1>2, BytesHead

----------------------------------------------------------------------------
LEMMA FrameEmpty == FrameCount(<<>>) = 0
BY FrameFold, F!FoldEmpty

LEMMA FrameAppend ==
  ASSUME NEW q \in Seq(Write), NEW x \in Write
  PROVE  FrameCount(Append(q, x)) = IF x.frame THEN FrameCount(q) + 1 ELSE FrameCount(q)
BY FrameFold, F!FoldAppend DEF CountFrame

LEMMA FrameNat ==
  ASSUME NEW q \in Seq(Write)
  PROVE  FrameCount(q) \in Nat
<1>1. \A a \in Nat, x \in Write : CountFrame(a, x) \in Nat
  BY DEF CountFrame
<1> QED BY <1>1, FrameFold, F!FoldIn

LEMMA FrameConcat ==
  ASSUME NEW p \in Seq(Write), NEW q \in Seq(Write)
  PROVE  FrameCount(p \o q) = FrameCount(p) + FrameCount(q)
<1> DEFINE T == {r \in Seq(Write) : FrameCount(p \o r) = FrameCount(p) + FrameCount(r)}
<1>1. <<>> \in T
  <2>1. p \o <<>> = p /\ FrameCount(p) \in Nat
    BY FrameNat
  <2> QED BY <2>1, FrameEmpty
<1>2. ASSUME NEW r \in Seq(Write), NEW x \in Write, r \in T PROVE Append(r, x) \in T
  <2>1. p \o Append(r, x) = Append(p \o r, x) /\ p \o r \in Seq(Write)
    OBVIOUS
  <2>2. /\ FrameCount(Append(p \o r, x))
             = IF x.frame THEN FrameCount(p \o r) + 1 ELSE FrameCount(p \o r)
        /\ FrameCount(Append(r, x)) = IF x.frame THEN FrameCount(r) + 1 ELSE FrameCount(r)
    BY <2>1, FrameAppend
  <2>3. FrameCount(p) \in Nat /\ FrameCount(r) \in Nat
    BY FrameNat
  <2>4. FrameCount(p \o r) = FrameCount(p) + FrameCount(r)
    BY <1>2
  <2>5. FrameCount(p \o Append(r, x)) = FrameCount(p) + FrameCount(Append(r, x))
    BY <2>1, <2>2, <2>3, <2>4
  <2>6. Append(r, x) \in Seq(Write)
    OBVIOUS
  <2> QED BY <2>5, <2>6
<1> HIDE DEF T
<1>3. Seq(Write) \subseteq T
  BY <1>1, <1>2, F!SeqInduction
<1> QED BY <1>3 DEF T

LEMMA FrameSplit ==
  ASSUME NEW q \in Seq(Write), NEW n \in 0..Len(q)
  PROVE  LET p == SubSeq(q, 1, n)
             r == SubSeq(q, n + 1, Len(q))
         IN  /\ FrameCount(p) \in Nat /\ FrameCount(r) \in Nat
             /\ FrameCount(q) = FrameCount(p) + FrameCount(r)
<1> DEFINE p == SubSeq(q, 1, n)
           r == SubSeq(q, n + 1, Len(q))
<1>1. p \in Seq(Write) /\ r \in Seq(Write)
  OBVIOUS
<1>2. q = p \o r
  <2>1. 1 \in 1..(Len(q) + 1) /\ n \in (1 - 1)..Len(q) /\ Len(q) \in n..Len(q)
    OBVIOUS
  <2> QED BY <2>1, ConcatAdjacentSubSeq, SubSeqFull
<1> HIDE DEF p, r
<1>3. FrameCount(p \o r) = FrameCount(p) + FrameCount(r)
  BY <1>1, FrameConcat
<1>4. FrameCount(p) \in Nat /\ FrameCount(r) \in Nat
  BY <1>1, FrameNat
<1> QED BY <1>2, <1>3, <1>4 DEF p, r

LEMMA WriteSized == Sized(Write)
BY DEF Sized, Write

LEMMA FrameSized == Sized(FrameType)
BY DEF Sized, FrameType

LEMMA FrameOfHead ==
  ASSUME NEW q \in Seq(Write), q # <<>>
  PROVE  /\ FrameCount(Tail(q)) \in Nat
         /\ FrameCount(q) = (IF q[1].frame THEN 1 ELSE 0) + FrameCount(Tail(q))
<1>1. /\ q[1] \in Write /\ Tail(q) \in Seq(Write) /\ <<q[1]>> \in Seq(Write)
      /\ q = <<q[1]>> \o Tail(q) /\ <<q[1]>> = Append(<<>>, q[1]) /\ <<>> \in Seq(Write)
  OBVIOUS
<1>2. FrameCount(<<q[1]>>) = IF q[1].frame THEN 1 ELSE 0
  <2>1. FrameCount(Append(<<>>, q[1]))
          = IF q[1].frame THEN FrameCount(<<>>) + 1 ELSE FrameCount(<<>>)
    BY <1>1, FrameAppend
  <2> QED BY <1>1, <2>1, FrameEmpty
<1>3. FrameCount(q) = FrameCount(<<q[1]>>) + FrameCount(Tail(q)) /\ FrameCount(Tail(q)) \in Nat
  BY <1>1, FrameConcat, FrameNat
<1> QED BY <1>2, <1>3

\* Part of the oldest write is written.
LEMMA Shrunk ==
  ASSUME NEW q \in Seq(Write), q # <<>>, NEW left \in Nat, left < q[1].size,
         \A i \in 1..Len(q) : q[i].size > 0
  PROVE  LET r == [q EXCEPT ![1].size = @ - left]
         IN  /\ r \in Seq(Write) /\ \A i \in 1..Len(r) : r[i].size > 0
             /\ Bytes(r) = Bytes(q) - left /\ FrameCount(r) = FrameCount(q)
<1> DEFINE h == [q[1] EXCEPT !.size = @ - left]
           r == [q EXCEPT ![1].size = @ - left]
<1>1. q[1] \in Write /\ 1 \in 1..Len(q)
  OBVIOUS
<1>2. h \in Write /\ h.size = q[1].size - left /\ h.frame = q[1].frame /\ h.size > 0
  BY <1>1 DEF Write
<1>3. r = [q EXCEPT ![1] = h]
  BY <1>1
<1> HIDE DEF h, r
<1>4. r \in Seq(Write) /\ Len(r) = Len(q) /\ r # <<>> /\ r[1] = h
      /\ \A i \in 1..Len(q) : i # 1 => r[i] = q[i]
  <2>1. [q EXCEPT ![1] = h] \in Seq(Write)
    BY <1>1, <1>2
  <2>2. DOMAIN [q EXCEPT ![1] = h] = 1..Len(q)
    OBVIOUS
  <2>3. Len([q EXCEPT ![1] = h]) = Len(q)
    BY <2>1, <2>2
  <2>4. [q EXCEPT ![1] = h][1] = h /\ \A i \in 1..Len(q) : i # 1 => [q EXCEPT ![1] = h][i] = q[i]
    BY <1>1
  <2> QED BY <1>3, <2>1, <2>3, <2>4
<1>5. Tail(r) = Tail(q)
  <2>1. Tail(r) \in Seq(Write) /\ Tail(q) \in Seq(Write) /\ Len(Tail(r)) = Len(Tail(q))
    BY <1>4
  <2>2. \A i \in 1..Len(Tail(r)) : Tail(r)[i] = Tail(q)[i]
    BY <1>4
  <2> QED BY <2>1, <2>2, SeqEqual
<1>6. Bytes(r) = h.size + Bytes(Tail(q)) /\ Bytes(q) = q[1].size + Bytes(Tail(q))
      /\ Bytes(Tail(q)) \in Nat
  BY <1>4, <1>5, BytesHead, WriteSized
<1>7. FrameCount(r) = FrameCount(q)
  BY <1>2, <1>4, <1>5, FrameOfHead
<1>8. Bytes(r) = Bytes(q) - left
  <2>1. q[1].size \in Nat
    BY <1>1 DEF Write
  <2> QED BY <1>2, <1>6, <2>1
<1>9. \A i \in 1..Len(r) : r[i].size > 0
  BY <1>2, <1>4
<1> QED BY <1>4, <1>7, <1>8, <1>9 DEF r

\* The longest run of positions that are all in K.
LEMMA Longest ==
  ASSUME NEW len \in Nat, NEW K
  PROVE  LET T == {n \in 0..len : \A k \in 1..n : k \in K}
             c == CHOOSE n \in T : \A m \in T : m <= n
         IN  /\ c \in 0..len /\ \A k \in 1..c : k \in K
             /\ c < len => c + 1 \notin K
<1> DEFINE T == {n \in 0..len : \A k \in 1..n : k \in K}
           c == CHOOSE n \in T : \A m \in T : m <= n
<1>1. 0 \in T /\ T \in SUBSET (0..len)
  OBVIOUS
<1>2. \E n \in T : \A m \in T : m <= n
  <2> HIDE DEF T
  <2> QED BY <1>1, B!Greatest
<1>3. c \in T /\ \A m \in T : m <= c
  <2> HIDE DEF T
  <2> QED BY <1>2
<1> HIDE DEF c
<1>4. ASSUME c < len, c + 1 \in K PROVE FALSE
  <2>1. c \in 0..len /\ \A k \in 1..c : k \in K
    BY <1>3
  <2>2. c + 1 \in 0..len /\ \A k \in 1..(c + 1) : k \in K
    BY <1>4, <2>1
  <2>3. c + 1 \in T
    BY <2>2
  <2> QED BY <1>3, <2>1, <2>3
<1> QED BY <1>3, <1>4 DEF c

\* The number of items that fit into some bytes.
LEMMA Fitting ==
  ASSUME NEW V, Sized(V), NEW q \in Seq(V), NEW bytes \in Nat
  PROVE  LET n == LongestPrefix(q, LAMBDA prefix : Bytes(prefix) <= bytes)
         IN  /\ n \in 0..Len(q) /\ Bytes(SubSeq(q, 1, n)) <= bytes
             /\ n < Len(q) => bytes < Bytes(SubSeq(q, 1, n)) + q[n + 1].size
<1> DEFINE K == {k \in 1..Len(q) : Bytes(SubSeq(q, 1, k)) <= bytes}
           T == {m \in 0..Len(q) : \A k \in 1..m : k \in K}
           n == LongestPrefix(q, LAMBDA prefix : Bytes(prefix) <= bytes)
           T2 == {m \in 0..Len(q) : \A k \in 1..m : Bytes(SubSeq(q, 1, k)) <= bytes}
<1>1. T2 = T
  OBVIOUS
<1>2. n = CHOOSE i \in T2 : \A m \in T2 : m <= i
  BY DEF LongestPrefix
<1> HIDE DEF n, T2
<1>3. /\ n \in 0..Len(q) /\ \A k \in 1..n : k \in K
      /\ n < Len(q) => n + 1 \notin K
  <2>1. n = CHOOSE i \in T : \A m \in T : m <= i
    BY <1>1, <1>2
  <2>2. Len(q) \in Nat
    OBVIOUS
  <2> HIDE DEF K
  <2> QED BY <2>1, <2>2, Longest
<1>4. Bytes(SubSeq(q, 1, n)) <= bytes
  <2>1. CASE n = 0
    <3>1. SubSeq(q, 1, 0) = <<>>
      OBVIOUS
    <3>2. SubSeq(q, 1, n) = SubSeq(q, 1, 0)
      BY ONLY <2>1
    <3>3. Bytes(SubSeq(q, 1, n)) = 0
      BY ONLY <3>1, <3>2, BytesEmpty
    <3> QED BY <3>3
  <2>2. CASE n # 0
    <3>1. n \in 1..n
      BY <1>3, <2>2
    <3> QED BY <1>3, <3>1
  <2> QED BY <2>1, <2>2
<1>5. ASSUME n < Len(q) PROVE bytes < Bytes(SubSeq(q, 1, n)) + q[n + 1].size
  <2>1. n + 1 \in 1..Len(q) /\ n \in Nat /\ n + 1 \in 0..Len(q)
    BY <1>3, <1>5
  <2>2. ~(Bytes(SubSeq(q, 1, n + 1)) <= bytes)
    BY <1>3, <1>5, <2>1
  <2>3. Bytes(SubSeq(q, 1, n + 1)) = Bytes(SubSeq(q, 1, n)) + q[n + 1].size
    BY <1>5, <2>1, BytesNext
  <2>4. Bytes(SubSeq(q, 1, n + 1)) \in Nat
    BY <2>1, BytesSplit
  <2> QED BY <2>2, <2>3, <2>4
<1> QED BY <1>3, <1>4, <1>5 DEF n

----------------------------------------------------------------------------
\* What holds of a WebSocket between its steps.

\* The state, the socket and the resolver.
ConnGood(s) ==
  /\ s.state = "Idle" => s.sock = "none" /\ ~s.resolving
  /\ s.state = "Connecting" =>
       /\ s.resolving <=> s.sock = "none"
       /\ s.sock # "leaving" /\ ~s.peerClosing
       /\ s.in = <<>> /\ s.inbuf = <<>> /\ s.arrived = 0
       /\ FrameCount(s.pendingWrites) = 0
  /\ s.state = "Connected" => s.sock = "up" /\ ~s.resolving
  /\ s.state = "Closing" => ~s.resolving /\ s.sock = IF s.peerClosing THEN "leaving" ELSE "up"

\* What the socket holds waits for room or is going to be read.
ReadGood(s) ==
  /\ s.net # <<>> => s.state \in {"Connected", "Closing"} /\ ~s.peerClosing
  /\ s.pendingRead => s.net # <<>>
  /\ s.net # <<>> => s.pendingRead \/ InBytes(s) >= MaxFrameSize

\* The writes that are not done are what the socket did not send.
WriteGood(s) ==
  /\ \A i \in 1..Len(s.pendingWrites) : s.pendingWrites[i].size > 0
  /\ s.sock = "leaving" => s.unwritten <= Bytes(s.pendingWrites)
  /\ s.state # "Idle" /\ s.sock # "leaving" => s.unwritten = Bytes(s.pendingWrites)

\* The body of a response that is no redirect.
BodyGood(s) ==
  /\ s.readingBody => /\ s.state = "Connecting" /\ s.code = "reject"
                      /\ s.body <= BodyMax
                      /\ ~s.chunked /\ s.length # -1 => s.body <= s.length
  /\ s.state = "Connecting" /\ ~s.readingBody => s.body = 0

Good(s) == /\ s \in WebSocket /\ s.fault = "none"
           /\ ConnGood(s) /\ ReadGood(s) /\ WriteGood(s) /\ BodyGood(s)

\* Nothing that the worker relies on has changed from s to r.
Steady(s, r) ==
  /\ Good(r) /\ r.state = s.state /\ r.peerClosing = s.peerClosing
  /\ FrameCount(r.pendingWrites) = FrameCount(s.pendingWrites)
  /\ r.in = s.in /\ r.arrived = s.arrived

\* The WebSocket has failed.
Failed(s, r) ==
  /\ r \in WebSocket /\ r.fault = "none" /\ r.arrived = s.arrived
  /\ r.signals = Append(s.signals, Signal("error", 0))

\* What a step before the handshake is answered does.
Carries(s, r) ==
  Failed(s, r) \/ (Steady(s, r) /\ r.signals \in {<<>>, <<Signal("nextAddress", 0)>>})

\* The fields by what they are about.
SameConn(r, s) == /\ r.state = s.state /\ r.resolving = s.resolving /\ r.sock = s.sock
                  /\ r.peerClosing = s.peerClosing
SameRead(r, s) == /\ r.in = s.in /\ r.inbuf = s.inbuf /\ r.arrived = s.arrived
                  /\ r.net = s.net /\ r.pendingRead = s.pendingRead
SameWrite(r, s) == r.pendingWrites = s.pendingWrites /\ r.unwritten = s.unwritten
SameBody(r, s) == /\ r.readingBody = s.readingBody /\ r.code = s.code
                  /\ r.length = s.length /\ r.chunked = s.chunked /\ r.body = s.body

LEMMA Types ==
  ASSUME NEW s \in WebSocket
  PROVE  /\ s.addrs \in Nat /\ s.body \in Nat /\ s.redirects \in Nat /\ s.unwritten \in Nat
         /\ s.arrived \in Nat /\ s.length \in Optional
         /\ s.maxRedirects \in Optional
         /\ s.in \in Seq(FrameType) /\ s.inbuf \in Seq(FrameType) /\ s.net \in Seq(FrameType)
         /\ s.pendingWrites \in Seq(Write) /\ s.signals \in Seq(SignalType)
         /\ s.resolving \in BOOLEAN /\ s.chunked \in BOOLEAN /\ s.readingBody \in BOOLEAN
         /\ s.peerClosing \in BOOLEAN /\ s.pendingRead \in BOOLEAN
         /\ Bytes(s.pendingWrites) \in Nat /\ FrameCount(s.pendingWrites) \in Nat
         /\ InBytes(s) \in Nat
<1>1. /\ s.addrs \in Nat /\ s.body \in Nat /\ s.redirects \in Nat /\ s.unwritten \in Nat
      /\ s.arrived \in Nat /\ s.length \in Optional
      /\ s.maxRedirects \in Optional
      /\ s.in \in Seq(FrameType) /\ s.inbuf \in Seq(FrameType) /\ s.net \in Seq(FrameType)
      /\ s.pendingWrites \in Seq(Write) /\ s.signals \in Seq(SignalType)
      /\ s.resolving \in BOOLEAN /\ s.chunked \in BOOLEAN /\ s.readingBody \in BOOLEAN
      /\ s.peerClosing \in BOOLEAN /\ s.pendingRead \in BOOLEAN
  BY DEF WebSocket
<1>2. Bytes(s.pendingWrites) \in Nat /\ FrameCount(s.pendingWrites) \in Nat
  BY <1>1, BytesNat, FrameNat, WriteSized
<1>3. InBytes(s) \in Nat
  BY <1>1, BytesNat, FrameSized DEF InBytes
<1> QED BY <1>1, <1>2, <1>3

LEMMA SignalTyped ==
  ASSUME NEW q \in Seq(SignalType), NEW count \in Nat,
         NEW name \in SignalName
  PROVE  Append(q, Signal(name, count)) \in Seq(SignalType)
<1>1. Signal(name, count) \in SignalType
  BY DEF Signal, SignalType
<1> QED BY <1>1

LEMMA FailFails ==
  ASSUME NEW s \in WebSocket, s.fault = "none",
         NEW c \in ErrorType
  PROVE  Failed(s, Fail(s, c))
<1>1. /\ Append(s.signals, Signal("error", 0)) \in Seq(SignalType)
      /\ <<>> \in Seq(FrameType) /\ "none" \in SockType /\ 0 \in Nat
  BY Types, SignalTyped, EmptySeq DEF SignalName, SockType
<1> DEFINE a == Cleanup(s)
           b == [a EXCEPT !.state = "Idle", !.error = c]
           r == Emit(b, "error")
<1>2. a \in WebSocket /\ a.signals = s.signals /\ a.arrived = s.arrived /\ a.fault = s.fault
  <2>1. a \in WebSocket
    BY <1>1, ZenonT(60) DEF WebSocket, Cleanup
  <2> QED BY <2>1 DEF WebSocket, Cleanup
<1> HIDE DEF a
<1>3. b \in WebSocket /\ b.signals = a.signals /\ b.arrived = a.arrived /\ b.fault = a.fault
  <2>1. b \in WebSocket
    <3>1. "Idle" \in StateType
      BY DEF StateType
    <3> QED BY <1>2, <3>1, ZenonT(60) DEF WebSocket
  <2> QED BY <1>2, <2>1 DEF WebSocket
<1> HIDE DEF b
<1>4. r \in WebSocket
  BY <1>1, <1>2, <1>3, ZenonT(60) DEF WebSocket, Emit
<1>5. r.signals = Append(b.signals, Signal("error", 0)) /\ r.arrived = b.arrived
      /\ r.fault = b.fault
  BY <1>3 DEF WebSocket, Emit
<1> QED BY <1>2, <1>3, <1>4, <1>5 DEF Failed, Fail, a, b

LEMMA Members ==
  /\ "Idle" \in StateType /\ "Connecting" \in StateType /\ "Connected" \in StateType
  /\ "Closing" \in StateType
  /\ "none" \in SockType /\ "connecting" \in SockType /\ "up" \in SockType
  /\ "leaving" \in SockType
  /\ "none" \in CodeType /\ \A answer \in Answers : answer \in CodeType
  /\ "none" \in ErrorType /\ "generic" \in ErrorType /\ "connect" \in ErrorType
  /\ "tls" \in ErrorType /\ "rejected" \in ErrorType /\ "too-large" \in ErrorType
  /\ "generic" \in WorstType /\ "connect" \in WorstType
  /\ \A x \in WorstType : x \in ErrorType
  /\ "none" \in FaultType
  /\ -1 \in Optional /\ 0 \in Nat /\ HeaderSize \in Nat /\ HeaderSize > 0
  /\ <<>> \in Seq(FrameType) /\ <<>> \in Seq(SignalType) /\ <<>> \in Seq(Write)
  /\ "nextAddress" \in SignalName /\ "connected" \in SignalName
  /\ "readyRead" \in SignalName /\ "framesWritten" \in SignalName
  /\ "peerClosing" \in SignalName /\ "closed" \in SignalName /\ "error" \in SignalName
<1>1. /\ <<>> \in Seq(FrameType) /\ <<>> \in Seq(SignalType) /\ <<>> \in Seq(Write)
  BY EmptySeq
<1>2. -1 \in Optional /\ 0 \in Nat /\ HeaderSize \in Nat /\ HeaderSize > 0
  BY WebSocketAssumption DEF Optional
<1> QED BY <1>1, <1>2
        DEF StateType, SockType, CodeType, ErrorType, WorstType, FaultType, SignalName

\* All fields but the signals are the same.
SameButSignals(r, s) ==
  /\ SameConn(r, s) /\ SameRead(r, s) /\ SameWrite(r, s) /\ SameBody(r, s)
  /\ r.addrs = s.addrs /\ r.redirects = s.redirects /\ r.maxRedirects = s.maxRedirects
  /\ r.worst = s.worst /\ r.fault = s.fault

LEMMA EmitFields ==
  ASSUME NEW s \in WebSocket, NEW name \in SignalName
  PROVE  LET r == Emit(s, name)
         IN  /\ r \in WebSocket /\ SameButSignals(r, s)
             /\ r.signals = Append(s.signals, Signal(name, 0))
<1> DEFINE r == Emit(s, name)
<1>1. Append(s.signals, Signal(name, 0)) \in Seq(SignalType)
  BY Types, SignalTyped, Members
<1>2. r \in WebSocket
  BY <1>1, ZenonT(60) DEF WebSocket, Emit
<1>3. r.signals = Append(s.signals, Signal(name, 0)) /\ SameButSignals(r, s)
  BY DEF WebSocket, Emit, SameButSignals, SameConn, SameRead, SameWrite, SameBody
<1> QED BY <1>2, <1>3

LEMMA GoodSame ==
  ASSUME NEW r \in WebSocket, NEW s \in WebSocket, SameButSignals(r, s), Good(s)
  PROVE  Good(r)
BY DEF Good, SameButSignals, SameConn, SameRead, SameWrite, SameBody,
       ConnGood, ReadGood, WriteGood, BodyGood, InBytes

LEMMA CleanupSame ==
  ASSUME NEW s \in WebSocket
  PROVE  LET r == Cleanup(s)
         IN  /\ r \in WebSocket /\ r.sock = "none" /\ r.net = <<>> /\ r.unwritten = 0
             /\ SameBody(r, s) /\ r.pendingWrites = s.pendingWrites
             /\ r.state = s.state /\ r.resolving = s.resolving
             /\ r.peerClosing = s.peerClosing /\ r.in = s.in /\ r.inbuf = s.inbuf
             /\ r.arrived = s.arrived /\ r.pendingRead = s.pendingRead
             /\ r.addrs = s.addrs /\ r.redirects = s.redirects /\ r.worst = s.worst
             /\ r.maxRedirects = s.maxRedirects /\ r.fault = s.fault
             /\ r.signals = s.signals
<1> DEFINE r == Cleanup(s)
<1>1. r \in WebSocket
  BY Members, ZenonT(60) DEF WebSocket, Cleanup
<1>2. /\ r.sock = "none" /\ r.net = <<>> /\ r.unwritten = 0
      /\ SameBody(r, s) /\ r.pendingWrites = s.pendingWrites
      /\ r.state = s.state /\ r.resolving = s.resolving
      /\ r.peerClosing = s.peerClosing /\ r.in = s.in /\ r.inbuf = s.inbuf
      /\ r.arrived = s.arrived /\ r.pendingRead = s.pendingRead
      /\ r.addrs = s.addrs /\ r.redirects = s.redirects /\ r.worst = s.worst
      /\ r.maxRedirects = s.maxRedirects /\ r.fault = s.fault
      /\ r.signals = s.signals
  BY DEF WebSocket, Cleanup, SameBody
<1> QED BY <1>1, <1>2

----------------------------------------------------------------------------
\* Connecting.

\* Between two addresses, if there is another one.
Between(s) ==
  /\ s \in WebSocket /\ s.fault = "none" /\ s.signals = <<>>
  /\ s.sock = "none"
  /\ s.addrs > 0 =>
       /\ ~s.resolving /\ s.net = <<>> /\ ~s.pendingRead
       /\ s.state = "Connecting" /\ ~s.peerClosing
       /\ s.in = <<>> /\ s.inbuf = <<>> /\ s.arrived = 0
       /\ FrameCount(s.pendingWrites) = 0
       /\ WriteGood(s) /\ BodyGood(s)

LEMMA NextAddress ==
  ASSUME NEW s, Between(s)
  PROVE  Carries(s, TryNextAddress(s)) /\ TryNextAddress(s).sock \in {"none", "connecting"}
<1> DEFINE r == TryNextAddress(s)
<1>1. s \in WebSocket /\ s.addrs \in Nat
  BY Types DEF Between
<1>2. CASE s.addrs = 0
  <2> DEFINE a == [s EXCEPT !.state = "Idle", !.error = s.worst]
  <2>1. s.worst \in ErrorType
    BY <1>1, Members DEF WebSocket
  <2>2. a \in WebSocket
    BY <1>1, <2>1, Members, ZenonT(60) DEF WebSocket
  <2>3. a.fault = s.fault /\ a.signals = s.signals /\ a.arrived = s.arrived /\ a.sock = s.sock
    BY <1>1 DEF WebSocket
  <2>4. r = Emit(a, "error")
    BY <1>2 DEF TryNextAddress
  <2> HIDE DEF a, r
  <2>5. r \in WebSocket /\ SameButSignals(r, a) /\ r.signals = Append(a.signals, Signal("error", 0))
    BY <2>2, <2>4, EmitFields, Members
  <2>6. Failed(s, r)
    BY <2>3, <2>5 DEF Failed, Between, SameButSignals, SameRead
  <2>7. r.sock = "none"
    BY <2>3, <2>5 DEF Between, SameButSignals, SameConn
  <2> QED BY <2>6, <2>7 DEF Carries, r
<1>3. CASE s.addrs # 0
  <2> DEFINE a == [s EXCEPT !.addrs = @ - 1, !.sock = "connecting"]
  <2>1. s.addrs - 1 \in Nat /\ s.addrs > 0
    BY <1>1, <1>3
  <2>2. a \in WebSocket
    BY <1>1, <2>1, Members, ZenonT(60) DEF WebSocket
  <2>3. /\ a.fault = s.fault /\ a.signals = s.signals /\ a.sock = "connecting"
        /\ a.state = s.state /\ a.resolving = s.resolving /\ a.peerClosing = s.peerClosing
        /\ SameRead(a, s) /\ SameWrite(a, s) /\ SameBody(a, s)
    BY <1>1 DEF WebSocket, SameRead, SameWrite, SameBody
  <2>4. r = Emit(a, "nextAddress")
    BY <1>3 DEF TryNextAddress
  <2> HIDE DEF a, r
  <2>5. ConnGood(a) /\ ReadGood(a) /\ BodyGood(a)
    BY <2>1, <2>3 DEF Between, ConnGood, ReadGood, BodyGood, SameRead, SameWrite, SameBody
  <2>6. WriteGood(a)
    BY <2>1, <2>3 DEF Between, WriteGood, SameWrite
  <2>7. Good(a)
    BY <2>2, <2>3, <2>5, <2>6 DEF Good, Between
  <2>8. r \in WebSocket /\ SameButSignals(r, a) /\ r.signals = Append(a.signals, Signal("nextAddress", 0))
    BY <2>2, <2>4, EmitFields, Members
  <2>9. Good(r)
    BY <2>2, <2>7, <2>8, GoodSame
  <2>10. Append(<<>>, Signal("nextAddress", 0)) = <<Signal("nextAddress", 0)>>
    OBVIOUS
  <2>11. Steady(s, r)
    BY <2>3, <2>8, <2>9 DEF Steady, SameButSignals, SameConn, SameRead, SameWrite
  <2>12. r.sock = "connecting"
    BY <2>3, <2>8 DEF SameButSignals, SameConn
  <2> QED BY <2>3, <2>8, <2>10, <2>11, <2>12 DEF Carries, Between, r
<1> QED BY <1>2, <1>3

LEMMA ResultsReady ==
  ASSUME NEW s, Good(s), s.signals = <<>>, s.resolving, NEW n \in Nat
  PROVE  LET r == ResolverResultsReady(s, n)
         IN  Carries(s, r) /\ r.sock \in {"none", "connecting"}
<1> DEFINE a == [s EXCEPT !.resolving = FALSE, !.addrs = @ + n]
<1>1. s \in WebSocket /\ s.addrs \in Nat /\ s.addrs + n \in Nat /\ s.state \in StateType
  BY Types DEF Good, WebSocket
<1>2. a \in WebSocket
  BY <1>1, ZenonT(60) DEF WebSocket
<1>3. /\ a.fault = s.fault /\ a.signals = s.signals /\ a.sock = s.sock
      /\ a.state = s.state /\ ~a.resolving /\ a.peerClosing = s.peerClosing
      /\ SameRead(a, s) /\ SameWrite(a, s) /\ SameBody(a, s)
  BY <1>1 DEF WebSocket, SameRead, SameWrite, SameBody
<1> HIDE DEF a
<1>4. s.state = "Connecting" /\ s.sock = "none"
  BY <1>1 DEF Good, ConnGood, StateType
<1>5. WriteGood(a) /\ BodyGood(a)
  BY <1>3 DEF Good, WriteGood, BodyGood, SameWrite, SameBody
<1>6. s.net = <<>> /\ ~s.pendingRead
  BY <1>4 DEF Good, ReadGood
<1>8. Between(a)
  BY <1>2, <1>3, <1>4, <1>5, <1>6
     DEF Between, Good, ConnGood, SameRead, SameWrite
<1>9. Carries(a, TryNextAddress(a)) /\ TryNextAddress(a).sock \in {"none", "connecting"}
  BY <1>8, NextAddress
<1>10. ResolverResultsReady(s, n) = TryNextAddress(a)
  BY DEF ResolverResultsReady, a
<1>11. \A r : Carries(a, r) => Carries(s, r)
  BY <1>3 DEF Carries, Failed, Steady, SameRead, SameWrite
<1> QED BY <1>9, <1>10, <1>11

LEMMA ResolverFails ==
  ASSUME NEW s, Good(s), s.signals = <<>>, s.resolving
  PROVE  LET r == ResolverError(s)
         IN  Carries(s, r) /\ r.sock \in {"none", "connecting"}
<1> DEFINE a == [s EXCEPT !.resolving = FALSE, !.state = "Idle", !.error = "connect"]
           r == ResolverError(s)
<1>1. s \in WebSocket /\ s.state \in StateType
  BY DEF Good, WebSocket
<1>2. a \in WebSocket
  BY <1>1, Members, ZenonT(60) DEF WebSocket
<1>3. a.fault = s.fault /\ a.signals = s.signals /\ a.arrived = s.arrived /\ a.sock = s.sock
  BY <1>1 DEF WebSocket
<1>4. r = Emit(a, "error")
  BY DEF ResolverError
<1> HIDE DEF a, r
<1>5. r \in WebSocket /\ SameButSignals(r, a) /\ r.signals = Append(a.signals, Signal("error", 0))
  BY <1>2, <1>4, EmitFields, Members
<1>6. Failed(s, r)
  BY <1>3, <1>5 DEF Failed, Good, SameButSignals, SameRead
<1>7. s.sock = "none"
  BY <1>1 DEF Good, ConnGood, StateType
<1> QED BY <1>3, <1>5, <1>6, <1>7 DEF Carries, SameButSignals, SameConn, r

\* A write is given to the socket.
LEMMA SendFields ==
  ASSUME NEW s \in WebSocket, NEW frame \in BOOLEAN, NEW size \in Nat, size > 0
  PROVE  LET r == Send(s, frame, size)
         IN  /\ r \in WebSocket /\ SameConn(r, s) /\ SameRead(r, s) /\ SameBody(r, s)
             /\ r.fault = s.fault /\ r.signals = s.signals
             /\ r.unwritten = s.unwritten + size
             /\ Bytes(r.pendingWrites) = Bytes(s.pendingWrites) + size
             /\ FrameCount(r.pendingWrites)
                  = FrameCount(s.pendingWrites) + (IF frame THEN 1 ELSE 0)
             /\ WriteGood(s) =>
                  \A i \in 1..Len(r.pendingWrites) : r.pendingWrites[i].size > 0
<1> DEFINE x == [frame |-> frame, size |-> size]
           r == Send(s, frame, size)
<1>1. /\ x \in Write /\ s.pendingWrites \in Seq(Write) /\ s.unwritten \in Nat
      /\ x.frame = frame /\ x.size = size
  BY Types DEF Write
<1>2. Append(s.pendingWrites, x) \in Seq(Write) /\ s.unwritten + size \in Nat
  BY <1>1
<1>3. r = [s EXCEPT !.pendingWrites = Append(s.pendingWrites, x),
                    !.unwritten = s.unwritten + size]
  BY DEF Send
<1> HIDE DEF x, r
<1>4. r \in WebSocket
  BY <1>2, <1>3, ZenonT(60) DEF WebSocket
<1>5. /\ SameConn(r, s) /\ SameRead(r, s) /\ SameBody(r, s)
      /\ r.fault = s.fault /\ r.signals = s.signals
      /\ r.unwritten = s.unwritten + size
      /\ r.pendingWrites = Append(s.pendingWrites, x)
  BY <1>3 DEF WebSocket, SameConn, SameRead, SameBody
<1>6. Bytes(r.pendingWrites) = Bytes(s.pendingWrites) + size
  BY <1>1, <1>5, BytesAppend
<1>7. FrameCount(r.pendingWrites) = FrameCount(s.pendingWrites) + (IF frame THEN 1 ELSE 0)
  <2>1. FrameCount(r.pendingWrites)
          = IF frame THEN FrameCount(s.pendingWrites) + 1 ELSE FrameCount(s.pendingWrites)
    BY <1>1, <1>5, FrameAppend
  <2>2. FrameCount(s.pendingWrites) \in Nat
    BY Types
  <2> QED BY <2>1, <2>2
<1>8. ASSUME WriteGood(s), NEW i \in 1..Len(r.pendingWrites)
      PROVE  r.pendingWrites[i].size > 0
  <2>1. \A j \in 1..Len(s.pendingWrites) : s.pendingWrites[j].size > 0
    BY <1>8 DEF WriteGood
  <2> QED BY <1>1, <1>5, <2>1
<1> QED BY <1>4, <1>5, <1>6, <1>7, <1>8 DEF r

LEMMA Handshakes ==
  ASSUME NEW s, Good(s), s.signals = <<>>, s.sock = "connecting"
  PROVE  LET r == SockConnected(s)
         IN  Carries(s, r) /\ r.state = "Connecting"
<1> DEFINE a == [s EXCEPT !.sock = "up"]
           r == SockConnected(s)
<1>1. s \in WebSocket /\ s.state \in StateType
  BY DEF Good, WebSocket
<1>2. s.state = "Connecting" /\ ~s.resolving
  BY <1>1 DEF Good, ConnGood, StateType
<1>3. a \in WebSocket
  BY <1>1, Members, ZenonT(60) DEF WebSocket
<1>4. /\ a.state = s.state /\ a.resolving = s.resolving /\ a.peerClosing = s.peerClosing
      /\ a.sock = "up" /\ a.fault = s.fault /\ a.signals = s.signals
      /\ SameRead(a, s) /\ SameWrite(a, s) /\ SameBody(a, s)
  BY <1>1 DEF WebSocket, SameRead, SameWrite, SameBody
<1>5. r = Send(a, FALSE, HeaderSize)
  BY DEF SockConnected
<1> HIDE DEF a, r
<1>6. HeaderSize \in Nat /\ HeaderSize > 0 /\ FALSE \in BOOLEAN
  BY Members
<1>7. /\ r \in WebSocket /\ SameConn(r, a) /\ SameRead(r, a) /\ SameBody(r, a)
      /\ r.fault = a.fault /\ r.signals = a.signals
      /\ r.unwritten = a.unwritten + HeaderSize
      /\ Bytes(r.pendingWrites) = Bytes(a.pendingWrites) + HeaderSize
      /\ FrameCount(r.pendingWrites) = FrameCount(a.pendingWrites) + 0
      /\ WriteGood(a) => \A i \in 1..Len(r.pendingWrites) : r.pendingWrites[i].size > 0
  BY <1>3, <1>5, <1>6, SendFields
<1>8. FrameCount(r.pendingWrites) = FrameCount(s.pendingWrites)
  <2>1. FrameCount(s.pendingWrites) \in Nat
    BY <1>1, Types
  <2> QED BY <1>4, <1>7, <2>1 DEF SameWrite
<1>9. WriteGood(a)
  BY <1>2, <1>4 DEF Good, WriteGood, SameWrite
<1>10. ConnGood(r) /\ ReadGood(r) /\ BodyGood(r)
  BY <1>2, <1>4, <1>7, <1>8
     DEF Good, ConnGood, ReadGood, BodyGood, SameConn, SameRead, SameBody
<1>11. WriteGood(r)
  <2>1. a.unwritten = Bytes(a.pendingWrites)
    BY <1>2, <1>4, <1>9 DEF WriteGood
  <2>2. r.unwritten = Bytes(r.pendingWrites)
    BY <1>7, <2>1
  <2> QED BY <1>4, <1>7, <1>9, <2>2 DEF WriteGood, SameConn
<1>12. Good(r)
  BY <1>4, <1>7, <1>10, <1>11 DEF Good
<1> QED BY <1>2, <1>4, <1>7, <1>8, <1>12
        DEF Carries, Steady, SameConn, SameRead, r

----------------------------------------------------------------------------
\* The response to the handshake.

\* A response that is complete; a redirect comes without a body.
Answered(s) ==
  /\ s \in WebSocket /\ s.fault = "none" /\ s.signals = <<>>
  /\ s.code \in Redirections =>
       /\ s.state = "Connecting" /\ ~s.peerClosing
       /\ s.in = <<>> /\ s.arrived = 0
       /\ FrameCount(s.pendingWrites) = 0 /\ Bytes(s.pendingWrites) = 0
       /\ \A i \in 1..Len(s.pendingWrites) : s.pendingWrites[i].size > 0
       /\ s.body = 0

LEMMA FailCarries ==
  ASSUME NEW s \in WebSocket, s.fault = "none", NEW c \in ErrorType
  PROVE  Carries(s, Fail(s, c)) /\ Fail(s, c).sock = "none"
<1>1. Failed(s, Fail(s, c))
  BY FailFails
<1> DEFINE a == Cleanup(s)
           b == [a EXCEPT !.state = "Idle", !.error = c]
<1>2. a \in WebSocket /\ a.sock = "none"
  BY CleanupSame
<1> HIDE DEF a
<1>3. b \in WebSocket /\ b.sock = "none"
  <2>1. b \in WebSocket
    BY <1>2, Members, ZenonT(60) DEF WebSocket
  <2> QED BY <1>2, <2>1 DEF WebSocket
<1> HIDE DEF b
<1>4. SameButSignals(Emit(b, "error"), b)
  BY <1>3, EmitFields, Members
<1>5. Fail(s, c).sock = "none"
  BY <1>3, <1>4 DEF Fail, a, b, SameButSignals, SameConn
<1> QED BY <1>1, <1>5 DEF Carries

LEMMA ConnectFields ==
  ASSUME NEW s \in WebSocket
  PROVE  LET r == TryConnect(s)
         IN  /\ r \in WebSocket
             /\ r.state = "Connecting" /\ r.resolving /\ ~r.peerClosing
             /\ ~r.readingBody /\ ~r.pendingRead /\ r.inbuf = <<>>
             /\ r.sock = s.sock /\ r.in = s.in /\ r.arrived = s.arrived /\ r.net = s.net
             /\ SameWrite(r, s) /\ r.body = s.body
             /\ r.fault = s.fault /\ r.signals = s.signals
<1> DEFINE r == TryConnect(s)
<1>1. r \in WebSocket
  BY Members, ZenonT(60) DEF WebSocket, TryConnect
<1>2. /\ r.state = "Connecting" /\ r.resolving /\ ~r.peerClosing
      /\ ~r.readingBody /\ ~r.pendingRead /\ r.inbuf = <<>>
      /\ r.sock = s.sock /\ r.in = s.in /\ r.arrived = s.arrived /\ r.net = s.net
      /\ SameWrite(r, s) /\ r.body = s.body
      /\ r.fault = s.fault /\ r.signals = s.signals
  BY DEF WebSocket, TryConnect, SameWrite
<1> QED BY <1>1, <1>2

LEMMA ResponseHandled ==
  ASSUME NEW s, Answered(s)
  PROVE  LET r == HandleResponse(s)
         IN  Carries(s, r) /\ r.sock = "none"
<1>1. s \in WebSocket /\ s.fault = "none" /\ s.signals = <<>>
  BY DEF Answered
<1>2. CASE ~(s.maxRedirects > 0 /\ s.code \in Redirections /\ HasLocation(s))
  <2>1. HandleResponse(s) = Fail(s, "rejected")
    BY <1>2 DEF HandleResponse
  <2> QED BY <1>1, <2>1, FailCarries, Members
<1>3. CASE /\ s.maxRedirects > 0 /\ s.code \in Redirections /\ HasLocation(s)
           /\ s.redirects >= s.maxRedirects
  <2>1. HandleResponse(s) = Fail(s, "generic")
    BY <1>3 DEF HandleResponse
  <2> QED BY <1>1, <2>1, FailCarries, Members
<1>4. CASE /\ s.maxRedirects > 0 /\ s.code \in Redirections /\ HasLocation(s)
           /\ ~(s.redirects >= s.maxRedirects)
  <2> DEFINE a == [s EXCEPT !.redirects = @ + 1]
             b == Cleanup(a)
             r == TryConnect(b)
  <2>1. HandleResponse(s) = r
    BY <1>4 DEF HandleResponse
  <2>2. s.redirects + 1 \in Nat
    BY <1>1, Types
  <2>3. a \in WebSocket
    BY <1>1, <2>2, ZenonT(60) DEF WebSocket
  <2>4. /\ a.in = s.in /\ a.arrived = s.arrived
        /\ a.pendingWrites = s.pendingWrites /\ a.body = s.body
        /\ a.fault = s.fault /\ a.signals = s.signals
    BY <1>1 DEF WebSocket
  <2> HIDE DEF a
  <2>5. /\ b \in WebSocket /\ b.sock = "none" /\ b.net = <<>> /\ b.unwritten = 0
        /\ b.body = a.body /\ b.pendingWrites = a.pendingWrites
        /\ b.in = a.in /\ b.arrived = a.arrived /\ b.fault = a.fault
        /\ b.signals = a.signals
    BY <2>3, CleanupSame DEF SameBody
  <2> HIDE DEF b
  <2>6. /\ r \in WebSocket
        /\ r.state = "Connecting" /\ r.resolving /\ ~r.peerClosing
        /\ ~r.readingBody /\ ~r.pendingRead /\ r.inbuf = <<>>
        /\ r.sock = b.sock /\ r.in = b.in /\ r.arrived = b.arrived /\ r.net = b.net
        /\ r.pendingWrites = b.pendingWrites /\ r.unwritten = b.unwritten
        /\ r.body = b.body /\ r.fault = b.fault /\ r.signals = b.signals
    BY <2>5, ConnectFields DEF SameWrite
  <2> HIDE DEF r
  <2>7. /\ s.state = "Connecting" /\ ~s.peerClosing
        /\ s.in = <<>> /\ s.arrived = 0
        /\ FrameCount(s.pendingWrites) = 0 /\ Bytes(s.pendingWrites) = 0
        /\ \A i \in 1..Len(s.pendingWrites) : s.pendingWrites[i].size > 0
        /\ s.body = 0
    BY <1>4 DEF Answered
  <2>8. ConnGood(r) /\ ReadGood(r) /\ BodyGood(r)
    BY <2>4, <2>5, <2>6, <2>7 DEF ConnGood, ReadGood, BodyGood
  <2>9. WriteGood(r)
    BY <2>4, <2>5, <2>6, <2>7 DEF WriteGood
  <2>10. Steady(s, r)
    <3>1. Good(r)
      BY <1>1, <2>4, <2>5, <2>6, <2>8, <2>9 DEF Good
    <3>2. r.peerClosing \in BOOLEAN /\ s.peerClosing \in BOOLEAN
      BY <1>1, <2>6, Types
    <3> QED BY <2>4, <2>5, <2>6, <2>7, <3>1, <3>2 DEF Steady
  <2> QED BY <1>1, <2>1, <2>4, <2>5, <2>6, <2>10 DEF Carries
<1> QED BY <1>2, <1>3, <1>4

----------------------------------------------------------------------------
\* The body of a response.
Item == HeadType \cup PieceType \cup FrameType

C == INSTANCE FoldLemmas WITH Op <- TakeChunk
P == INSTANCE FoldLemmas WITH Op <- AddPlain

LEMMA ChunkFold ==
  ASSUME NEW body, NEW q
  PROVE  TakeChunks(body, q) = C!Fold([body |-> body, end |-> "no"], q)
BY DEF TakeChunks, C!Fold, FoldLeft, MapThenFoldSet, Max, C!FoldLeft, C!MapThenFoldSet, C!Max

LEMMA PlainFold == ASSUME NEW q PROVE PlainSize(q) = P!Fold(0, q)
BY DEF PlainSize, P!Fold, FoldLeft, MapThenFoldSet, Max, P!FoldLeft, P!MapThenFoldSet, P!Max

LEMMA PlainNat ==
  ASSUME NEW q \in Seq(Item)
  PROVE  PlainSize(q) \in Nat
<1>1. ASSUME NEW a \in Nat, NEW x \in Item PROVE AddPlain(a, x) \in Nat
  <2>1. CASE x \in HeadType
    BY <2>1 DEF AddPlain, HeadType
  <2>2. CASE x \in PieceType
    BY <2>2 DEF AddPlain, PieceType
  <2>3. CASE x \in FrameType
    BY <2>3 DEF AddPlain, FrameType
  <2> QED BY <2>1, <2>2, <2>3 DEF Item
<1> QED BY <1>1, PlainFold, P!FoldIn

\* Pieces that are there as a whole.
Whole == {x \in PieceType : x.whole}
Chunked == [body : 0..BodyMax, end : {"no", "eof"}]

LEMMA WholeChunks ==
  ASSUME NEW body \in 0..BodyMax, NEW q \in Seq(Whole)
  PROVE  TakeChunks(body, q) \in Chunked
<1>1. ASSUME NEW a \in Chunked, NEW x \in Whole PROVE TakeChunk(a, x) \in Chunked
  <2>1. /\ x.kind = "body" /\ x.size \in Nat /\ x.whole /\ a.body \in 0..BodyMax
        /\ BodyMax \in Nat /\ a.end \in {"no", "eof"}
    BY WebSocketAssumption DEF Whole, PieceType, Chunked
  <2>2. CASE a.end # "no"
    BY <2>2 DEF TakeChunk
  <2>3. CASE a.end = "no" /\ (a.body + x.size > BodyMax \/ x.size = 0)
    BY <2>1, <2>3 DEF TakeChunk, Chunked
  <2>4. CASE a.end = "no" /\ ~(a.body + x.size > BodyMax) /\ x.size # 0
    <3>1. a.body + x.size \in 0..BodyMax
      BY <2>1, <2>4
    <3>2. TakeChunk(a, x) = [a EXCEPT !.body = @ + x.size]
      BY <2>1, <2>4 DEF TakeChunk
    <3> QED BY <3>1, <3>2 DEF Chunked
  <2> QED BY <2>2, <2>3, <2>4
<1>2. [body |-> body, end |-> "no"] \in Chunked
  BY DEF Chunked
<1> QED BY <1>1, <1>2, ChunkFold, C!FoldIn

LEMMA ChunkAppend ==
  ASSUME NEW base, NEW q \in Seq(Item), NEW x \in Item
  PROVE  C!Fold(base, Append(q, x)) = TakeChunk(C!Fold(base, q), x)
BY C!FoldAppend

LEMMA HeadIsNoChunk ==
  ASSUME NEW body \in Nat, NEW head \in HeadType, NEW q \in Seq(Item)
  PROVE  TakeChunks(body, <<head>> \o q)
           = [body |-> body, end |-> "error"]
<1> DEFINE base == [body |-> body, end |-> "no"]
           stop == [body |-> body, end |-> "error"]
           T == {r \in Seq(Item) : C!Fold(base, <<head>> \o r) = stop}
<1>1. head \in Item /\ <<>> \in Seq(Item) /\ head.kind = "head"
  BY DEF Item, HeadType
<1>2. <<>> \in T
  <2>1. <<head>> \o <<>> = Append(<<>>, head)
    BY <1>1
  <2>2. C!Fold(base, Append(<<>>, head)) = TakeChunk(C!Fold(base, <<>>), head)
    BY <1>1, ChunkAppend
  <2>3. C!Fold(base, <<>>) = base
    BY C!FoldEmpty
  <2>4. TakeChunk(base, head) = stop
    BY <1>1 DEF TakeChunk
  <2> QED BY <1>1, <2>1, <2>2, <2>3, <2>4
<1>3. ASSUME NEW r \in Seq(Item), NEW x \in Item, r \in T PROVE Append(r, x) \in T
  <2>1. <<head>> \o Append(r, x) = Append(<<head>> \o r, x) /\ <<head>> \o r \in Seq(Item)
    BY <1>1
  <2>2. C!Fold(base, Append(<<head>> \o r, x)) = TakeChunk(C!Fold(base, <<head>> \o r), x)
    BY <2>1, ChunkAppend
  <2>3. TakeChunk(stop, x) = stop
    BY DEF TakeChunk
  <2>4. C!Fold(base, <<head>> \o r) = stop
    BY <1>3
  <2>5. C!Fold(base, <<head>> \o Append(r, x)) = stop
    BY <2>1, <2>2, <2>3, <2>4
  <2> QED BY <2>5
<1> HIDE DEF T
<1>4. Seq(Item) \subseteq T
  BY <1>2, <1>3, C!SeqInduction
<1>5. C!Fold(base, <<head>> \o q) = stop
  BY <1>4 DEF T
<1> QED BY <1>5, ChunkFold

\* A WebSocket that takes what arrives as the body of a response.
Reading(s) ==
  /\ s \in WebSocket /\ s.fault = "none" /\ s.signals = <<>>
  /\ s.state = "Connecting" /\ s.sock = "up" /\ s.readingBody
  /\ ConnGood(s) /\ ReadGood(s) /\ WriteGood(s)
  /\ s.code \in {"reject"} \cup Redirections
  /\ s.body <= BodyMax /\ (~s.chunked /\ s.length # -1 => s.body <= s.length)
  /\ s.code \in Redirections =>
       s.body = 0 /\ s.length = 0 /\ ~s.chunked /\ Bytes(s.pendingWrites) = 0

\* It fails, starts over, or goes on reading.
Reads(s, r) ==
  /\ Carries(s, r)
  /\ r.sock # "none" => /\ r.sock = "up" /\ r.state = "Connecting" /\ r.readingBody
                        /\ r.chunked = s.chunked

LEMMA BodyGrows ==
  ASSUME NEW s, Reading(s), NEW b \in Nat, b <= BodyMax,
         ~s.chunked /\ s.length # -1 => b <= s.length
  PROVE  LET r == [s EXCEPT !.body = b]
         IN  /\ s.code \in Redirections => b = 0
             /\ Answered(r) /\ (\A x : Carries(r, x) => Carries(s, x))
             /\ s.code \notin Redirections => Reads(s, r)
             /\ r \in WebSocket /\ r.body = b /\ r.fault = "none"
<1> DEFINE r == [s EXCEPT !.body = b]
<1>1. s \in WebSocket
  BY DEF Reading
<1>2. r \in WebSocket
  BY <1>1, ZenonT(60) DEF WebSocket
<1>3. /\ r.body = b /\ r.fault = s.fault /\ r.signals = s.signals
      /\ SameConn(r, s) /\ SameRead(r, s) /\ SameWrite(r, s)
      /\ r.code = s.code /\ r.length = s.length /\ r.chunked = s.chunked
      /\ r.readingBody = s.readingBody
  BY <1>1 DEF WebSocket, SameConn, SameRead, SameWrite
<1> HIDE DEF r
<1>4. ASSUME s.code \in Redirections PROVE b = 0
  BY <1>4 DEF Reading
<1>5. Answered(r)
  <2>1. SUFFICES ASSUME s.code \in Redirections PROVE Answered(r)
    BY <1>2, <1>3 DEF Answered, Reading
  <2>2. r.body = 0 /\ Bytes(r.pendingWrites) = 0
    BY <1>3, <1>4, <2>1 DEF Reading, SameWrite
  <2>3. \A i \in 1..Len(r.pendingWrites) : r.pendingWrites[i].size > 0
    BY <1>3 DEF Reading, WriteGood, SameWrite
  <2>4. /\ r.state = "Connecting" /\ ~r.peerClosing /\ r.in = <<>> /\ r.arrived = 0
        /\ FrameCount(r.pendingWrites) = 0
    BY <1>3 DEF Reading, ConnGood, SameConn, SameRead, SameWrite
  <2> QED BY <1>2, <1>3, <2>2, <2>3, <2>4 DEF Answered, Reading
<1>6. ASSUME NEW x, Carries(r, x) PROVE Carries(s, x)
  BY <1>3, <1>6 DEF Carries, Failed, Steady, SameConn, SameRead, SameWrite
<1>7. ASSUME s.code \notin Redirections PROVE Reads(s, r)
  <2>1. ConnGood(r) /\ ReadGood(r)
    BY <1>3 DEF Reading, ConnGood, ReadGood, InBytes, SameConn, SameRead, SameWrite
  <2>2. WriteGood(r)
    BY <1>3 DEF Reading, WriteGood, SameConn, SameWrite
  <2>3. BodyGood(r)
    BY <1>3, <1>7 DEF Reading, BodyGood, SameConn
  <2>4. Good(r)
    BY <1>2, <1>3, <2>1, <2>2, <2>3 DEF Good, Reading
  <2>5. Steady(s, r)
    BY <1>3, <2>4 DEF Steady, SameConn, SameRead, SameWrite
  <2> QED BY <1>3, <2>5 DEF Carries, Reads, Reading, SameConn
<1>8. r.fault = "none"
  BY <1>3 DEF Reading
<1> QED BY <1>2, <1>3, <1>4, <1>5, <1>6, <1>7, <1>8 DEF r

LEMMA PlainReads ==
  ASSUME NEW s, Reading(s), ~s.chunked, NEW items \in Seq(Item)
  PROVE  Reads(s, TryProcessPlain(s, items))
<1> DEFINE size == PlainSize(items)
           room == IF s.length = -1 THEN BodyMax - s.body
                                    ELSE Smaller(BodyMax - s.body, s.length - s.body)
           b == s.body + Smaller(size, room)
           r == [s EXCEPT !.body = b]
<1>1. /\ size \in Nat /\ s.body \in Nat /\ s.length \in Nat \cup {-1} /\ BodyMax \in Nat
      /\ s.body <= BodyMax /\ (s.length # -1 => s.body <= s.length)
  BY PlainNat, Types, WebSocketAssumption DEF Reading, Optional
<1> HIDE DEF size
<1>2. room \in Nat /\ room <= BodyMax - s.body
      /\ (s.length # -1 => room <= s.length - s.body)
  BY <1>1 DEF Smaller
<1> HIDE DEF room
<1>3. b \in Nat /\ b <= BodyMax /\ (s.length # -1 => b <= s.length)
  BY <1>1, <1>2 DEF Smaller
<1>4. TryProcessPlain(s, items)
        = IF r.body \in {s.length, BodyMax} THEN HandleResponse(r) ELSE r
  <2>1. ~(room < 0)
    BY <1>2
  <2> QED BY <2>1 DEF TryProcessPlain, size, room
<1> HIDE DEF b
<1>5. /\ s.code \in Redirections => b = 0
      /\ Answered(r) /\ (\A x : Carries(r, x) => Carries(s, x))
      /\ s.code \notin Redirections => Reads(s, r)
      /\ r.body = b
  BY <1>3, BodyGrows
<1> HIDE DEF r
<1>6. CASE b \in {s.length, BodyMax}
  <2>1. Carries(r, HandleResponse(r)) /\ HandleResponse(r).sock = "none"
    BY <1>5, ResponseHandled
  <2> QED BY <1>4, <1>5, <1>6, <2>1 DEF Reads
<1>7. CASE b \notin {s.length, BodyMax}
  <2>1. s.code \notin Redirections
    BY <1>5, <1>7 DEF Reading
  <2> QED BY <1>4, <1>5, <1>7, <2>1
<1> QED BY <1>6, <1>7

\* What a server that speaks in chunks can send: a response, or whole chunks.
Chunks(items) ==
  \/ items \in Seq(Whole)
  \/ \E head \in HeadType, q \in Seq(Item) : items = <<head>> \o q

LEMMA ChunksRead ==
  ASSUME NEW s, Reading(s), s.chunked, NEW items, Chunks(items)
  PROVE  /\ Reads(s, TryProcessChunks(s, items))
         /\ items \notin Seq(Whole) => TryProcessChunks(s, items).sock = "none"
<1> DEFINE result == TakeChunks(s.body, items)
           b == result.body
           r == [s EXCEPT !.body = b]
<1>1. /\ s.body \in Nat /\ BodyMax \in Nat /\ s.body \in 0..BodyMax
      /\ s.code = "reject"
  BY Types, WebSocketAssumption DEF Reading
<1>2. /\ b \in Nat /\ b <= BodyMax
      /\ result.end \in IF items \in Seq(Whole) THEN {"no", "eof"} ELSE {"error"}
  <2>1. CASE items \in Seq(Whole)
    <3>1. result \in Chunked
      BY <1>1, <2>1, WholeChunks
    <3> HIDE DEF result
    <3>2. result.body \in 0..BodyMax /\ result.end \in {"no", "eof"}
      BY <3>1 DEF Chunked
    <3> QED BY <1>1, <2>1, <3>2
  <2>2. CASE items \notin Seq(Whole)
    <3>1. PICK head \in HeadType, q \in Seq(Item) : items = <<head>> \o q
      BY <2>2 DEF Chunks
    <3>2. result = [body |-> s.body, end |-> "error"]
      BY <1>1, <3>1, HeadIsNoChunk
    <3> HIDE DEF result
    <3>3. b = s.body /\ result.end = "error"
      BY <3>2
    <3> QED BY <1>1, <2>2, <3>3
  <2> QED BY <2>1, <2>2
<1>3. TryProcessChunks(s, items)
        = IF result.end = "no" THEN r
          ELSE IF result.end = "eof" THEN HandleResponse(r) ELSE Fail(r, "generic")
  <2>1. result.end \in {"no", "eof", "error"}
    BY <1>2
  <2> HIDE DEF result
  <2>2. CASE result.end = "no"
    BY <2>2 DEF TryProcessChunks, result
  <2>3. CASE result.end = "eof"
    BY <2>3 DEF TryProcessChunks, result
  <2>4. CASE result.end = "error"
    BY <2>4 DEF TryProcessChunks, result
  <2> QED BY <2>1, <2>2, <2>3, <2>4
<1> DEFINE end == result.end
<1> HIDE DEF b, end
<1>4. /\ Answered(r) /\ (\A x : Carries(r, x) => Carries(s, x))
      /\ Reads(s, r) /\ r \in WebSocket /\ r.fault = "none"
  <2>1. s.code \notin Redirections
    BY <1>1 DEF Redirections
  <2> QED BY <1>1, <1>2, <2>1, BodyGrows
<1> HIDE DEF r
<1>5. Carries(r, HandleResponse(r)) /\ HandleResponse(r).sock = "none"
  BY <1>4, ResponseHandled
<1>6. Carries(r, Fail(r, "generic")) /\ Fail(r, "generic").sock = "none"
  BY <1>4, FailCarries, Members
<1>7. CASE items \in Seq(Whole)
  <2>1. end \in {"no", "eof"}
    BY <1>2, <1>7 DEF end
  <2>2. TryProcessChunks(s, items) = IF end = "no" THEN r ELSE HandleResponse(r)
    BY <1>3, <2>1 DEF end
  <2> QED BY <1>4, <1>5, <1>7, <2>2 DEF Reads
<1>8. CASE items \notin Seq(Whole)
  <2>1. end = "error"
    BY <1>2, <1>8 DEF end
  <2>2. TryProcessChunks(s, items) = Fail(r, "generic")
    BY <1>3, <2>1 DEF end
  <2> QED BY <1>4, <1>6, <2>2 DEF Reads
<1> QED BY <1>7, <1>8

LEMMA BodyReads ==
  ASSUME NEW s, Reading(s), NEW items \in Seq(Item), s.chunked => Chunks(items)
  PROVE  /\ Reads(s, TryProcessBody(s, items))
         /\ s.chunked /\ items \notin Seq(Whole) => TryProcessBody(s, items).sock = "none"
<1>1. CASE s.chunked
  BY <1>1, ChunksRead DEF TryProcessBody
<1>2. CASE ~s.chunked
  BY <1>2, PlainReads DEF TryProcessBody
<1> QED BY <1>1, <1>2

----------------------------------------------------------------------------
\* Leaving, and the frames of the server.

LEMMA Disconnects ==
  ASSUME NEW s \in WebSocket, s.fault = "none", ~s.resolving, ~s.readingBody,
         ~s.pendingRead, WriteGood(s)
  PROVE  LET r == Disconnected(s)
         IN  /\ Good(r) /\ r.state = "Idle" /\ r.sock = "none"
             /\ r.peerClosing = s.peerClosing /\ r.in = s.in /\ r.arrived = s.arrived
             /\ r.pendingWrites = s.pendingWrites
             /\ r.signals = Append(s.signals, Signal("closed", 0))
<1> DEFINE a == Cleanup(s)
           b == [a EXCEPT !.state = "Idle"]
           r == Disconnected(s)
<1>1. /\ a \in WebSocket /\ a.sock = "none" /\ a.net = <<>>
      /\ a.pendingWrites = s.pendingWrites /\ a.resolving = s.resolving
      /\ a.peerClosing = s.peerClosing /\ a.in = s.in
      /\ a.arrived = s.arrived /\ a.pendingRead = s.pendingRead
      /\ a.readingBody = s.readingBody
      /\ a.fault = s.fault /\ a.signals = s.signals
  BY CleanupSame DEF SameBody
<1> HIDE DEF a
<1>2. b \in WebSocket
  BY <1>1, Members, ZenonT(60) DEF WebSocket
<1>3. /\ b.state = "Idle" /\ b.sock = a.sock /\ b.net = a.net
      /\ b.pendingWrites = a.pendingWrites /\ b.resolving = a.resolving
      /\ b.peerClosing = a.peerClosing /\ b.in = a.in
      /\ b.arrived = a.arrived /\ b.pendingRead = a.pendingRead
      /\ b.readingBody = a.readingBody
      /\ b.fault = a.fault /\ b.signals = a.signals
  BY <1>1 DEF WebSocket
<1>4. r = Emit(b, "closed")
  BY DEF Disconnected, a
<1> HIDE DEF b, r
<1>5. ConnGood(b) /\ ReadGood(b) /\ BodyGood(b)
  BY <1>1, <1>3 DEF ConnGood, ReadGood, BodyGood
<1>6. WriteGood(b)
  BY <1>1, <1>3 DEF WriteGood
<1>7. Good(b)
  BY <1>1, <1>2, <1>3, <1>5, <1>6 DEF Good
<1>8. r \in WebSocket /\ SameButSignals(r, b) /\ r.signals = Append(b.signals, Signal("closed", 0))
  BY <1>2, <1>4, EmitFields, Members
<1>9. Good(r)
  BY <1>2, <1>7, <1>8, GoodSame
<1> QED BY <1>1, <1>3, <1>8, <1>9 DEF SameButSignals, SameConn, SameRead, SameWrite, r

\* Both sides have sent a close frame.
LEMMA Leaves ==
  ASSUME NEW s \in WebSocket, s.fault = "none", s.state = "Closing", s.sock = "up",
         s.peerClosing, ~s.resolving, ~s.readingBody,
         s.net = <<>>, ~s.pendingRead, WriteGood(s)
  PROVE  LET r == DisconnectFromHost(s)
         IN  /\ Good(r) /\ r.peerClosing /\ r.sock \in {"none", "leaving"}
             /\ r.in = s.in /\ r.arrived = s.arrived
             /\ r.pendingWrites = s.pendingWrites
             /\ \/ r.state = "Closing" /\ r.signals = s.signals
                \/ /\ r.state = "Idle" /\ s.unwritten = 0
                   /\ r.signals = Append(s.signals, Signal("closed", 0))
<1> DEFINE r == DisconnectFromHost(s)
<1>1. CASE s.unwritten = 0
  <2>1. r = Disconnected(s)
    BY <1>1 DEF DisconnectFromHost
  <2> HIDE DEF r
  <2>2. /\ Good(r) /\ r.state = "Idle" /\ r.sock = "none"
        /\ r.peerClosing = s.peerClosing /\ r.in = s.in /\ r.arrived = s.arrived
        /\ r.pendingWrites = s.pendingWrites
        /\ r.signals = Append(s.signals, Signal("closed", 0))
    BY <2>1, Disconnects
  <2> QED BY <1>1, <2>2 DEF r
<1>2. CASE s.unwritten # 0
  <2>1. r = [s EXCEPT !.sock = "leaving"]
    BY <1>2 DEF DisconnectFromHost
  <2> HIDE DEF r
  <2>2. r \in WebSocket
    BY <2>1, Members, ZenonT(60) DEF WebSocket
  <2>3. /\ r.sock = "leaving" /\ r.state = s.state /\ r.resolving = s.resolving
        /\ r.peerClosing = s.peerClosing /\ r.fault = s.fault /\ r.signals = s.signals
        /\ SameRead(r, s) /\ SameWrite(r, s) /\ SameBody(r, s)
    BY <2>1 DEF WebSocket, SameRead, SameWrite, SameBody
  <2>4. ConnGood(r) /\ ReadGood(r) /\ BodyGood(r)
    BY <2>3 DEF ConnGood, ReadGood, BodyGood, SameRead, SameBody
  <2>5. WriteGood(r)
    <3>1. s.unwritten = Bytes(s.pendingWrites) /\ Bytes(s.pendingWrites) \in Nat
      BY Types DEF WriteGood
    <3>2. r.unwritten <= Bytes(r.pendingWrites)
      BY <2>3, <3>1 DEF SameWrite
    <3> QED BY <2>3, <3>2 DEF WriteGood, SameWrite
  <2>6. Good(r)
    BY <2>2, <2>3, <2>4, <2>5 DEF Good
  <2> QED BY <2>3, <2>6 DEF SameRead, SameWrite, r
<1> QED BY <1>1, <1>2

HasClose(items) == \E i \in 1..Len(items) : items[i].op = "close"

\* No close frame has come in.
Clear(s) == ~s.peerClosing /\ ~HasClose(s.net) /\ ~HasClose(s.inbuf)

\* A WebSocket that is going to look at the frames it has.
Framing(s) ==
  /\ s \in WebSocket /\ s.fault = "none" /\ s.state \in {"Connected", "Closing"}
  /\ s.sock = "up" /\ ~s.resolving /\ ~s.peerClosing /\ ~s.readingBody
  /\ s.net = <<>> /\ ~s.pendingRead /\ WriteGood(s)

\* What becomes of it when n frames are taken and a frame behind them makes
\* it emit a signal, or none.
Middle == {"none", "error", "peerClosing", "closed"}
Told(q, signal) == IF signal = "none" THEN q ELSE Append(q, Signal(signal, 0))

Frames(s, r, n, signal) ==
  /\ r \in WebSocket /\ r.fault = "none" /\ r.arrived = s.arrived + n
  /\ signal # "error" =>
       /\ Good(r) /\ Len(r.in) = Len(s.in) + n /\ (n = 0 => r.in = s.in)
       /\ r.pendingWrites = s.pendingWrites
  /\ signal = "none" => r.state = s.state /\ (r.peerClosing => s.state = "Closing")
  /\ signal = "peerClosing" =>
       s.state = "Connected" /\ r.state = "Connected" /\ r.peerClosing
  /\ signal = "closed" => s.state = "Closing" /\ r.state = "Idle" /\ r.peerClosing
  /\ signal = "error" => r.sock = "none"

Framed(s, r, n, signal) ==
  /\ Frames(s, r, n, signal)
  /\ r.signals = IF n > 0 THEN Append(Told(s.signals, signal), Signal("readyRead", 0))
                          ELSE Told(s.signals, signal)

Cleared(s, r) == ~HasClose(s.inbuf) => r.sock = "none" \/ Clear(r)

LEMMA TakenRange ==
  ASSUME NEW s \in WebSocket
  PROVE  LongestPrefix(s.inbuf, LAMBDA prefix : Taken(s, Last(prefix))) \in 0..Len(s.inbuf)
<1> DEFINE K == {k \in 1..Len(s.inbuf) : Taken(s, Last(SubSeq(s.inbuf, 1, k)))}
           T == {m \in 0..Len(s.inbuf) : \A k \in 1..m : k \in K}
           T2 == {m \in 0..Len(s.inbuf) :
                    \A k \in 1..m : Taken(s, Last(SubSeq(s.inbuf, 1, k)))}
           n == LongestPrefix(s.inbuf, LAMBDA prefix : Taken(s, Last(prefix)))
<1>1. T2 = T
  OBVIOUS
<1>2. n = CHOOSE i \in T2 : \A m \in T2 : m <= i
  BY DEF LongestPrefix
<1> HIDE DEF n, T2
<1>3. n = CHOOSE i \in T : \A m \in T : m <= i
  BY <1>1, <1>2
<1>4. Len(s.inbuf) \in Nat
  BY Types
<1> HIDE DEF K
<1>5. n \in 0..Len(s.inbuf)
  BY <1>3, <1>4, Longest
<1> QED BY <1>5 DEF n

LEMMA FramesTaken ==
  ASSUME NEW s, Framing(s)
  PROVE  /\ \E n \in Nat, signal \in Middle : Framed(s, TryProcessFrames(s), n, signal)
         /\ Cleared(s, TryProcessFrames(s))
<1> DEFINE n == LongestPrefix(s.inbuf, LAMBDA prefix : Taken(s, Last(prefix)))
           passed == SubSeq(s.inbuf, 1, n)
           rest == SubSeq(s.inbuf, n + 1, Len(s.inbuf))
           left == IF rest = <<>> THEN <<>> ELSE Tail(rest)
           got == [s EXCEPT !.in = @ \o passed, !.arrived = @ + n, !.inbuf = left]
           closing == [got EXCEPT !.peerClosing = TRUE]
           processed ==
             IF rest = <<>> THEN got
             ELSE IF FrameTooLarge(rest[1]) THEN Fail(got, "too-large")
             ELSE IF rest[1].op # "close" \/ s.peerClosing THEN got
             ELSE IF s.state = "Closing" THEN DisconnectFromHost(closing)
             ELSE Emit(closing, "peerClosing")
<1>1. s \in WebSocket /\ s.in \in Seq(FrameType) /\ s.inbuf \in Seq(FrameType)
      /\ s.arrived \in Nat /\ s.signals \in Seq(SignalType)
  BY Types DEF Framing
<1>2. n \in 0..Len(s.inbuf)
  BY <1>1, TakenRange
<1>3. TryProcessFrames(s) = IF n > 0 THEN Emit(processed, "readyRead") ELSE processed
  BY DEF TryProcessFrames
<1> HIDE DEF n
<1>4. /\ passed \in Seq(FrameType) /\ Len(passed) = n /\ (n = 0 => passed = <<>>)
      /\ rest \in Seq(FrameType) /\ \A i \in 1..Len(rest) : rest[i] = s.inbuf[n + i]
      /\ Len(rest) = Len(s.inbuf) - n
  BY <1>1, <1>2
<1>5. /\ s.in \o passed \in Seq(FrameType) /\ Len(s.in \o passed) = Len(s.in) + n
      /\ (n = 0 => s.in \o passed = s.in)
  <2> HIDE DEF passed
  <2>1. s.in \o passed \in Seq(FrameType)
    BY <1>1, <1>4
  <2>2. Len(s.in \o passed) = Len(s.in) + Len(passed)
    BY ZenonT(30), <1>1, <1>4, ConcatProperties
  <2>3. s.in \o <<>> = s.in
    BY <1>1
  <2> QED BY <1>4, <2>1, <2>2, <2>3
<1>6. left \in Seq(FrameType) /\ (~HasClose(s.inbuf) => ~HasClose(left))
  <2> HIDE DEF rest
  <2>1. CASE rest = <<>>
    BY <2>1, Members DEF HasClose
  <2>2. CASE rest # <<>>
    <3>1. /\ left = Tail(rest) /\ left \in Seq(FrameType) /\ Len(left) = Len(rest) - 1
          /\ \A i \in 1..Len(left) : left[i] = rest[i + 1]
      BY <1>4, <2>2
    <3> HIDE DEF left
    <3>2. ASSUME NEW i \in 1..Len(left), left[i].op = "close" PROVE HasClose(s.inbuf)
      <4>1. i + 1 \in 1..Len(rest) /\ n + (i + 1) \in 1..Len(s.inbuf)
        BY <1>1, <1>2, <1>4, <3>1
      <4>2. s.inbuf[n + (i + 1)].op = "close"
        BY <1>4, <3>1, <3>2, <4>1
      <4> QED BY <4>1, <4>2 DEF HasClose
    <3> QED BY <3>1, <3>2 DEF HasClose
  <2> QED BY <2>1, <2>2
<1>7. rest # <<>> /\ ~HasClose(s.inbuf) => rest[1].op # "close"
  <2> SUFFICES ASSUME rest # <<>>, rest[1].op = "close" PROVE HasClose(s.inbuf)
    OBVIOUS
  <2> HIDE DEF rest
  <2>1. 1 \in 1..Len(rest) /\ n + 1 \in 1..Len(s.inbuf)
    BY <1>1, <1>2, <1>4
  <2>2. s.inbuf[n + 1].op = "close"
    BY <1>4, <2>1
  <2> QED BY <2>1, <2>2 DEF HasClose
<1> DEFINE in == s.in \o passed
           more == s.arrived + n
<1>8. got = [s EXCEPT !.in = in, !.arrived = more, !.inbuf = left]
  OBVIOUS
<1>9. more \in Nat /\ n \in Nat
  BY <1>1, <1>2
<1> HIDE DEF passed, left, rest, in, more, got
<1>10. got \in WebSocket
  <2>1. in \in Seq(FrameType)
    BY <1>5 DEF in
  <2> QED BY <1>1, <1>6, <1>8, <1>9, <2>1, ZenonT(60) DEF WebSocket
<1>11. /\ got.in = in /\ got.arrived = more /\ got.inbuf = left
       /\ SameConn(got, s) /\ SameWrite(got, s) /\ SameBody(got, s)
       /\ got.net = s.net /\ got.pendingRead = s.pendingRead
       /\ got.fault = s.fault /\ got.signals = s.signals
  BY <1>1, <1>8 DEF WebSocket, SameConn, SameWrite, SameBody
<1>12. Good(got)
  <2>1. ConnGood(got) /\ ReadGood(got) /\ BodyGood(got)
    BY <1>11 DEF Framing, ConnGood, ReadGood, BodyGood, SameConn, SameBody
  <2>2. WriteGood(got)
    BY <1>11 DEF Framing, WriteGood, SameConn, SameWrite
  <2> QED BY <1>10, <1>11, <2>1, <2>2 DEF Good, Framing
<1>13. closing \in WebSocket
  BY <1>10, ZenonT(60) DEF WebSocket
<1>14. /\ closing.peerClosing /\ closing.state = got.state /\ closing.sock = got.sock
       /\ closing.resolving = got.resolving
       /\ SameRead(closing, got) /\ SameWrite(closing, got) /\ SameBody(closing, got)
       /\ closing.fault = got.fault /\ closing.signals = got.signals
  BY <1>10 DEF WebSocket, SameRead, SameWrite, SameBody
<1>15. WriteGood(closing)
  BY <1>12, <1>14 DEF Good, WriteGood, SameWrite
<1> HIDE DEF closing, processed
<1>16. \E signal \in Middle : Frames(s, processed, n, signal)
                              /\ processed.signals = Told(s.signals, signal)
                              /\ Cleared(s, processed)
  <2>1. CASE processed = got
    <3>1. Frames(s, got, n, "none")
      <4>1. Len(got.in) = Len(s.in) + n /\ (n = 0 => got.in = s.in)
        BY <1>5, <1>11 DEF in

      <4>3. got.state = s.state /\ ~got.peerClosing /\ got.pendingWrites = s.pendingWrites
        BY <1>11 DEF Framing, SameConn, SameWrite
      <4>4. got.arrived = s.arrived + n /\ got.fault = "none"
        BY <1>11 DEF Framing, more
      <4> QED BY <1>10, <1>12, <4>1, <4>3, <4>4 DEF Frames
    <3>2. Cleared(s, got)
      <4>1. ~HasClose(<<>>)
        BY DEF HasClose
      <4> QED BY <1>6, <1>11, <4>1 DEF Framing, SameConn, Cleared, Clear
    <3> QED BY <1>11, <2>1, <3>1, <3>2 DEF Middle, Told
  <2>2. CASE processed = Fail(got, "too-large")
    <3>1. Failed(got, processed)
      BY <1>10, <1>11, <2>2, FailFails, Members DEF Framing
    <3>2. processed.sock = "none"
      BY <1>10, <1>11, <2>2, FailCarries, Members DEF Framing
    <3>3. Frames(s, processed, n, "error")
      BY <1>11, <3>1, <3>2 DEF Frames, Failed, Framing, more
    <3>4. processed.signals = Told(s.signals, "error")
      BY <1>11, <3>1 DEF Failed, Told
    <3> QED BY <3>2, <3>3, <3>4 DEF Middle, Cleared
  <2>3. CASE processed = DisconnectFromHost(closing) /\ s.state = "Closing" /\ HasClose(s.inbuf)
    <3>1. /\ Good(processed) /\ processed.peerClosing
          /\ processed.in = closing.in /\ processed.arrived = closing.arrived
          /\ processed.pendingWrites = closing.pendingWrites
          /\ \/ processed.state = "Closing" /\ processed.signals = closing.signals
             \/ /\ processed.state = "Idle"
                /\ processed.signals = Append(closing.signals, Signal("closed", 0))
      BY <1>11, <1>13, <1>14, <1>15, <2>3, Leaves
         DEF Framing, SameConn, SameRead, SameBody
    <3>2. processed.in = in /\ processed.arrived = s.arrived + n
          /\ processed.pendingWrites = s.pendingWrites
      BY <1>11, <1>14, <3>1 DEF SameRead, SameWrite, more
    <3>3. Len(processed.in) = Len(s.in) + n /\ (n = 0 => processed.in = s.in)
      BY <1>5, <3>2 DEF in
    <3>4. processed \in WebSocket /\ processed.fault = "none"
      BY <3>1 DEF Good
    <3>5. CASE processed.state = "Closing" /\ processed.signals = closing.signals
      <4>1. Frames(s, processed, n, "none")
        BY <2>3, <3>1, <3>2, <3>3, <3>4, <3>5 DEF Frames
      <4> QED BY <1>11, <1>14, <2>3, <3>5, <4>1 DEF Middle, Told, Cleared
    <3>6. CASE /\ processed.state = "Idle"
               /\ processed.signals = Append(closing.signals, Signal("closed", 0))
      <4>1. Frames(s, processed, n, "closed")
        BY <2>3, <3>1, <3>2, <3>3, <3>4, <3>6 DEF Frames
      <4> QED BY <1>11, <1>14, <2>3, <3>6, <4>1 DEF Middle, Told, Cleared
    <3> QED BY <3>1, <3>5, <3>6
  <2>4. CASE /\ processed = Emit(closing, "peerClosing") /\ s.state # "Closing"
             /\ HasClose(s.inbuf)
    <3>1. s.state = "Connected"
      BY <2>4 DEF Framing
    <3>2. ConnGood(closing) /\ ReadGood(closing) /\ BodyGood(closing)
      BY <1>11, <1>14, <3>1
         DEF Framing, ConnGood, ReadGood, BodyGood, SameConn, SameRead, SameBody
    <3>3. Good(closing)
      BY <1>11, <1>13, <1>14, <1>15, <3>2 DEF Good, Framing
    <3>4. /\ processed \in WebSocket /\ SameButSignals(processed, closing)
          /\ processed.signals = Append(closing.signals, Signal("peerClosing", 0))
      BY <1>13, <2>4, EmitFields, Members
    <3>5. Good(processed)
      BY <1>13, <3>3, <3>4, GoodSame
    <3>6. processed.in = in /\ processed.arrived = s.arrived + n
          /\ processed.pendingWrites = s.pendingWrites
          /\ processed.state = "Connected" /\ processed.peerClosing
      BY <1>11, <1>14, <3>1, <3>4
         DEF SameButSignals, SameConn, SameRead, SameWrite, more
    <3>7. Len(processed.in) = Len(s.in) + n /\ (n = 0 => processed.in = s.in)
      BY <1>5, <3>6 DEF in
    <3>8. Frames(s, processed, n, "peerClosing")
      BY <2>4, <3>1, <3>4, <3>5, <3>6, <3>7 DEF Frames, Good
    <3> QED BY <1>11, <1>14, <2>4, <3>4, <3>8 DEF Middle, Told, Cleared
  <2>5. \/ processed = got
        \/ processed = Fail(got, "too-large")
        \/ processed = DisconnectFromHost(closing) /\ s.state = "Closing" /\ HasClose(s.inbuf)
        \/ processed = Emit(closing, "peerClosing") /\ s.state # "Closing" /\ HasClose(s.inbuf)
    BY <1>7 DEF processed, closing
  <2> QED BY <2>1, <2>2, <2>3, <2>4, <2>5
<1>17. PICK signal \in Middle : Frames(s, processed, n, signal)
                                /\ processed.signals = Told(s.signals, signal)
                                /\ Cleared(s, processed)
  BY <1>16
<1>18. CASE ~(n > 0)
  BY <1>3, <1>9, <1>17, <1>18 DEF Framed
<1>19. CASE n > 0
  <2> DEFINE r == Emit(processed, "readyRead")
  <2>1. /\ r \in WebSocket /\ SameButSignals(r, processed)
        /\ r.signals = Append(processed.signals, Signal("readyRead", 0))
    BY <1>17, EmitFields, Members DEF Frames
  <2> HIDE DEF r
  <2>2. signal # "error" => Good(r)
    BY <1>17, <2>1, GoodSame DEF Frames
  <2>3. Frames(s, r, n, signal)
    BY <1>17, <2>1, <2>2
       DEF Frames, SameButSignals, SameConn, SameRead, SameWrite
  <2>4. Framed(s, r, n, signal)
    BY <1>17, <1>19, <2>1, <2>3 DEF Framed
  <2>5. Cleared(s, r)
    BY <1>17, <2>1 DEF Cleared, Clear, SameButSignals, SameConn, SameRead
  <2> QED BY <1>3, <1>9, <1>19, <2>4, <2>5 DEF r
<1> QED BY <1>18, <1>19

\* What a step does that takes frames: the function may have emitted q before.
Taking(s, r, q) ==
  \E n \in Nat, signal \in Middle :
    /\ Frames(s, r, n, signal)
    /\ r.signals = IF n > 0 THEN Append(Told(q, signal), Signal("readyRead", 0))
                            ELSE Told(q, signal)

LEMMA HasCloseConcat ==
  ASSUME NEW p \in Seq(FrameType), NEW q \in Seq(FrameType), ~HasClose(p), ~HasClose(q)
  PROVE  ~HasClose(p \o q)
<1> SUFFICES ASSUME NEW i \in 1..Len(p \o q), (p \o q)[i].op = "close" PROVE FALSE
  BY DEF HasClose
<1>1. /\ Len(p) \in Nat /\ Len(q) \in Nat /\ Len(p \o q) = Len(p) + Len(q)
      /\ (p \o q)[i] = IF i <= Len(p) THEN p[i] ELSE q[i - Len(p)]
  BY ConcatProperties
<1>2. CASE i <= Len(p)
  BY <1>1, <1>2 DEF HasClose
<1>3. CASE ~(i <= Len(p))
  <2>1. i - Len(p) \in 1..Len(q)
    BY <1>1, <1>3
  <2> QED BY <1>1, <1>3, <2>1 DEF HasClose
<1> QED BY <1>2, <1>3

\* A WebSocket that may look for frames.
Listening(s) ==
  /\ s \in WebSocket /\ s.fault = "none" /\ s.signals = <<>>
  /\ ConnGood(s) /\ WriteGood(s) /\ BodyGood(s)
  /\ s.state \in {"Connected", "Closing"} /\ ~s.peerClosing

LEMMA ReadTakes ==
  ASSUME NEW s, Listening(s)
  PROVE  LET r == TryRead(s)
         IN  /\ Taking(s, r, <<>>)
             /\ Clear(s) => r.sock = "none" \/ Clear(r)
<1> DEFINE a == [s EXCEPT !.pendingRead = FALSE]
           inbuf == a.inbuf \o s.net
           f == [a EXCEPT !.inbuf = inbuf, !.net = <<>>]
<1>1. /\ s \in WebSocket /\ s.inbuf \in Seq(FrameType) /\ s.net \in Seq(FrameType)
      /\ InBytes(s) \in Nat /\ MaxFrameSize \in Nat
  BY Types, WebSocketAssumption DEF Listening
<1>2. s.sock = "up" /\ ~s.resolving /\ ~s.readingBody
  BY DEF Listening, ConnGood, BodyGood
<1>3. a \in WebSocket
  BY <1>1, ZenonT(60) DEF WebSocket
<1>4. /\ SameConn(a, s) /\ SameWrite(a, s) /\ SameBody(a, s) /\ ~a.pendingRead
      /\ a.net = s.net /\ a.in = s.in /\ a.inbuf = s.inbuf /\ a.arrived = s.arrived
      /\ a.fault = s.fault /\ a.signals = s.signals
  BY <1>1 DEF WebSocket, SameConn, SameWrite, SameBody
<1>5. TryRead(s) = IF InBytes(s) >= MaxFrameSize \/ s.net = <<>> THEN a
                   ELSE TryProcessFrames(f)
  BY <1>2 DEF TryRead
<1> HIDE DEF a
<1>6. CASE InBytes(s) >= MaxFrameSize \/ s.net = <<>>
  <2>1. ConnGood(a) /\ BodyGood(a) /\ WriteGood(a)
    BY <1>4 DEF Listening, ConnGood, BodyGood, WriteGood, SameConn, SameWrite, SameBody
  <2>2. ReadGood(a)
    BY <1>4, <1>6 DEF Listening, ReadGood, SameConn, InBytes
  <2>3. Good(a)
    BY <1>3, <1>4, <2>1, <2>2 DEF Good, Listening
  <2>4. a.arrived = s.arrived + 0 /\ Len(a.in) = Len(s.in) + 0
    BY <1>1, <1>4, Types
  <2>5. Frames(s, a, 0, "none")
    BY <1>3, <1>4, <2>3, <2>4 DEF Frames, Listening, SameConn, SameWrite
  <2>6. Taking(s, a, <<>>)
    BY <1>4, <2>5 DEF Taking, Told, Middle, Listening
  <2> QED BY <1>4, <1>5, <1>6, <2>6 DEF Clear, SameConn
<1>7. CASE ~(InBytes(s) >= MaxFrameSize \/ s.net = <<>>)
  <2>1. inbuf \in Seq(FrameType)
    BY <1>1, <1>4, ConcatProperties
  <2>2. ~HasClose(s.net) /\ ~HasClose(s.inbuf) => ~HasClose(inbuf)
    BY <1>1, <1>4, HasCloseConcat
  <2> HIDE DEF inbuf
  <2>3. f \in WebSocket
    BY <1>3, <2>1, Members, ZenonT(60) DEF WebSocket
  <2>4. /\ SameConn(f, a) /\ SameWrite(f, a) /\ SameBody(f, a)
        /\ f.pendingRead = a.pendingRead
        /\ f.net = <<>> /\ f.in = a.in /\ f.inbuf = inbuf /\ f.arrived = a.arrived
        /\ f.fault = a.fault /\ f.signals = a.signals
    BY <1>3 DEF WebSocket, SameConn, SameWrite, SameBody
  <2> HIDE DEF f
  <2>5. WriteGood(f)
    BY <1>4, <2>4 DEF Listening, WriteGood, SameConn, SameWrite
  <2>6. Framing(f)
    BY <1>2, <1>4, <2>3, <2>4, <2>5 DEF Framing, Listening, SameConn, SameBody
  <2> DEFINE r == TryProcessFrames(f)
  <2>7. PICK n \in Nat, signal \in Middle : Framed(f, r, n, signal)
    BY <2>6, FramesTaken
  <2>8. Cleared(f, r)
    BY <2>6, FramesTaken
  <2> HIDE DEF r
  <2>9. Frames(s, r, n, signal)
    BY <1>4, <2>4, <2>7 DEF Framed, Frames, SameConn, SameWrite
  <2>10. Taking(s, r, <<>>)
    BY <1>4, <2>4, <2>7, <2>9 DEF Taking, Framed, Listening
  <2>11. Clear(s) => r.sock = "none" \/ Clear(r)
    BY <2>2, <2>4, <2>8 DEF Clear, Cleared
  <2> QED BY <1>5, <1>7, <2>10, <2>11 DEF r
<1> QED BY <1>6, <1>7

\* Frames that arrive at an open WebSocket.
LEMMA FramesArrive ==
  ASSUME NEW s, Good(s), s.signals = <<>>, s.state \in {"Connected", "Closing"},
         ~s.peerClosing, NEW items \in Seq(FrameType)
  PROVE  LET r == SockReadyRead(s, items)
         IN  /\ Taking(s, r, <<>>)
             /\ Clear(s) /\ ~HasClose(items) => r.sock = "none" \/ Clear(r)
<1> DEFINE net == s.net \o AsFrames(items)
           x == [s EXCEPT !.net = net]
<1>1. s \in WebSocket /\ s.net \in Seq(FrameType)
  BY Types DEF Good
<1>2. AsFrames(items) = items
  <2>1. ASSUME NEW i \in 1..Len(items) PROVE items[i].kind = "frame"
    <3>1. items[i] \in FrameType
      OBVIOUS
    <3> QED BY <3>1 DEF FrameType
  <2>2. AsFrames(items) = [i \in 1..Len(items) |-> items[i]]
    BY <2>1 DEF AsFrames
  <2> QED BY <2>2
<1>3. net \in Seq(FrameType) /\ (~HasClose(s.net) /\ ~HasClose(items) => ~HasClose(net))
  BY <1>1, <1>2, ConcatProperties, HasCloseConcat
<1> HIDE DEF net
<1>4. x \in WebSocket
  BY <1>1, <1>3, ZenonT(60) DEF WebSocket
<1>5. /\ SameConn(x, s) /\ SameWrite(x, s) /\ SameBody(x, s)
      /\ x.net = net /\ x.in = s.in /\ x.inbuf = s.inbuf /\ x.arrived = s.arrived
      /\ x.fault = s.fault /\ x.signals = s.signals
  BY <1>1 DEF WebSocket, SameConn, SameWrite, SameBody
<1>6. SockReadyRead(s, items) = TryRead(x)
  BY DEF SockReadyRead, net
<1> HIDE DEF x
<1>7. ConnGood(x) /\ BodyGood(x)
  BY <1>5 DEF Good, ConnGood, BodyGood, SameConn, SameBody, SameWrite
<1>8. WriteGood(x)
  BY <1>5 DEF Good, WriteGood, SameConn, SameWrite
<1>9. Listening(x)
  BY <1>4, <1>5, <1>7, <1>8 DEF Listening, Good, SameConn
<1> DEFINE r == TryRead(x)
<1>10. Taking(x, r, <<>>) /\ (Clear(x) => r.sock = "none" \/ Clear(r))
  BY <1>9, ReadTakes
<1> HIDE DEF r
<1>11. Taking(s, r, <<>>)
  BY <1>5, <1>10 DEF Taking, Frames, SameConn, SameWrite
<1>12. Clear(s) /\ ~HasClose(items) => Clear(x)
  BY <1>3, <1>5 DEF Clear, SameConn
<1> QED BY <1>6, <1>10, <1>11, <1>12 DEF r

\* The answer to a handshake that was written.
Asking(s) ==
  /\ Good(s) /\ s.signals = <<>> /\ s.state = "Connecting" /\ s.sock = "up"
  /\ ~s.readingBody /\ s.unwritten = 0

\* The head that s keeps from a response.
WithHead(s, head) ==
  [s EXCEPT !.code = head.answer, !.length = head.length, !.chunked = head.chunked,
            !.readingBody = TRUE]

LEMMA HeadTaken ==
  ASSUME NEW s, Asking(s), NEW head \in HeadType, head.answer \in {"reject"} \cup Redirections,
         head.answer \in Redirections => head.length = 0 /\ ~head.chunked
  PROVE  LET b == WithHead(s, head)
         IN  Reading(b) /\ b.chunked = head.chunked /\ (\A x : Carries(b, x) => Carries(s, x))
<1> DEFINE b == WithHead(s, head)
<1>1. /\ s \in WebSocket /\ head.answer \in CodeType /\ head.length \in Optional
      /\ head.chunked \in BOOLEAN /\ s.body = 0
  BY Members DEF Asking, Good, BodyGood, HeadType
<1>2. b \in WebSocket
  BY <1>1, ZenonT(60) DEF WebSocket, WithHead
<1>3. /\ b.code = head.answer /\ b.length = head.length /\ b.chunked = head.chunked
      /\ b.readingBody /\ b.body = s.body
      /\ SameConn(b, s) /\ SameRead(b, s) /\ SameWrite(b, s)
      /\ b.fault = s.fault /\ b.signals = s.signals
  BY <1>1 DEF WebSocket, WithHead, SameConn, SameRead, SameWrite
<1> HIDE DEF b
<1>4. ConnGood(b) /\ ReadGood(b)
  BY <1>3 DEF Asking, Good, ConnGood, ReadGood, InBytes, SameConn, SameRead, SameWrite
<1>5. WriteGood(b)
  BY <1>3 DEF Asking, Good, WriteGood, SameConn, SameWrite
<1>6. Bytes(b.pendingWrites) = 0
  BY <1>3 DEF Asking, Good, WriteGood, SameWrite
<1>7. b.body = 0 /\ b.body <= BodyMax /\ (~b.chunked /\ b.length # -1 => b.body <= b.length)
  BY <1>1, <1>3, WebSocketAssumption DEF Optional
<1>8. Reading(b)
  BY <1>2, <1>3, <1>4, <1>5, <1>6, <1>7 DEF Reading, Asking, Good, SameConn
<1>9. ASSUME NEW x, Carries(b, x) PROVE Carries(s, x)
  BY <1>3, <1>9 DEF Carries, Failed, Steady, SameConn, SameRead, SameWrite
<1> QED BY <1>3, <1>8, <1>9 DEF b

LEMMA Headed ==
  ASSUME NEW head \in HeadType, NEW rest \in Seq(Item)
  PROVE  LET items == <<head>> \o rest
         IN  items \in Seq(Item) /\ items[1] = head /\ Tail(items) = rest
<1>1. head \in Item
  BY DEF Item
<1> QED BY <1>1

LEMMA SeqOfItems ==
  /\ \A q \in Seq(FrameType) : q \in Seq(Item)
  /\ \A q \in Seq(PieceType) : q \in Seq(Item)
  /\ <<>> \in Seq(Item)
<1>1. FrameType \subseteq Item /\ PieceType \subseteq Item
  BY DEF Item
<1>2. ASSUME NEW q \in Seq(FrameType) PROVE q \in Seq(Item)
  BY <1>1
<1>3. ASSUME NEW q \in Seq(PieceType) PROVE q \in Seq(Item)
  BY <1>1
<1> QED BY <1>2, <1>3, EmptySeq

\* No upgrade.
LEMMA ResponseReads ==
  ASSUME NEW s, Asking(s), NEW head \in HeadType, head.answer # "upgrade",
         head.answer \in Redirections => head.length = 0 /\ ~head.chunked,
         NEW rest \in Seq(Item), rest \in Seq(Whole)
  PROVE  LET r == SockReadyRead(s, <<head>> \o rest)
         IN  /\ Carries(s, r)
             /\ r.sock # "none" => r.sock = "up" /\ r.state = "Connecting" /\ r.readingBody
<1> DEFINE items == <<head>> \o rest
           a == [s EXCEPT !.code = head.answer]
           r == SockReadyRead(s, items)
<1>1. items[1] = head /\ Tail(items) = rest
  BY Headed
<1> HIDE DEF items
<1>2. r = ReadResponse(s, items)
  BY DEF SockReadyRead, Asking
<1>3. s \in WebSocket /\ head.answer \in Answers /\ head.answer \in CodeType
  BY Members DEF Asking, Good, HeadType
<1>4. CASE head.answer = "bad"
  <2>1. r = Fail(a, "generic")
    BY <1>1, <1>2, <1>4 DEF ReadResponse
  <2>2. a \in WebSocket
    BY <1>3, ZenonT(60) DEF WebSocket
  <2>3. a.fault = s.fault /\ a.signals = s.signals /\ a.arrived = s.arrived
    BY <1>3 DEF WebSocket
  <2> HIDE DEF a, r
  <2>4. Failed(a, r) /\ r.sock = "none"
    BY <2>1, <2>2, <2>3, FailFails, FailCarries, Members DEF Asking, Good
  <2>5. Carries(s, r)
    BY <2>3, <2>4 DEF Carries, Failed
  <2> QED BY <2>4, <2>5 DEF r, items
<1>5. CASE head.answer \in {"reject"} \cup Redirections
  <2> DEFINE b == WithHead(s, head)
  <2>1. r = TryProcessBody(b, rest)
    <3>1. b = [a EXCEPT !.length = head.length, !.chunked = head.chunked, !.readingBody = TRUE]
      BY <1>3 DEF WithHead, WebSocket
    <3> HIDE DEF a, b
    <3>2. head.answer # "bad" /\ head.answer # "upgrade"
      BY <1>5 DEF Redirections
    <3>3. ReadResponse(s, items) = TryProcessBody(b, rest)
      BY <1>1, <3>1, <3>2 DEF ReadResponse, a
    <3> QED BY <1>2, <3>3
  <2>2. Reading(b) /\ (\A x : Carries(b, x) => Carries(s, x))
    BY <1>5, HeadTaken
  <2> HIDE DEF b, r
  <2>3. Reads(b, r)
    BY <2>1, <2>2, BodyReads DEF Chunks
  <2> QED BY <2>2, <2>3 DEF Reads, r, items
<1> QED BY <1>3, <1>4, <1>5 DEF Answers

\* An upgrade, perhaps with frames behind it.
Upgraded(s, r) ==
  \E f : /\ Taking(f, r, <<Signal("connected", 0)>>)
         /\ f.state = "Connected" /\ f.in = s.in /\ f.arrived = s.arrived
         /\ f.pendingWrites = s.pendingWrites

LEMMA ResponseUpgrades ==
  ASSUME NEW s, Asking(s), NEW head \in HeadType, head.answer = "upgrade",
         NEW rest \in Seq(FrameType)
  PROVE  LET r == SockReadyRead(s, <<head>> \o rest)
         IN  /\ Upgraded(s, r)
             /\ ~HasClose(rest) => r.sock = "none" \/ Clear(r)
<1> DEFINE items == <<head>> \o rest
           a == [s EXCEPT !.code = head.answer]
           b == [a EXCEPT !.state = "Connected", !.inbuf = rest]
           f == Emit(b, "connected")
           r == SockReadyRead(s, items)
<1>1. items[1] = head /\ Tail(items) = rest
  BY Headed, SeqOfItems
<1> HIDE DEF items
<1>2. r = ReadResponse(s, items)
  BY DEF SockReadyRead, Asking
<1>3. s \in WebSocket /\ head.answer \in CodeType
  BY Members DEF Asking, Good, HeadType
<1>4. r = TryProcessFrames(f)
  BY <1>1, <1>2 DEF ReadResponse
<1>5. a \in WebSocket
  BY <1>3, ZenonT(60) DEF WebSocket
<1>6. /\ SameConn(a, s) /\ SameRead(a, s) /\ SameWrite(a, s)
      /\ a.readingBody = s.readingBody
      /\ a.fault = s.fault /\ a.signals = s.signals
  BY <1>3 DEF WebSocket, SameConn, SameRead, SameWrite
<1> HIDE DEF a
<1>7. b \in WebSocket
  BY <1>5, Members, ZenonT(60) DEF WebSocket
<1>8. /\ b.state = "Connected" /\ b.inbuf = rest
      /\ b.resolving = a.resolving /\ b.sock = a.sock /\ b.peerClosing = a.peerClosing
      /\ b.in = a.in /\ b.arrived = a.arrived /\ b.net = a.net
      /\ b.pendingRead = a.pendingRead /\ SameWrite(b, a)
      /\ b.readingBody = a.readingBody /\ b.fault = a.fault /\ b.signals = a.signals
  BY <1>5 DEF WebSocket, SameWrite
<1> HIDE DEF b
<1>9. f \in WebSocket /\ SameButSignals(f, b) /\ f.signals = Append(b.signals, Signal("connected", 0))
  BY <1>7, EmitFields, Members
<1> HIDE DEF f, r
<1>10. WriteGood(f)
  BY <1>6, <1>8, <1>9 DEF Asking, Good, WriteGood, SameButSignals, SameConn, SameWrite
<1>11. Framing(f)
  BY <1>6, <1>8, <1>9, <1>10
     DEF Framing, Asking, Good, ConnGood, ReadGood,
         SameButSignals, SameConn, SameRead, SameWrite, SameBody
<1>12. PICK n \in Nat, signal \in Middle : Framed(f, r, n, signal)
  BY <1>4, <1>11, FramesTaken
<1>13. f.signals = <<Signal("connected", 0)>>
  <2>1. Append(<<>>, Signal("connected", 0)) = <<Signal("connected", 0)>>
    OBVIOUS
  <2> QED BY <1>6, <1>8, <1>9, <2>1 DEF Asking
<1>14. Taking(f, r, <<Signal("connected", 0)>>)
  BY <1>12, <1>13 DEF Taking, Framed
<1>15. f.state = "Connected" /\ f.in = s.in /\ f.arrived = s.arrived
       /\ f.pendingWrites = s.pendingWrites /\ f.inbuf = rest
  BY <1>6, <1>8, <1>9 DEF SameButSignals, SameConn, SameRead, SameWrite
<1>16. ~HasClose(rest) => r.sock = "none" \/ Clear(r)
  BY <1>4, <1>11, <1>15, FramesTaken DEF Cleared
<1> QED BY <1>14, <1>15, <1>16 DEF Upgraded, r, items

----------------------------------------------------------------------------
\* Reading, writing and closing.

\* The fields that tie a WebSocket to its server.
SameLink(r, s) == SameConn(r, s) /\ SameBody(r, s) /\ r.net = s.net /\ r.inbuf = s.inbuf

LEMMA ReadFramesGood ==
  ASSUME NEW s, Good(s), NEW n \in 0..Len(s.in)
  PROVE  LET r == ReadFrames(s, n)
         IN  /\ Good(r) /\ SameLink(r, s) /\ SameWrite(r, s)
             /\ r.in = SubSeq(s.in, n + 1, Len(s.in)) /\ r.arrived = s.arrived
             /\ r.signals = s.signals
<1> DEFINE in == SubSeq(s.in, n + 1, Len(s.in))
           a == [s EXCEPT !.in = in]
           r == ReadFrames(s, n)
           full == n > 0 /\ InBytes(a) < MaxFrameSize /\ s.sock # "none" /\ s.net # <<>>
<1>1. s \in WebSocket /\ s.in \in Seq(FrameType)
  BY Types DEF Good
<1>2. /\ in \in Seq(FrameType) /\ (s.in = <<>> => in = <<>>) /\ (n = 0 => in = s.in)
  <2>1. in \in Seq(FrameType) /\ Len(in) = Len(s.in) - n
    BY <1>1
  <2>2. s.in = <<>> => in = <<>>
    BY <1>1, <2>1
  <2>3. SubSeq(s.in, 1, Len(s.in)) = s.in
    BY <1>1, SubSeqFull
  <2>4. n = 0 => n + 1 = 1
    OBVIOUS
  <2> QED BY <2>1, <2>2, <2>3, <2>4
<1>3. r = IF full THEN [a EXCEPT !.pendingRead = TRUE] ELSE a
  BY DEF ReadFrames
<1> HIDE DEF in
<1>4. a \in WebSocket
  BY <1>1, <1>2, ZenonT(60) DEF WebSocket
<1>5. /\ SameLink(a, s) /\ SameWrite(a, s) /\ a.in = in /\ a.arrived = s.arrived
      /\ a.signals = s.signals /\ a.fault = s.fault /\ a.pendingRead = s.pendingRead
  BY <1>1 DEF WebSocket, SameLink, SameConn, SameBody, SameWrite
<1>6. InBytes(a) \in Nat /\ MaxFrameSize \in Nat
  BY <1>4, Types, WebSocketAssumption
<1> HIDE DEF a, full
<1>7. [a EXCEPT !.pendingRead = TRUE] \in WebSocket
  BY <1>4, ZenonT(60) DEF WebSocket
<1>8. LET b == [a EXCEPT !.pendingRead = TRUE]
      IN  /\ SameLink(b, a) /\ SameWrite(b, a) /\ b.in = a.in /\ b.arrived = a.arrived
          /\ b.signals = a.signals /\ b.fault = a.fault /\ b.pendingRead
  BY <1>4 DEF WebSocket, SameLink, SameConn, SameBody, SameWrite
<1> HIDE DEF r
<1>9. /\ r \in WebSocket
      /\ SameLink(r, s) /\ SameWrite(r, s) /\ r.in = in /\ r.arrived = s.arrived
      /\ r.signals = s.signals /\ r.fault = s.fault
      /\ IF full THEN r.pendingRead ELSE r.pendingRead = s.pendingRead
  <2>1. CASE full
    BY <1>3, <1>5, <1>7, <1>8, <2>1 DEF SameLink, SameConn, SameBody, SameWrite
  <2>2. CASE ~full
    BY <1>3, <1>4, <1>5, <2>2
  <2> QED BY <2>1, <2>2
<1>10. ConnGood(r) /\ BodyGood(r)
  BY <1>2, <1>9 DEF Good, ConnGood, BodyGood, SameLink, SameConn, SameBody, SameWrite
<1>11. WriteGood(r)
  BY <1>9 DEF Good, WriteGood, SameLink, SameConn, SameWrite
<1>12. ReadGood(r)
  <2>1. s.net # <<>> => s.sock # "none"
    BY DEF Good, ReadGood, ConnGood
  <2>2. InBytes(r) = InBytes(a)
    BY <1>5, <1>9 DEF InBytes
  <2>3. ASSUME r.net # <<>>, ~r.pendingRead PROVE InBytes(r) >= MaxFrameSize
    <3>1. ~full
      BY <1>9, <2>3
    <3>2. s.net # <<>> /\ s.sock # "none" /\ ~s.pendingRead
      BY <1>9, <2>1, <2>3, <3>1 DEF SameLink
    <3>3. CASE n = 0
      <4>1. InBytes(r) = InBytes(s)
        BY <1>2, <1>9, <3>3 DEF InBytes
      <4> QED BY <3>2, <4>1 DEF Good, ReadGood
    <3>4. CASE n # 0
      <4>1. ~(InBytes(a) < MaxFrameSize)
        BY <3>1, <3>2, <3>4 DEF full
      <4> QED BY <1>6, <2>2, <4>1
    <3> QED BY <3>3, <3>4
  <2>4. r.net # <<>> => r.state \in {"Connected", "Closing"} /\ ~r.peerClosing
    BY <1>9 DEF Good, ReadGood, SameLink, SameConn
  <2>5. r.pendingRead => r.net # <<>>
    BY <1>9 DEF Good, ReadGood, SameLink, full
  <2> QED BY <2>3, <2>4, <2>5 DEF ReadGood
<1>13. Good(r)
  BY <1>9, <1>10, <1>11, <1>12 DEF Good
<1> QED BY <1>9, <1>13 DEF r, in

\* A frame of the client.
LEMMA WriteFrameGood ==
  ASSUME NEW s, Good(s), s.state = "Connected", NEW size \in Nat
  PROVE  LET r == WriteFrame(s, size)
         IN  /\ Good(r) /\ SameLink(r, s) /\ r.in = s.in /\ r.arrived = s.arrived
             /\ FrameCount(r.pendingWrites) = FrameCount(s.pendingWrites) + 1
             /\ r.signals = s.signals
<1> DEFINE more == HeaderSize + size
           r == WriteFrame(s, size)
<1>1. more \in Nat /\ more > 0 /\ TRUE \in BOOLEAN /\ s \in WebSocket
  BY Members DEF Good
<1>2. r = Send(s, TRUE, more)
  BY DEF Good, ConnGood, WriteFrame
<1> HIDE DEF more, r
<1>3. /\ r \in WebSocket /\ SameConn(r, s) /\ SameRead(r, s) /\ SameBody(r, s)
      /\ r.fault = s.fault /\ r.signals = s.signals
      /\ r.unwritten = s.unwritten + more
      /\ Bytes(r.pendingWrites) = Bytes(s.pendingWrites) + more
      /\ FrameCount(r.pendingWrites) = FrameCount(s.pendingWrites) + 1
      /\ WriteGood(s) => \A i \in 1..Len(r.pendingWrites) : r.pendingWrites[i].size > 0
  BY <1>1, <1>2, SendFields
<1>4. ConnGood(r) /\ ReadGood(r) /\ BodyGood(r)
  BY <1>3 DEF Good, ConnGood, ReadGood, BodyGood, InBytes, SameConn, SameRead, SameBody
<1>5. WriteGood(r)
  <2>1. s.unwritten = Bytes(s.pendingWrites) /\ s.sock = "up"
    BY DEF Good, WriteGood, ConnGood
  <2>2. r.unwritten = Bytes(r.pendingWrites) /\ r.sock = "up"
    BY <1>3, <2>1 DEF SameConn
  <2> QED BY <1>3, <2>2 DEF Good, WriteGood
<1>6. Good(r)
  BY <1>3, <1>4, <1>5 DEF Good
<1> QED BY <1>3, <1>6 DEF SameLink, SameRead, r

\* The close frame of the client.
LEMMA CloseGood ==
  ASSUME NEW s, Good(s), s.signals = <<>>, s.state = "Connected"
  PROVE  LET r == Close(s)
         IN  /\ Good(r) /\ r.state = "Closing" /\ r.peerClosing = s.peerClosing
             /\ r.sock \in {"up", "leaving"} /\ r.net = s.net /\ r.inbuf = s.inbuf
             /\ r.in = s.in /\ r.arrived = s.arrived
             /\ FrameCount(r.pendingWrites) = FrameCount(s.pendingWrites)
             /\ r.signals = <<>>
<1> DEFINE a == [s EXCEPT !.state = "Closing"]
           b == Send(a, FALSE, HeaderSize)
           r == Close(s)
<1>1. s \in WebSocket /\ s.sock = "up"
  BY DEF Good, ConnGood
<1>2. a \in WebSocket
  BY <1>1, Members, ZenonT(60) DEF WebSocket
<1>3. /\ a.state = "Closing" /\ a.sock = s.sock /\ a.resolving = s.resolving
      /\ a.peerClosing = s.peerClosing /\ SameRead(a, s) /\ SameWrite(a, s)
      /\ SameBody(a, s) /\ a.fault = s.fault /\ a.signals = s.signals
  BY <1>1 DEF WebSocket, SameRead, SameWrite, SameBody
<1>4. r = IF s.peerClosing THEN DisconnectFromHost(b) ELSE b
  BY <1>1 DEF Close
<1> HIDE DEF a
<1>5. HeaderSize \in Nat /\ HeaderSize > 0 /\ FALSE \in BOOLEAN
  BY Members
<1>6. /\ b \in WebSocket /\ SameConn(b, a) /\ SameRead(b, a) /\ SameBody(b, a)
      /\ b.fault = a.fault /\ b.signals = a.signals
      /\ b.unwritten = a.unwritten + HeaderSize
      /\ Bytes(b.pendingWrites) = Bytes(a.pendingWrites) + HeaderSize
      /\ FrameCount(b.pendingWrites) = FrameCount(a.pendingWrites) + 0
      /\ WriteGood(a) => \A i \in 1..Len(b.pendingWrites) : b.pendingWrites[i].size > 0
  BY <1>2, <1>5, SendFields
<1> HIDE DEF b, r
<1>7. WriteGood(a) /\ a.unwritten = Bytes(a.pendingWrites)
  BY <1>1, <1>3 DEF Good, WriteGood, SameWrite
<1>8. WriteGood(b)
  <2>1. b.unwritten = Bytes(b.pendingWrites) /\ b.sock = "up"
    BY <1>1, <1>3, <1>6, <1>7 DEF SameConn
  <2> QED BY <1>6, <1>7, <2>1 DEF WriteGood
<1>9. FrameCount(b.pendingWrites) = FrameCount(s.pendingWrites)
  <2>1. FrameCount(s.pendingWrites) \in Nat
    BY <1>1, Types
  <2> QED BY <1>3, <1>6, <2>1 DEF SameWrite
<1>10. CASE s.peerClosing
  <2>1. /\ b.state = "Closing" /\ b.sock = "up" /\ b.peerClosing /\ ~b.resolving
        /\ ~b.readingBody /\ b.net = <<>> /\ ~b.pendingRead /\ b.fault = "none"
    BY <1>1, <1>3, <1>6, <1>10
       DEF Good, ConnGood, ReadGood, BodyGood, SameConn, SameRead, SameBody
  <2>2. b.unwritten # 0
    <3>1. a.unwritten \in Nat
      BY <1>2, Types
    <3> QED BY <1>5, <1>6, <3>1
  <2>3. /\ Good(r) /\ r.peerClosing /\ r.sock \in {"none", "leaving"}
        /\ r.in = b.in /\ r.arrived = b.arrived
        /\ r.pendingWrites = b.pendingWrites
        /\ r.state = "Closing" /\ r.signals = b.signals
    BY <1>4, <1>6, <1>8, <1>10, <2>1, <2>2, Leaves
  <2>4. r = [b EXCEPT !.sock = "leaving"]
    BY <1>4, <1>10, <2>2 DEF DisconnectFromHost
  <2>5. r.sock = "leaving" /\ r.net = b.net /\ r.inbuf = b.inbuf
    BY <1>6, <2>4 DEF WebSocket
  <2>6. r.peerClosing = s.peerClosing
    <3>1. r.peerClosing \in BOOLEAN /\ s.peerClosing \in BOOLEAN
      BY <1>1, <2>3, Types DEF Good
    <3> QED BY <1>10, <2>3, <3>1
  <2> QED BY <1>3, <1>6, <1>9, <2>3, <2>5, <2>6 DEF SameRead, r
<1>11. CASE ~s.peerClosing
  <2>1. ConnGood(b) /\ ReadGood(b) /\ BodyGood(b)
    BY <1>1, <1>3, <1>6, <1>11
       DEF Good, ConnGood, ReadGood, BodyGood, InBytes, SameConn, SameRead, SameBody
  <2>2. Good(b)
    BY <1>3, <1>6, <1>8, <2>1 DEF Good
  <2> QED BY <1>1, <1>3, <1>4, <1>6, <1>9, <1>11, <2>2 DEF SameConn, SameRead, r
<1> QED BY <1>10, <1>11

\* The oldest writes are done; those of them that are frames of the user are
\* signalled.
Written(s, r, count) ==
  /\ Good(r) /\ SameLink(r, s) /\ r.in = s.in /\ r.arrived = s.arrived
  /\ FrameCount(s.pendingWrites) = FrameCount(r.pendingWrites) + count
  /\ r.signals = IF count = 0 THEN <<>> ELSE <<Signal("framesWritten", count)>>

LEMMA BytesWrittenGood ==
  ASSUME NEW s, Good(s), s.signals = <<>>, s.sock \in {"up", "leaving"},
         NEW bytes \in 1..s.unwritten
  PROVE  \E count \in Nat : Written(s, SockBytesWritten(s, bytes), count)
<1> DEFINE q == s.pendingWrites
           done == LongestPrefix(q, LAMBDA prefix : Bytes(prefix) <= bytes)
           first == SubSeq(q, 1, done)
           left == bytes - Bytes(first)
           rest == SubSeq(q, done + 1, Len(q))
           count == FrameCount(first)
           pending == IF left = 0 THEN rest ELSE [rest EXCEPT ![1].size = @ - left]
           unwritten == s.unwritten - bytes
           a == [s EXCEPT !.unwritten = unwritten, !.pendingWrites = pending]
           told == Append(<<>>, Signal("framesWritten", count))
           r == SockBytesWritten(s, bytes)
<1>1. /\ s \in WebSocket /\ q \in Seq(Write) /\ s.unwritten \in Nat /\ bytes \in Nat
      /\ Bytes(q) \in Nat /\ Sized(Write)
  BY Types, WriteSized DEF Good
<1>2. s.unwritten <= Bytes(q) /\ (s.sock = "up" => s.unwritten = Bytes(q))
      /\ \A i \in 1..Len(q) : q[i].size > 0
  <2>1. s.sock # "leaving" => s.state # "Idle"
    BY DEF Good, ConnGood
  <2> QED BY <1>1, <2>1 DEF Good, WriteGood
<1>3. unwritten \in Nat /\ bytes <= Bytes(q)
  BY <1>1, <1>2
<1>4. /\ done \in 0..Len(q) /\ Bytes(first) <= bytes
      /\ done < Len(q) => bytes < Bytes(first) + q[done + 1].size
  BY <1>1, Fitting
<1> HIDE DEF done
<1>5. /\ first \in Seq(Write) /\ rest \in Seq(Write)
      /\ Bytes(first) \in Nat /\ Bytes(rest) \in Nat
      /\ Bytes(q) = Bytes(first) + Bytes(rest)
  BY <1>1, <1>4, BytesSplit
<1>6. /\ count \in Nat /\ FrameCount(rest) \in Nat
      /\ FrameCount(q) = count + FrameCount(rest)
  BY <1>1, <1>4, FrameSplit
<1>7. /\ Len(rest) = Len(q) - done
      /\ \A i \in 1..Len(rest) : rest[i] = q[done + i]
  BY <1>1, <1>4
<1>8. \A i \in 1..Len(rest) : rest[i].size > 0
  <2>1. \A i \in 1..Len(rest) : done + i \in 1..Len(q)
    BY <1>1, <1>4, <1>7
  <2> QED BY <1>2, <1>7, <2>1
<1> HIDE DEF first, rest, count
<1>9. left \in Nat
  BY <1>1, <1>4, <1>5
<1> HIDE DEF left
<1>10. ASSUME left # 0 PROVE rest # <<>> /\ left < rest[1].size
  <2>1. rest # <<>>
    <3> SUFFICES ASSUME rest = <<>> PROVE FALSE
      OBVIOUS
    <3>1. Bytes(rest) = 0
      BY BytesEmpty
    <3> QED BY <1>1, <1>3, <1>4, <1>5, <1>9, <1>10, <3>1 DEF left
  <2>2. done < Len(q) /\ 1 \in 1..Len(rest)
    BY <1>1, <1>4, <1>5, <1>7, <2>1
  <2>3. rest[1] = q[done + 1] /\ rest[1].size \in Nat
    <3>1. rest[1] \in Write
      BY <1>5, <2>2
    <3> QED BY <1>7, <2>2, <3>1 DEF Write
  <2>4. bytes < Bytes(first) + rest[1].size
    BY <1>4, <2>2, <2>3
  <2> QED BY <1>1, <1>5, <2>1, <2>3, <2>4 DEF left
<1>11. /\ pending \in Seq(Write) /\ \A i \in 1..Len(pending) : pending[i].size > 0
       /\ Bytes(pending) = Bytes(rest) - left /\ FrameCount(pending) = FrameCount(rest)
  <2>1. CASE left = 0
    BY <1>5, <1>8, <2>1
  <2>2. CASE left # 0
    BY <1>5, <1>8, <1>9, <1>10, <2>2, Shrunk
  <2> QED BY <2>1, <2>2
<1>12. Bytes(pending) = Bytes(q) - bytes
  BY <1>1, <1>5, <1>9, <1>11 DEF left
<1> HIDE DEF pending, unwritten
<1>13. a \in WebSocket
  BY <1>1, <1>3, <1>11, ZenonT(60) DEF WebSocket
<1>14. /\ SameLink(a, s) /\ SameRead(a, s) /\ a.unwritten = unwritten
       /\ a.pendingWrites = pending /\ a.fault = s.fault /\ a.signals = s.signals
  BY <1>1 DEF WebSocket, SameLink, SameConn, SameRead, SameBody
<1>15. r = IF count = 0 THEN a ELSE [a EXCEPT !.signals = Append(@, Signal("framesWritten", count))]
  <2>1. ~(Bytes(s.pendingWrites) < bytes)
    BY <1>1, <1>3
  <2> QED BY <2>1 DEF SockBytesWritten, done, first, rest, left, count, pending, unwritten
<1> HIDE DEF a, r
<1>16. ConnGood(a) /\ ReadGood(a) /\ BodyGood(a)
  <2>1. FrameCount(q) = 0 => FrameCount(pending) = 0
    BY <1>6, <1>11
  <2> QED BY <1>14, <2>1 DEF Good, ConnGood, ReadGood, BodyGood, InBytes,
                            SameLink, SameConn, SameRead, SameBody
<1>17. WriteGood(a)
  <2>1. a.unwritten <= Bytes(a.pendingWrites)
        /\ (s.sock = "up" => a.unwritten = Bytes(a.pendingWrites))
    BY <1>1, <1>2, <1>12, <1>14 DEF unwritten
  <2>2. a.sock = s.sock
    BY <1>14 DEF SameLink, SameConn
  <2> QED BY <1>11, <1>14, <2>1, <2>2 DEF WriteGood
<1>18. Good(a)
  BY <1>13, <1>14, <1>16, <1>17 DEF Good
<1>19. FrameCount(q) = FrameCount(pending) + count
  BY <1>6, <1>11
<1>20. CASE count = 0
  BY <1>6, <1>14, <1>15, <1>18, <1>19, <1>20 DEF Written, SameRead, r
<1>21. CASE count # 0
  <2> DEFINE b == [a EXCEPT !.signals = Append(@, Signal("framesWritten", count))]
  <2>1. a.signals = <<>> /\ Append(<<>>, Signal("framesWritten", count)) \in Seq(SignalType)
    BY <1>6, <1>14, SignalTyped, Members
  <2>2. b \in WebSocket
    BY <1>13, <2>1, ZenonT(60) DEF WebSocket
  <2>3. SameButSignals(b, a) /\ b.signals = Append(<<>>, Signal("framesWritten", count))
    BY <1>13, <2>1 DEF WebSocket, SameButSignals, SameConn, SameRead, SameWrite, SameBody
  <2>4. r = b
    BY <1>15, <1>21
  <2> HIDE DEF b
  <2>5. Good(b)
    BY <1>13, <1>18, <2>2, <2>3, GoodSame
  <2>6. Append(<<>>, Signal("framesWritten", count)) = <<Signal("framesWritten", count)>>
    OBVIOUS
  <2>7. SameLink(b, s) /\ b.in = s.in /\ b.arrived = s.arrived /\ b.pendingWrites = pending
    BY <1>14, <2>3
       DEF SameLink, SameButSignals, SameConn, SameRead, SameWrite, SameBody
  <2>8. Written(s, b, count)
    BY <1>19, <1>21, <2>3, <2>5, <2>6, <2>7 DEF Written
  <2> QED BY <1>6, <2>4, <2>8 DEF r
<1> QED BY <1>20, <1>21

----------------------------------------------------------------------------
\* Errors of the socket.
LEMMA ErrorCarries ==
  ASSUME NEW s, Good(s), s.signals = <<>>, s.sock # "none",
         NEW e \in {"refused", "tls", "closed", "other"},
         s.addrs > 0 => /\ s.state # "Closing"
                        /\ ~(s.unwritten > 0 /\ s.state = "Connecting" /\ e # "tls")
  PROVE  Carries(s, SockError(s, e))
<1> DEFINE condition == Condition(e)
           bodyEnds == s.readingBody /\ s.length = -1 /\ ~s.chunked
           worst == MoreSignificant(s.worst, condition)
           a == [s EXCEPT !.worst = worst]
           b == Cleanup(a)
           f == [s EXCEPT !.sock = "leaving", !.unwritten = 0]
           r == SockError(s, e)
<1>1. s \in WebSocket /\ s.fault = "none"
  BY DEF Good
<1>2. condition \in {"connect", "tls", "generic"}
  BY DEF Condition
<1>3. CASE e = "closed" /\ s.state = "Closing" /\ s.peerClosing
  <2>1. r = f
    BY <1>3 DEF SockError
  <2>2. f \in WebSocket
    BY <1>1, Members, ZenonT(60) DEF WebSocket
  <2>3. /\ f.sock = "leaving" /\ f.unwritten = 0 /\ f.pendingWrites = s.pendingWrites
        /\ f.state = s.state /\ f.resolving = s.resolving /\ f.peerClosing = s.peerClosing
        /\ SameRead(f, s) /\ SameBody(f, s) /\ f.fault = s.fault /\ f.signals = s.signals
    BY <1>1 DEF WebSocket, SameRead, SameBody
  <2> HIDE DEF f, r
  <2>4. ConnGood(f) /\ ReadGood(f) /\ BodyGood(f)
    BY <1>3, <2>3 DEF Good, ConnGood, ReadGood, BodyGood, InBytes, SameRead, SameBody
  <2>5. Bytes(s.pendingWrites) \in Nat
    BY <1>1, Types
  <2>6. WriteGood(f)
    BY <2>3, <2>5 DEF Good, WriteGood
  <2>7. Good(f)
    BY <1>1, <2>2, <2>3, <2>4, <2>6 DEF Good
  <2> QED BY <2>1, <2>3, <2>7 DEF Carries, Steady, SameRead, r
<1>4. CASE ~(e = "closed" /\ s.state = "Closing" /\ s.peerClosing) /\ e = "closed" /\ bodyEnds
  <2>1. r = HandleResponse(s)
    BY <1>4 DEF SockError
  <2>2. Answered(s)
    <3>1. s.code \notin Redirections
      BY <1>4 DEF Good, BodyGood, Redirections
    <3> QED BY <1>1, <3>1 DEF Answered
  <2> QED BY <2>1, <2>2, ResponseHandled
<1>5. CASE /\ ~(e = "closed" /\ s.state = "Closing" /\ s.peerClosing)
           /\ ~(e = "closed" /\ bodyEnds) /\ (e = "tls" \/ s.state = "Connected")
  <2>1. r = Fail(s, condition)
    BY <1>5 DEF SockError
  <2>2. condition \in ErrorType
    BY <1>2, Members
  <2> QED BY <1>1, <2>1, <2>2, FailCarries
<1>6. CASE /\ ~(e = "closed" /\ s.state = "Closing" /\ s.peerClosing)
           /\ ~(e = "closed" /\ bodyEnds) /\ ~(e = "tls" \/ s.state = "Connected")
  <2>1. r = TryNextAddress(b)
    BY <1>6 DEF SockError
  <2>2. worst \in WorstType
    BY <1>1, Members DEF WebSocket, MoreSignificant
  <2> HIDE DEF worst, r
  <2>3. a \in WebSocket
    BY <1>1, <2>2, ZenonT(60) DEF WebSocket
  <2>4. /\ SameConn(a, s) /\ SameRead(a, s) /\ SameWrite(a, s) /\ SameBody(a, s)
        /\ a.addrs = s.addrs /\ a.fault = s.fault /\ a.signals = s.signals
    BY <1>1 DEF WebSocket, SameConn, SameRead, SameWrite, SameBody
  <2> HIDE DEF a
  <2>5. /\ b \in WebSocket /\ b.sock = "none" /\ b.net = <<>> /\ b.unwritten = 0
        /\ SameBody(b, a) /\ b.pendingWrites = a.pendingWrites
        /\ b.state = a.state /\ b.resolving = a.resolving
        /\ b.peerClosing = a.peerClosing /\ b.in = a.in /\ b.inbuf = a.inbuf
        /\ b.arrived = a.arrived /\ b.pendingRead = a.pendingRead
        /\ b.addrs = a.addrs /\ b.fault = a.fault /\ b.signals = a.signals
    BY <2>3, CleanupSame
  <2> HIDE DEF b
  <2>6. ASSUME s.addrs > 0
        PROVE  /\ s.state = "Connecting" /\ ~s.resolving /\ ~s.peerClosing
               /\ s.in = <<>> /\ s.inbuf = <<>> /\ s.arrived = 0
               /\ FrameCount(s.pendingWrites) = 0 /\ Bytes(s.pendingWrites) = 0
               /\ ~s.pendingRead
    <3>1. s.state = "Connecting"
      <4>1. s.state \in StateType
        BY <1>1 DEF WebSocket
      <4> QED BY <1>6, <2>6, <4>1 DEF Good, ConnGood, StateType
    <3>2. s.unwritten = Bytes(s.pendingWrites)
      BY <3>1 DEF Good, ConnGood, WriteGood
    <3>3. s.unwritten = 0
      BY <1>1, <1>6, <2>6, <3>1, Types
    <3> QED BY <3>1, <3>2, <3>3 DEF Good, ConnGood, ReadGood
  <2>7. s.addrs > 0 => BodyGood(b)
    BY <2>4, <2>5 DEF Good, BodyGood, SameConn, SameBody
  <2>8. s.addrs > 0 => WriteGood(b)
    BY <2>4, <2>5, <2>6 DEF Good, WriteGood, SameWrite
  <2>9. Between(b)
    BY <1>1, <2>4, <2>5, <2>6, <2>7, <2>8
       DEF Between, SameConn, SameRead, SameWrite
  <2>10. Carries(b, r)
    BY <2>1, <2>9, NextAddress
  <2> QED BY <2>4, <2>5, <2>10
          DEF Carries, Failed, Steady, SameConn, SameRead, SameWrite, r
<1> QED BY <1>3, <1>4, <1>5, <1>6

----------------------------------------------------------------------------
(***************************************************************************)
(* The worker.  Its invariant is one of the worker record, so that each    *)
(* function has a lemma of its own, about a worker that may be in the      *)
(* middle of a step: the slots of several signals run one after the other, *)
(* and between them only the part Loose of the invariant holds.            *)
(***************************************************************************)
Sound(s) == Good(s) /\ s.signals = <<>>

\* What the worker knows of its WebSocket.
Linked(v) ==
  /\ v.state = "Started" =>
       /\ ~v.wsClosed /\ v.closes = 0 /\ v.ws.state \in {"Connecting", "Connected"}
       /\ v.wsPendingPeerClose <=> v.ws.peerClosing
  /\ v.state = "PeerClosing" =>
       /\ ~v.wsClosed /\ v.closes = 1 /\ v.ws.state = "Connected" /\ v.ws.peerClosing
       /\ ~v.wsPendingPeerClose
  /\ v.state = "Closing" =>
       /\ v.wsClosed /\ v.closes = 0 /\ v.ws.state \in {"Closing", "Idle"}
       /\ v.ws.state = "Idle" => v.wsPendingPeerClose
  /\ v.state = "CloseWait" =>
       /\ v.wsClosed /\ v.closes = 1 /\ v.ws.state = "Closing" /\ v.ws.peerClosing
  /\ v.accepted <=> v.ws.state # "Connecting"
  /\ Len(v.wsPendingWrites) = FrameCount(v.ws.pendingWrites)
  /\ v.bytes + v.outCredits = v.granted
  /\ v.delivered + Len(v.ws.in) = v.ws.arrived

\* Frames that are not passed on are known, and wait for credits only; the
\* close waits for them.
Known(v) == v.state \in Open => (v.ws.in # <<>> => v.stuffToRead)

Passing(v) ==
  v.state \in Open =>
    /\ v.stuffToRead => \/ v.updateTimer \/ v.outCredits < 1
                        \/ v.ws.in # <<>> /\ v.outCredits < v.ws.in[1].size
    /\ v.wsPendingPeerClose => v.stuffToRead

ArrivedOf(v) == IF v.ws = None THEN v.arrived ELSE v.ws.arrived

\* What was said and passed on so far.
Kept(v) ==
  /\ v.delivered <= ArrivedOf(v) /\ v.bytes <= v.granted /\ v.closes <= 1
  /\ v.delivered > 0 \/ v.closes > 0 => v.accepted

\* What each state of a session means.
Shape(v) ==
  /\ v.state = "NotStarted" => v = NewWorker(v.req)
  /\ v.ws # None <=> v.state \in Open \cup {"CloseWait"}
  /\ v.ws = None => v.timers = {}
  /\ v.state \in Deferred => v.updateTimer
  /\ v.state \in {"NotStarted", "Stopped"} => ~v.updateTimer
  /\ v.state = "Stopped" <=> v.ending # "no"

Loose(v) ==
  /\ v \in Worker /\ Kept(v) /\ Shape(v)
  /\ v.ws # None => Sound(v.ws) /\ Linked(v)

WorkerInv(v) == Loose(v) /\ (v.ws # None => Known(v) /\ Passing(v))

\* A step of WsSession from v to u: every frame, every close message, the word
\* of the connection and of an error or a cancellation is a message.
Due(v) ==
  v.delivered + v.closes + (IF v.accepted THEN 1 ELSE 0)
    + (IF v.ending \in {"error", "cancel"} THEN 1 ELSE 0)

Moved(v, u) ==
  /\ ArrivedOf(u) >= ArrivedOf(v) /\ u.granted >= v.granted
  /\ u.delivered >= v.delivered /\ u.bytes >= v.bytes /\ u.closes >= v.closes
  /\ v.accepted => u.accepted
  /\ u.said >= v.said /\ u.said - v.said >= Due(u) - Due(v)
  /\ u.ending = "closed" => u.closes = 1

LEMMA WorkerNats ==
  ASSUME NEW v \in Worker
  PROVE  /\ v.said \in Nat /\ v.delivered \in Nat /\ v.bytes \in Nat /\ v.closes \in Nat
         /\ v.arrived \in Nat /\ v.granted \in Nat /\ v.outCredits \in Nat
         /\ v.credited \in Nat /\ v.uploaded \in Nat
         /\ v.queuedAtClose \in Nat /\ v.wsPendingWrites \in Seq(Nat)
         /\ v.accepted \in BOOLEAN /\ v.wsClosed \in BOOLEAN
         /\ v.stuffToRead \in BOOLEAN /\ v.wsPendingPeerClose \in BOOLEAN
         /\ v.updateTimer \in BOOLEAN /\ v.ending \in Endings /\ v.state \in WorkerState
         /\ v.ws # None => v.ws \in WebSocket
         /\ ArrivedOf(v) \in Nat /\ Due(v) \in Nat
<1>1. /\ v.said \in Nat /\ v.delivered \in Nat /\ v.bytes \in Nat /\ v.closes \in Nat
      /\ v.arrived \in Nat /\ v.granted \in Nat /\ v.outCredits \in Nat
      /\ v.credited \in Nat /\ v.uploaded \in Nat
      /\ v.queuedAtClose \in Nat /\ v.wsPendingWrites \in Seq(Nat)
      /\ v.accepted \in BOOLEAN /\ v.wsClosed \in BOOLEAN
      /\ v.stuffToRead \in BOOLEAN /\ v.wsPendingPeerClose \in BOOLEAN
      /\ v.updateTimer \in BOOLEAN /\ v.ending \in Endings /\ v.state \in WorkerState
      /\ v.ws # None => v.ws \in WebSocket
  BY DEF Worker
<1>2. ArrivedOf(v) \in Nat
  BY <1>1, Types DEF ArrivedOf
<1>3. Due(v) \in Nat
  BY SMTT(30), <1>1 DEF Due
<1> QED BY <1>1, <1>2, <1>3

LEMMA WorkerMembers ==
  /\ \A x \in {"NotStarted", "CloseWait", "Stopped"} : x \in WorkerState
  /\ \A x \in Open : x \in WorkerState
  /\ \A x \in Deferred : x \in WorkerState
  /\ "Started" \in WorkerState /\ "Closing" \in WorkerState /\ "PeerClosing" \in WorkerState
  /\ "CloseWait" \in WorkerState /\ "Stopped" \in WorkerState
  /\ \A x \in {"no", "closed", "error", "cancel", "silent"} : x \in Endings
  /\ {} \in SUBSET Timers /\ Timers \in SUBSET Timers /\ TRUE \in BOOLEAN /\ FALSE \in BOOLEAN
  /\ None \in WebSocket \cup {None} /\ \A s \in WebSocket : s \in WebSocket \cup {None}
BY DEF WorkerState, Open, Deferred, Endings

LEMMA MovedSame ==
  ASSUME NEW v \in Worker, NEW u \in Worker,
         ArrivedOf(u) >= ArrivedOf(v), u.granted = v.granted,
         u.delivered = v.delivered, u.bytes = v.bytes, u.closes = v.closes,
         u.accepted = v.accepted, u.said >= v.said, u.ending = v.ending,
         v.ending # "closed"
  PROVE  Moved(v, u)
<1>1. Due(u) = Due(v)
  BY DEF Due
<1> QED BY <1>1, WorkerNats DEF Moved

LEMMA MovedTwice ==
  ASSUME NEW v \in Worker, NEW x \in Worker, NEW u \in Worker, Moved(v, x), Moved(x, u)
  PROVE  Moved(v, u)
<1>1. /\ ArrivedOf(v) \in Nat /\ ArrivedOf(x) \in Nat /\ ArrivedOf(u) \in Nat
      /\ Due(v) \in Nat /\ Due(x) \in Nat /\ Due(u) \in Nat
      /\ v.said \in Nat /\ x.said \in Nat /\ u.said \in Nat
      /\ v.granted \in Nat /\ x.granted \in Nat /\ u.granted \in Nat
      /\ v.delivered \in Nat /\ x.delivered \in Nat /\ u.delivered \in Nat
      /\ v.bytes \in Nat /\ x.bytes \in Nat /\ u.bytes \in Nat
      /\ v.closes \in Nat /\ x.closes \in Nat /\ u.closes \in Nat
  BY WorkerNats
<1>2. /\ ArrivedOf(u) >= ArrivedOf(v) /\ u.granted >= v.granted
      /\ u.delivered >= v.delivered /\ u.bytes >= v.bytes /\ u.closes >= v.closes
  BY <1>1 DEF Moved
<1>3. u.said >= v.said /\ u.said - v.said >= Due(u) - Due(v)
  BY <1>1 DEF Moved
<1>4. (v.accepted => u.accepted) /\ (u.ending = "closed" => u.closes = 1)
  BY DEF Moved
<1> QED BY <1>2, <1>3, <1>4 DEF Moved

\* All fields that the end of a session keeps.
SameHistory(u, v) ==
  /\ u.req = v.req /\ u.delivered = v.delivered /\ u.bytes = v.bytes
  /\ u.closes = v.closes /\ u.accepted = v.accepted /\ u.granted = v.granted

LEMMA CleanupFields ==
  ASSUME NEW v \in Worker
  PROVE  LET u == CleanupSession(v)
         IN  /\ u \in Worker /\ u.state = "Stopped" /\ u.ws = None /\ u.timers = {}
             /\ ~u.updateTimer /\ u.arrived = ArrivedOf(v) /\ u.ending = v.ending
             /\ SameHistory(u, v) /\ u.said = v.said
<1> DEFINE u == CleanupSession(v)
           arrived == IF v.ws = None THEN v.arrived ELSE v.ws.arrived
<1>1. arrived \in Nat
  BY WorkerNats DEF ArrivedOf
<1>2. u = [v EXCEPT !.updateTimer = FALSE, !.ws = None, !.timers = {},
                    !.state = "Stopped", !.arrived = arrived]
  BY DEF CleanupSession
<1>3. arrived = ArrivedOf(v)
  BY DEF ArrivedOf
<1> HIDE DEF u, arrived
<1>4. u \in Worker
  BY <1>1, <1>2, WorkerMembers, ZenonT(60) DEF Worker
<1>5. /\ u.state = "Stopped" /\ u.ws = None /\ u.timers = {}
      /\ ~u.updateTimer /\ u.arrived = arrived /\ u.ending = v.ending
      /\ SameHistory(u, v) /\ u.said = v.said
  BY <1>2 DEF Worker, SameHistory
<1> QED BY <1>3, <1>4, <1>5 DEF u

LEMMA FinishFields ==
  ASSUME NEW v \in Worker, NEW how \in Endings
  PROVE  LET u == Finish(v, how)
         IN  /\ u \in Worker /\ u.state = "Stopped" /\ u.ws = None /\ u.timers = {}
             /\ ~u.updateTimer /\ u.arrived = ArrivedOf(v) /\ u.ending = how
             /\ SameHistory(u, v) /\ u.said = v.said
<1> DEFINE c == CleanupSession(v)
           u == Finish(v, how)
<1>1. /\ c \in Worker /\ c.state = "Stopped" /\ c.ws = None /\ c.timers = {}
      /\ ~c.updateTimer /\ c.arrived = ArrivedOf(v)
      /\ SameHistory(c, v) /\ c.said = v.said
  BY CleanupFields
<1>2. u = [c EXCEPT !.ending = how]
  BY DEF Finish
<1> HIDE DEF c, u
<1>3. u \in Worker
  BY <1>1, <1>2, ZenonT(60) DEF Worker
<1>4. /\ u.ending = how /\ u.state = c.state /\ u.ws = c.ws /\ u.timers = c.timers
      /\ u.updateTimer = c.updateTimer /\ u.arrived = c.arrived
      /\ SameHistory(u, c) /\ u.said = c.said
  BY <1>1, <1>2 DEF Worker, SameHistory
<1> QED BY <1>1, <1>3, <1>4 DEF SameHistory, u

LEMMA WriteResponseFields ==
  ASSUME NEW v \in Worker
  PROVE  LET u == WriteResponse(v)
         IN  /\ u \in Worker /\ SameHistory(u, v) /\ u.said = v.said + 1
             /\ u.state = v.state /\ u.ws = v.ws /\ u.timers = v.timers
             /\ u.updateTimer = v.updateTimer /\ u.arrived = v.arrived
             /\ u.ending = v.ending /\ u.outCredits = v.outCredits
             /\ u.stuffToRead = v.stuffToRead /\ u.wsClosed = v.wsClosed
             /\ u.wsPendingPeerClose = v.wsPendingPeerClose
             /\ u.wsPendingWrites = v.wsPendingWrites
             /\ u.credited = v.credited
<1> DEFINE u == WriteResponse(v)
<1>1. v.said + 1 \in Nat
  BY WorkerNats
<1>2. u \in Worker
  BY <1>1, ZenonT(60) DEF Worker, WriteResponse
<1>3. /\ SameHistory(u, v) /\ u.said = v.said + 1
      /\ u.state = v.state /\ u.ws = v.ws /\ u.timers = v.timers
      /\ u.updateTimer = v.updateTimer /\ u.arrived = v.arrived
      /\ u.ending = v.ending /\ u.outCredits = v.outCredits
      /\ u.stuffToRead = v.stuffToRead /\ u.wsClosed = v.wsClosed
      /\ u.wsPendingPeerClose = v.wsPendingPeerClose
      /\ u.wsPendingWrites = v.wsPendingWrites
      /\ u.credited = v.credited
  BY DEF Worker, WriteResponse, SameHistory
<1> QED BY <1>2, <1>3

----------------------------------------------------------------------------
\* The ends of a session.
Ended(v, u) == WorkerInv(u) /\ Moved(v, u) /\ u.ws = None

\* A session that has begun and is not over.
Begun(v) == v \in Worker /\ Kept(v) /\ v.ending = "no" /\ v.state # "NotStarted"

LEMMA StoppedEnds ==
  ASSUME NEW v, Begun(v), NEW u \in Worker, u.state = "Stopped", u.ws = None, u.timers = {},
         ~u.updateTimer, u.arrived = ArrivedOf(v), u.ending # "no", SameHistory(u, v),
         u.said >= v.said,
         u.ending \in {"error", "cancel"} => u.said = v.said + 1,
         u.ending = "closed" => v.closes = 1
  PROVE  Ended(v, u)
<1>1. ArrivedOf(u) = ArrivedOf(v) /\ v \in Worker
  BY DEF ArrivedOf, Begun
<1>2. Kept(u)
  BY <1>1 DEF Begun, Kept, SameHistory
<1>3. Shape(u)
  BY DEF Shape, Open, Deferred
<1>4. Due(u) = Due(v) + (IF u.ending \in {"error", "cancel"} THEN 1 ELSE 0)
  <2>1. v.delivered \in Nat /\ v.closes \in Nat
    BY <1>1, WorkerNats
  <2>2. v.ending \notin {"error", "cancel"}
    BY DEF Begun
  <2> QED BY <2>1, <2>2 DEF Due, SameHistory
<1>5. u.said - v.said >= Due(u) - Due(v)
  <2>1. v.said \in Nat /\ u.said \in Nat /\ Due(v) \in Nat
    BY <1>1, WorkerNats
  <2> QED BY <1>4, <2>1
<1>6. Moved(v, u)
  BY <1>1, <1>5, WorkerNats DEF Moved, SameHistory
<1> QED BY <1>2, <1>3, <1>6 DEF Ended, WorkerInv, Loose

LEMMA RespondEnds ==
  ASSUME NEW v, Begun(v), NEW how \in {"error", "cancel"}
  PROVE  Ended(v, Finish(WriteResponse(v), how))
<1> DEFINE c == WriteResponse(v)
           u == Finish(c, how)
<1>1. v \in Worker /\ how \in Endings /\ v.said \in Nat
  BY WorkerMembers, WorkerNats DEF Begun
<1>2. c \in Worker /\ SameHistory(c, v) /\ c.said = v.said + 1 /\ c.ws = v.ws
      /\ c.arrived = v.arrived
  BY <1>1, WriteResponseFields
<1> HIDE DEF c
<1>3. /\ u \in Worker /\ u.state = "Stopped" /\ u.ws = None /\ u.timers = {}
      /\ ~u.updateTimer /\ u.arrived = ArrivedOf(c) /\ u.ending = how
      /\ SameHistory(u, c) /\ u.said = c.said
  BY <1>1, <1>2, FinishFields
<1> HIDE DEF u
<1>4. u.arrived = ArrivedOf(v) /\ SameHistory(u, v)
  BY <1>2, <1>3 DEF ArrivedOf, SameHistory
<1>5. u.said >= v.said /\ u.said = v.said + 1
  BY <1>1, <1>2, <1>3
<1>6. Ended(v, u)
  BY <1>3, <1>4, <1>5, StoppedEnds
<1> QED BY <1>6 DEF u, c

LEMMA SilentEnds ==
  ASSUME NEW v, Begun(v)
  PROVE  Ended(v, Finish(v, "silent"))
<1> DEFINE u == Finish(v, "silent")
<1>1. v \in Worker /\ "silent" \in Endings /\ v.said \in Nat
  BY WorkerMembers, WorkerNats DEF Begun
<1>2. /\ u \in Worker /\ u.state = "Stopped" /\ u.ws = None /\ u.timers = {}
      /\ ~u.updateTimer /\ u.arrived = ArrivedOf(v) /\ u.ending = "silent"
      /\ SameHistory(u, v) /\ u.said = v.said
  BY <1>1, FinishFields
<1> HIDE DEF u
<1>3. u.said >= v.said
  BY <1>1, <1>2
<1>4. Ended(v, u)
  BY <1>2, <1>3, StoppedEnds
<1> QED BY <1>4 DEF u

LEMMA ClosedEnds ==
  ASSUME NEW v, Begun(v), v.closes = 1
  PROVE  Ended(v, Finish(v, "closed"))
<1> DEFINE u == Finish(v, "closed")
<1>1. v \in Worker /\ "closed" \in Endings /\ v.said \in Nat
  BY WorkerMembers, WorkerNats DEF Begun
<1>2. /\ u \in Worker /\ u.state = "Stopped" /\ u.ws = None /\ u.timers = {}
      /\ ~u.updateTimer /\ u.arrived = ArrivedOf(v) /\ u.ending = "closed"
      /\ SameHistory(u, v) /\ u.said = v.said
  BY <1>1, FinishFields
<1> HIDE DEF u
<1>3. u.said >= v.said
  BY <1>1, <1>2
<1>4. Ended(v, u)
  BY <1>2, <1>3, StoppedEnds
<1> QED BY <1>4 DEF u

LEMMA DeferEnds ==
  ASSUME NEW v, Begun(v), NEW state \in Deferred
  PROVE  Ended(v, Defer(v, state))
<1> DEFINE c == CleanupSession(v)
           u == Defer(v, state)
<1>1. v \in Worker /\ state \in WorkerState /\ v.said \in Nat
  BY WorkerMembers, WorkerNats DEF Begun
<1>2. /\ c \in Worker /\ c.ws = None /\ c.timers = {}
      /\ c.arrived = ArrivedOf(v) /\ c.ending = v.ending
      /\ SameHistory(c, v) /\ c.said = v.said
  BY <1>1, CleanupFields
<1>3. u = [c EXCEPT !.state = state, !.updateTimer = TRUE]
  BY DEF Defer
<1> HIDE DEF c, u
<1>4. u \in Worker
  BY <1>1, <1>2, <1>3, WorkerMembers, ZenonT(60) DEF Worker
<1>5. /\ u.state = state /\ u.updateTimer /\ u.ws = c.ws /\ u.timers = c.timers
      /\ u.arrived = c.arrived /\ u.ending = c.ending
      /\ SameHistory(u, c) /\ u.said = c.said
  BY <1>2, <1>3 DEF Worker, SameHistory
<1>6. ArrivedOf(u) = ArrivedOf(v) /\ SameHistory(u, v)
  BY <1>2, <1>5 DEF ArrivedOf, SameHistory
<1>7. Kept(u)
  BY <1>6 DEF Begun, Kept, SameHistory
<1>8. Shape(u)
  BY <1>2, <1>5 DEF Shape, Open, Deferred, Begun
<1>9. Moved(v, u)
  <2>1. u.said >= v.said /\ ArrivedOf(u) >= ArrivedOf(v) /\ v.ending = "no"
    BY <1>1, <1>2, <1>5, <1>6, WorkerNats DEF Begun
  <2> QED BY <1>1, <1>2, <1>4, <1>5, <1>6, <2>1, MovedSame DEF SameHistory
<1> QED BY <1>2, <1>4, <1>5, <1>7, <1>8, <1>9 DEF Ended, WorkerInv, Loose, u

----------------------------------------------------------------------------
\* Worker::doUpdate.

\* The close of the server is passed on.
LEMMA PassCloseGood ==
  ASSUME NEW v, Loose(v), v.ending = "no", v.state \in Open, v.wsPendingPeerClose
  PROVE  LET u == PassClose(v)
         IN  \/ Ended(v, u)
             \/ /\ Loose(u) /\ Moved(v, u) /\ u.ws = v.ws
                /\ u.state = "PeerClosing" /\ ~u.wsPendingPeerClose
                /\ u.stuffToRead = v.stuffToRead /\ u.ending = "no"
                /\ u.updateTimer = v.updateTimer
<1> DEFINE a == WriteResponse(v)
           c == [a EXCEPT !.wsPendingPeerClose = FALSE, !.closes = @ + 1,
                          !.queuedAtClose = Len(v.ws.in)]
           d == [c EXCEPT !.state = "PeerClosing"]
           u == PassClose(v)
<1>1. /\ v \in Worker /\ Kept(v) /\ Shape(v) /\ v.ws # None /\ v.ws \in WebSocket
      /\ Sound(v.ws) /\ Linked(v) /\ v.state # "NotStarted"
  BY WorkerNats DEF Loose, Shape, Open
<1>2. u = IF v.state = "Closing" THEN Finish(c, "closed") ELSE d
  BY DEF PassClose
<1>3. v.state \in {"Started", "Closing"} /\ v.closes = 0 /\ v.accepted
  <2>1. v.state # "PeerClosing"
    BY <1>1 DEF Linked
  <2>2. v.state = "Started" => v.ws.peerClosing /\ v.ws.state = "Connected"
    BY <1>1 DEF Linked, Sound, Good, ConnGood
  <2>3. v.ws.state # "Connecting"
    BY <1>1, <2>1, <2>2 DEF Linked, Open
  <2> QED BY <1>1, <2>1, <2>3 DEF Linked, Open
<1>4. /\ a \in Worker /\ SameHistory(a, v) /\ a.said = v.said + 1
      /\ a.state = v.state /\ a.ws = v.ws /\ a.timers = v.timers
      /\ a.updateTimer = v.updateTimer /\ a.arrived = v.arrived
      /\ a.ending = v.ending /\ a.outCredits = v.outCredits
      /\ a.stuffToRead = v.stuffToRead /\ a.wsClosed = v.wsClosed
      /\ a.wsPendingPeerClose = v.wsPendingPeerClose
      /\ a.wsPendingWrites = v.wsPendingWrites
  BY <1>1, WriteResponseFields
<1> HIDE DEF a
<1>5. Len(v.ws.in) \in Nat /\ a.closes + 1 \in Nat /\ a.closes = 0
  <2>1. v.ws.in \in Seq(FrameType)
    BY <1>1, Types
  <2>2. a.closes = 0
    BY <1>3, <1>4 DEF SameHistory
  <2> QED BY <2>1, <2>2
<1>6. c \in Worker
  BY <1>4, <1>5, WorkerMembers, ZenonT(60) DEF Worker
<1>7. /\ c.closes = 1 /\ ~c.wsPendingPeerClose /\ c.said = v.said + 1
      /\ c.req = v.req /\ c.delivered = v.delivered /\ c.bytes = v.bytes
      /\ c.accepted = v.accepted /\ c.granted = v.granted
      /\ c.state = v.state /\ c.ws = v.ws /\ c.timers = v.timers
      /\ c.updateTimer = v.updateTimer /\ c.arrived = v.arrived
      /\ c.ending = v.ending /\ c.outCredits = v.outCredits
      /\ c.stuffToRead = v.stuffToRead /\ c.wsClosed = v.wsClosed
      /\ c.wsPendingWrites = v.wsPendingWrites
  <2>1. /\ c.closes = a.closes + 1 /\ ~c.wsPendingPeerClose
        /\ c.said = a.said /\ c.state = a.state /\ c.ws = a.ws /\ c.timers = a.timers
        /\ c.updateTimer = a.updateTimer /\ c.arrived = a.arrived
        /\ c.ending = a.ending /\ c.outCredits = a.outCredits
        /\ c.stuffToRead = a.stuffToRead /\ c.wsClosed = a.wsClosed
        /\ c.wsPendingWrites = a.wsPendingWrites
        /\ c.req = a.req /\ c.delivered = a.delivered /\ c.bytes = a.bytes
        /\ c.accepted = a.accepted /\ c.granted = a.granted
    BY <1>4, SMTT(30) DEF Worker, SameHistory
  <2> QED BY <1>4, <1>5, <2>1 DEF SameHistory
<1> HIDE DEF c
<1>8. Kept(c) /\ ArrivedOf(c) = ArrivedOf(v)
  BY <1>1, <1>3, <1>7 DEF Kept, ArrivedOf
<1>9. Moved(v, c)
  <2>1. Due(c) = Due(v) + 1
    <3>1. v.delivered \in Nat /\ v.closes \in Nat
      BY <1>1, WorkerNats
    <3> QED BY <1>3, <1>7, <3>1 DEF Due
  <2>2. v.said \in Nat /\ Due(v) \in Nat /\ ArrivedOf(v) \in Nat /\ v.granted \in Nat
        /\ v.delivered \in Nat /\ v.bytes \in Nat
    BY <1>1, WorkerNats
  <2> QED BY <1>3, <1>7, <1>8, <2>1, <2>2 DEF Moved
<1>10. CASE v.state = "Closing"
  <2>1. Begun(c)
    BY <1>6, <1>7, <1>8, <1>10 DEF Begun
  <2>2. Ended(c, Finish(c, "closed"))
    BY <1>7, <2>1, ClosedEnds
  <2>3. Moved(v, u)
    <3>1. u \in Worker
      BY <1>2, <1>10, <2>2 DEF Ended, WorkerInv, Loose
    <3> QED BY <1>1, <1>2, <1>6, <1>9, <1>10, <2>2, <3>1, MovedTwice DEF Ended
  <2> QED BY <1>2, <1>10, <2>2, <2>3 DEF Ended
<1>11. CASE v.state = "Started"
  <2>1. u = d
    BY <1>2, <1>11
  <2>2. d \in Worker
    BY <1>6, WorkerMembers, ZenonT(60) DEF Worker
  <2>3. /\ d.state = "PeerClosing" /\ d.closes = 1 /\ ~d.wsPendingPeerClose
        /\ d.said = v.said + 1 /\ d.req = v.req /\ d.delivered = v.delivered
        /\ d.bytes = v.bytes /\ d.accepted = v.accepted /\ d.granted = v.granted
        /\ d.ws = v.ws /\ d.timers = v.timers
        /\ d.updateTimer = v.updateTimer /\ d.arrived = v.arrived
        /\ d.ending = v.ending /\ d.outCredits = v.outCredits
        /\ d.stuffToRead = v.stuffToRead /\ d.wsClosed = v.wsClosed
        /\ d.wsPendingWrites = v.wsPendingWrites
    BY <1>6, <1>7 DEF Worker
  <2> HIDE DEF d
  <2>4. Linked(d)
    BY <1>1, <1>11, <2>3 DEF Linked, Sound, Good, ConnGood
  <2>5. Kept(d)
    BY <1>8, <1>7, <2>3 DEF Kept, ArrivedOf
  <2>6. Shape(d)
    BY <1>1, <2>3 DEF Shape, Open, Deferred
  <2>7. Loose(d)
    BY <1>1, <2>2, <2>3, <2>4, <2>5, <2>6 DEF Loose
  <2>8. Moved(v, d)
    BY <1>7, <1>9, <2>3 DEF Moved, Due, ArrivedOf
  <2> QED BY <2>1, <2>3, <2>7, <2>8 DEF u
<1> QED BY <1>3, <1>10, <1>11

\* As many frames as the credits allow are passed on.
LEMMA PassFramesGood ==
  ASSUME NEW v, Loose(v), v.ending = "no", v.state \in Open
  PROVE  LET u == PassFrames(v)
         IN  /\ Loose(u) /\ Moved(v, u) /\ u.ws # None /\ SameLink(u.ws, v.ws)
             /\ u.state = v.state /\ u.wsPendingPeerClose = v.wsPendingPeerClose
             /\ u.updateTimer = v.updateTimer /\ u.ending = "no"
             /\ u.stuffToRead <=> u.ws.in # <<>>
             /\ u.stuffToRead => u.outCredits < u.ws.in[1].size
<1> DEFINE n == Afforded(v)
           passed == SubSeq(v.ws.in, 1, n)
           left == SubSeq(v.ws.in, n + 1, Len(v.ws.in))
           r == ReadFrames(v.ws, n)
           u == PassFrames(v)
<1>1. /\ v \in Worker /\ Kept(v) /\ Shape(v) /\ v.ws # None /\ v.ws \in WebSocket
      /\ Sound(v.ws) /\ Good(v.ws) /\ Linked(v) /\ v.state # "NotStarted"
  BY WorkerNats DEF Loose, Shape, Open, Sound
<1>2. v.ws.in \in Seq(FrameType) /\ v.outCredits \in Nat
  BY <1>1, Types, WorkerNats
<1>3. /\ n \in 0..Len(v.ws.in) /\ Bytes(passed) <= v.outCredits
      /\ n < Len(v.ws.in) => v.outCredits < Bytes(passed) + v.ws.in[n + 1].size
  BY <1>2, Fitting, FrameSized DEF Afforded
<1> HIDE DEF n
<1>4. Bytes(passed) \in Nat /\ left \in Seq(FrameType)
  BY <1>2, <1>3, BytesSplit, FrameSized
<1>5. Len(left) = Len(v.ws.in) - n /\ (n < Len(v.ws.in) => left[1] = v.ws.in[n + 1])
  BY <1>2, <1>3
<1>6. n < Len(v.ws.in) => v.ws.in[n + 1].size \in Nat
  <2>1. n < Len(v.ws.in) => v.ws.in[n + 1] \in FrameType
    BY <1>2, <1>3
  <2> QED BY <2>1, FrameSized DEF Sized
<1>7. /\ Good(r) /\ SameLink(r, v.ws) /\ SameWrite(r, v.ws) /\ r.in = left
      /\ r.arrived = v.ws.arrived /\ r.signals = v.ws.signals
  BY <1>1, <1>3, ReadFramesGood
<1>8. u = [v EXCEPT !.ws = r, !.outCredits = @ - Bytes(passed),
                    !.stuffToRead = n < Len(v.ws.in),
                    !.said = @ + n, !.delivered = @ + n, !.bytes = @ + Bytes(passed)]
  BY DEF PassFrames, n
<1> DEFINE b == Bytes(passed)
           credits == v.outCredits - b
           more == n < Len(v.ws.in)
           said == v.said + n
           delivered == v.delivered + n
           bytes == v.bytes + b
<1>9. /\ credits \in Nat /\ more \in BOOLEAN /\ said \in Nat /\ delivered \in Nat
      /\ bytes \in Nat /\ r \in WebSocket /\ n \in Nat
  BY SMTT(30), <1>1, <1>2, <1>3, <1>4, <1>7, WorkerNats DEF Good
<1> HIDE DEF b, r, left
<1>10. u = [v EXCEPT !.ws = r, !.outCredits = credits, !.stuffToRead = more,
                     !.said = said, !.delivered = delivered, !.bytes = bytes]
  BY <1>1, <1>8 DEF b, Worker
<1> HIDE DEF credits, more, said, delivered, bytes
<1>11. u \in Worker
  BY <1>1, <1>9, <1>10, WorkerMembers, ZenonT(60) DEF Worker
<1>12. /\ u.ws = r /\ u.outCredits = credits /\ u.stuffToRead = more /\ u.said = said
       /\ u.delivered = delivered /\ u.bytes = bytes
       /\ u.req = v.req /\ u.closes = v.closes
       /\ u.accepted = v.accepted /\ u.granted = v.granted
       /\ u.state = v.state /\ u.timers = v.timers
       /\ u.updateTimer = v.updateTimer /\ u.arrived = v.arrived
       /\ u.ending = v.ending /\ u.wsClosed = v.wsClosed
       /\ u.wsPendingPeerClose = v.wsPendingPeerClose
       /\ u.wsPendingWrites = v.wsPendingWrites
  BY <1>1, <1>10 DEF Worker
<1> HIDE DEF u
<1>13. r # None
  BY <1>9, NoneAssumption
<1>14. v.accepted \/ n = 0
  <2>1. v.ws.state = "Connecting" => v.ws.in = <<>>
    BY <1>1 DEF Good, ConnGood
  <2> QED BY <1>1, <1>2, <1>3, <2>1 DEF Linked
<1>15. v.delivered + Len(v.ws.in) = v.ws.arrived /\ v.bytes + v.outCredits = v.granted
  BY <1>1 DEF Linked
<1>16. delivered + Len(r.in) = r.arrived /\ bytes + credits = v.granted
  BY <1>1, <1>2, <1>3, <1>4, <1>5, <1>7, <1>15, WorkerNats
     DEF delivered, bytes, credits, b
<1>17. Linked(u)
  BY <1>1, <1>7, <1>12, <1>16 DEF Linked, SameLink, SameConn, SameWrite
<1>18. Kept(u)
  <2>1. Len(r.in) \in Nat /\ r.arrived \in Nat /\ v.granted \in Nat
    BY <1>1, <1>4, <1>7, <1>9, Types, WorkerNats
  <2>2. delivered <= r.arrived /\ bytes <= v.granted
    BY <1>9, <1>16, <2>1
  <2>3. delivered > 0 => v.accepted
    BY <1>1, <1>14, WorkerNats DEF Kept, delivered
  <2> QED BY <1>1, <1>12, <1>13, <2>2, <2>3 DEF Kept, ArrivedOf
<1>19. Shape(u)
  BY <1>1, <1>12, <1>13 DEF Shape
<1>20. Sound(r)
  BY <1>1, <1>7 DEF Sound
<1>21. Moved(v, u)
  <2>1. ArrivedOf(u) = ArrivedOf(v)
    BY <1>1, <1>7, <1>12, <1>13 DEF ArrivedOf
  <2>2. Due(u) = Due(v) + n
    <3>1. v.delivered \in Nat /\ v.closes \in Nat
      BY <1>1, WorkerNats
    <3> QED BY <1>9, <1>12, <3>1 DEF Due, delivered
  <2>3. said >= v.said /\ said - v.said = n /\ delivered >= v.delivered /\ bytes >= v.bytes
    BY SMTT(30), <1>1, <1>4, <1>9, WorkerNats DEF said, delivered, bytes, b
  <2>4. Due(v) \in Nat /\ ArrivedOf(v) \in Nat /\ v.granted \in Nat /\ v.closes \in Nat
    BY <1>1, WorkerNats
  <2> QED BY <1>9, <1>12, <2>1, <2>2, <2>3, <2>4 DEF Moved
<1>22. Loose(u)
  BY <1>11, <1>12, <1>17, <1>18, <1>19, <1>20 DEF Loose
<1>23. more <=> r.in # <<>>
  BY <1>2, <1>3, <1>4, <1>5, <1>7 DEF more
<1>24. more => credits < r.in[1].size
  BY SMTT(30), <1>2, <1>3, <1>4, <1>5, <1>6, <1>7 DEF more, credits, b
<1> QED BY <1>7, <1>12, <1>13, <1>21, <1>22, <1>23, <1>24 DEF u

\* Only what is to be done next differs.
SameWork(u, v) ==
  /\ SameHistory(u, v) /\ u.said = v.said /\ u.state = v.state /\ u.ws = v.ws
  /\ u.timers = v.timers /\ u.arrived = v.arrived /\ u.ending = v.ending
  /\ u.outCredits = v.outCredits /\ u.wsClosed = v.wsClosed
  /\ u.wsPendingPeerClose = v.wsPendingPeerClose
  /\ u.wsPendingWrites = v.wsPendingWrites

LEMMA SameWorkLoose ==
  ASSUME NEW v, Loose(v), v.ws # None, NEW u \in Worker, SameWork(u, v)
  PROVE  Loose(u) /\ Moved(v, u)
<1>1. /\ v \in Worker /\ Kept(v) /\ Shape(v) /\ Sound(v.ws) /\ Linked(v)
      /\ v.state \in Open \cup {"CloseWait"} /\ v.ending = "no"
  BY DEF Loose, Shape, Open, Deferred
<1>2. Kept(u) /\ Linked(u)
  BY <1>1 DEF SameWork, SameHistory, Kept, Linked, ArrivedOf
<1>3. Shape(u)
  BY <1>1 DEF SameWork, Shape, Open, Deferred
<1>4. Moved(v, u)
  <2>1. ArrivedOf(u) = ArrivedOf(v) /\ ArrivedOf(v) \in Nat /\ v.said \in Nat
    BY <1>1, WorkerNats DEF SameWork, ArrivedOf
  <2>2. ArrivedOf(u) >= ArrivedOf(v) /\ u.said >= v.said
    BY <2>1 DEF SameWork
  <2> QED BY <1>1, <2>2, MovedSame DEF SameWork, SameHistory
<1> QED BY <1>1, <1>2, <1>3, <1>4 DEF Loose, SameWork

LEMMA TimerSet ==
  ASSUME NEW v \in Worker, NEW on \in BOOLEAN
  PROVE  LET u == [v EXCEPT !.updateTimer = on]
         IN  u \in Worker /\ SameWork(u, v) /\ u.updateTimer = on
             /\ u.stuffToRead = v.stuffToRead
<1> DEFINE u == [v EXCEPT !.updateTimer = on]
<1>1. u \in Worker
  BY ZenonT(60) DEF Worker
<1>2. SameWork(u, v) /\ u.updateTimer = on /\ u.stuffToRead = v.stuffToRead
  BY DEF Worker, SameWork, SameHistory
<1> QED BY <1>1, <1>2

\* After an update, frames wait for credits only.
LEMMA DoUpdateGood ==
  ASSUME NEW v, Loose(v), v.ending = "no", v.state # "NotStarted"
  PROVE  LET u == WorkerDoUpdate(v)
         IN  /\ Loose(u) /\ Moved(v, u)
             /\ u.ws # None => /\ v.ws # None /\ SameLink(u.ws, v.ws) /\ Passing(u)
                               /\ Known(v) \/ v.stuffToRead => Known(u)
<1> DEFINE s == [v EXCEPT !.updateTimer = FALSE]
           p == IF s.stuffToRead THEN PassFrames(s) ELSE s
           u == WorkerDoUpdate(v)
<1>1. v \in Worker /\ Kept(v) /\ Shape(v)
  BY DEF Loose
<1>2. s \in Worker /\ SameWork(s, v) /\ ~s.updateTimer /\ s.stuffToRead = v.stuffToRead
  BY <1>1, TimerSet
<1>3. Begun(s)
  BY <1>1, <1>2 DEF Begun, Kept, SameWork, SameHistory, ArrivedOf
<1>4. v.state \in Open \cup Deferred \cup {"CloseWait"}
  BY <1>1, WorkerNats DEF Shape, WorkerState
<1>5. Moved(v, s)
  <2>1. ArrivedOf(s) = ArrivedOf(v) /\ ArrivedOf(v) \in Nat /\ v.said \in Nat
    BY <1>1, <1>2, WorkerNats DEF SameWork, ArrivedOf
  <2>2. ArrivedOf(s) >= ArrivedOf(v) /\ s.said >= v.said
    BY <1>2, <2>1 DEF SameWork
  <2> QED BY <1>1, <1>2, <2>2, MovedSame DEF SameWork, SameHistory
<1>6. u = CASE v.state \in Open ->
                 IF p.wsPendingPeerClose /\ ~p.stuffToRead THEN PassClose(p) ELSE p
            [] v.state = "CloseWait" -> s
            [] v.state = "Finished" -> Finish(s, "silent")
            [] v.state = "Cancel" -> RespondCancel(s)
            [] v.state = "Error" -> RespondError(s)
  BY DEF WorkerDoUpdate
<1> HIDE DEF s, u
<1>7. ASSUME NEW x, Ended(s, x), u = x PROVE Loose(u) /\ Moved(v, u) /\ u.ws = None
  <2>1. x \in Worker
    BY <1>7 DEF Ended, WorkerInv, Loose
  <2> QED BY <1>1, <1>2, <1>5, <1>7, <2>1, MovedTwice DEF Ended, WorkerInv
<1>8. CASE v.state \in Deferred
  <2>1. CASE v.state = "Finished"
    <3>1. u = Finish(s, "silent")
      BY <1>6, <2>1 DEF Open
    <3> QED BY <1>3, <1>7, <3>1, SilentEnds DEF u
  <2>2. CASE v.state = "Cancel"
    <3>1. u = Finish(WriteResponse(s), "cancel")
      BY <1>6, <2>2 DEF Open, RespondCancel
    <3> QED BY <1>3, <1>7, <3>1, RespondEnds DEF u
  <2>3. CASE v.state = "Error"
    <3>1. u = Finish(WriteResponse(s), "error")
      BY <1>6, <2>3 DEF Open, RespondError
    <3> QED BY <1>3, <1>7, <3>1, RespondEnds DEF u
  <2> QED BY <1>8, <2>1, <2>2, <2>3 DEF Deferred
<1>9. ASSUME v.state \notin Deferred PROVE v.ws # None /\ Loose(s) /\ SameLink(v.ws, v.ws)
  <2>1. v.ws # None
    BY <1>1, <1>4, <1>9 DEF Shape
  <2> QED BY <1>2, <2>1, SameWorkLoose DEF SameLink, SameConn, SameBody
<1>10. CASE v.state = "CloseWait"
  <2>1. u = s /\ v.state \notin Deferred /\ s.state \notin Open
    BY <1>2, <1>6, <1>10 DEF Open, Deferred, SameWork
  <2> QED BY <1>2, <1>5, <1>9, <2>1 DEF Known, Passing, SameWork, u
<1>11. CASE v.state \in Open
  <2>1. /\ u = IF p.wsPendingPeerClose /\ ~p.stuffToRead THEN PassClose(p) ELSE p
        /\ v.state \notin Deferred
    BY <1>6, <1>11 DEF Open, Deferred
  <2>2. v.ws # None /\ Loose(s) /\ SameLink(v.ws, v.ws) /\ s.ws = v.ws /\ s.state \in Open
        /\ s.ending = "no"
    BY <1>2, <1>9, <1>11, <2>1 DEF SameWork
  <2>3. /\ Loose(p) /\ Moved(s, p) /\ p.ws # None /\ SameLink(p.ws, v.ws)
        /\ p.state \in Open /\ p.ending = "no"
        /\ p.stuffToRead => p.ws.in # <<>> /\ p.outCredits < p.ws.in[1].size
        /\ Known(v) \/ v.stuffToRead => Known(p)
    <3>1. CASE s.stuffToRead
      <4>1. p = PassFrames(s)
        BY <3>1
      <4>2. /\ Loose(p) /\ Moved(s, p) /\ p.ws # None /\ SameLink(p.ws, s.ws)
            /\ p.state = s.state /\ p.wsPendingPeerClose = s.wsPendingPeerClose
            /\ p.updateTimer = s.updateTimer /\ p.ending = "no"
            /\ p.stuffToRead <=> p.ws.in # <<>>
            /\ p.stuffToRead => p.outCredits < p.ws.in[1].size
        BY <2>2, <4>1, PassFramesGood
      <4> QED BY <2>2, <4>2 DEF Known
    <3>2. CASE ~s.stuffToRead
      <4>1. p = s
        BY <3>2
      <4>2. Moved(s, s)
        <5>1. ArrivedOf(s) \in Nat /\ s.said \in Nat
          BY <1>2, WorkerNats
        <5>2. ArrivedOf(s) >= ArrivedOf(s) /\ s.said >= s.said
          BY <5>1
        <5> QED BY <1>2, <2>2, <5>2, MovedSame
      <4>3. Known(v) => Known(s)
        BY <1>2 DEF Known, SameWork
      <4> QED BY <1>2, <2>2, <3>2, <4>1, <4>2, <4>3
    <3> QED BY <3>1, <3>2
  <2> HIDE DEF p
  <2>4. Moved(v, p) /\ p \in Worker
    BY <1>1, <1>2, <1>5, <2>3, MovedTwice DEF Loose
  <2>5. CASE p.wsPendingPeerClose /\ ~p.stuffToRead
    <3>1. u = PassClose(p)
      BY <2>1, <2>5
    <3>2. \/ Ended(p, u)
          \/ /\ Loose(u) /\ Moved(p, u) /\ u.ws = p.ws
             /\ u.state = "PeerClosing" /\ ~u.wsPendingPeerClose
             /\ u.stuffToRead = p.stuffToRead /\ u.ending = "no"
             /\ u.updateTimer = p.updateTimer
      BY <2>3, <2>5, <3>1, PassCloseGood
    <3>3. Loose(u) /\ Moved(p, u)
      BY <3>2 DEF Ended, WorkerInv
    <3>4. Moved(v, u)
      BY <1>1, <2>4, <3>3, MovedTwice DEF Loose
    <3>5. u.ws # None => /\ SameLink(u.ws, v.ws) /\ Passing(u)
                         /\ Known(v) \/ v.stuffToRead => Known(u)
      <4>1. CASE u.ws = None
        BY <4>1
      <4>2. CASE u.ws # None
        <5>1. /\ u.ws = p.ws
              /\ u.state = "PeerClosing" /\ ~u.wsPendingPeerClose
              /\ u.stuffToRead = p.stuffToRead
          BY <3>2, <4>2 DEF Ended
        <5> QED BY <2>3, <2>5, <5>1 DEF Passing, Known
      <4> QED BY <4>1, <4>2
    <3> QED BY <2>2, <3>3, <3>4, <3>5 DEF u
  <2>6. CASE ~(p.wsPendingPeerClose /\ ~p.stuffToRead)
    <3>1. u = p
      BY <2>1, <2>6
    <3>2. Passing(p)
      BY <2>3, <2>6 DEF Passing
    <3> QED BY <2>2, <2>3, <2>4, <3>1, <3>2 DEF u
  <2> QED BY <2>5, <2>6
<1> QED BY <1>4, <1>8, <1>10, <1>11 DEF u

----------------------------------------------------------------------------
\* The slots of the worker, and the signals that run them.

\* Any number of frames is on its way to the client.
LEMMA ReadyReadGood ==
  ASSUME NEW v, Loose(v), v.ws # None
  PROVE  LET u == WsReadyRead(v)
         IN  /\ WorkerInv(u) /\ Moved(v, u)
             /\ u.ws # None => SameLink(u.ws, v.ws)
<1> DEFINE s == [v EXCEPT !.stuffToRead = TRUE]
           u == WsReadyRead(v)
<1>1. v \in Worker /\ v.ending = "no" /\ v.state \in Open \cup {"CloseWait"}
  BY DEF Loose, Shape, Open, Deferred
<1>2. s \in Worker
  BY <1>1, WorkerMembers, ZenonT(60) DEF Worker
<1>3. SameWork(s, v) /\ s.stuffToRead
  BY <1>1 DEF Worker, SameWork, SameHistory
<1>4. u = IF v.outCredits < 1 THEN s ELSE WorkerDoUpdate(s)
  BY DEF WsReadyRead
<1> HIDE DEF s, u
<1>5. Loose(s) /\ Moved(v, s)
  BY <1>2, <1>3, SameWorkLoose
<1>6. CASE v.outCredits < 1
  <2>1. Known(s) /\ Passing(s)
    BY <1>3, <1>6 DEF Known, Passing, SameWork
  <2>2. s.ws = v.ws /\ SameLink(v.ws, v.ws)
    BY <1>3 DEF SameWork, SameLink, SameConn, SameBody
  <2> QED BY <1>4, <1>5, <1>6, <2>1, <2>2 DEF WorkerInv, u
<1>7. CASE ~(v.outCredits < 1)
  <2>1. s.ending = "no" /\ s.state # "NotStarted" /\ s.ws = v.ws
    BY <1>1, <1>3 DEF SameWork, Open
  <2>2. /\ Loose(u) /\ Moved(s, u)
        /\ u.ws # None => SameLink(u.ws, s.ws) /\ Passing(u) /\ Known(u)
    BY <1>3, <1>4, <1>5, <1>7, <2>1, DoUpdateGood
  <2>3. Moved(v, u)
    BY <1>1, <1>2, <1>5, <2>2, MovedTwice DEF Loose
  <2> QED BY <2>1, <2>2, <2>3 DEF WorkerInv, u
<1> QED BY <1>6, <1>7

\* The close frame of the server has arrived, or the connection has ended; the
\* worker is one that is sound once it knows.
LEMMA PendingGood ==
  ASSUME NEW v \in Worker, v.ws # None, v.ending = "no",
         Loose([v EXCEPT !.wsPendingPeerClose = TRUE])
  PROVE  LET u == WorkerDoUpdate([v EXCEPT !.wsPendingPeerClose = TRUE])
         IN  /\ Loose(u) /\ Moved(v, u)
             /\ u.ws # None => /\ SameLink(u.ws, v.ws) /\ Passing(u)
                               /\ Known(v) => Known(u)
<1> DEFINE s == [v EXCEPT !.wsPendingPeerClose = TRUE]
           u == WorkerDoUpdate(s)
<1>1. /\ s.ws = v.ws /\ s.ending = v.ending /\ s.state = v.state /\ s.arrived = v.arrived
      /\ SameHistory(s, v) /\ s.said = v.said /\ s.stuffToRead = v.stuffToRead
  BY DEF Worker, SameHistory
<1>2. Loose(s)
  OBVIOUS
<1> HIDE DEF s
<1>3. s.state # "NotStarted" /\ s \in Worker
  BY <1>1, <1>2 DEF Loose, Shape, Open
<1>4. Moved(v, s)
  <2>1. ArrivedOf(s) = ArrivedOf(v) /\ ArrivedOf(v) \in Nat /\ v.said \in Nat
    BY <1>1, WorkerNats DEF ArrivedOf
  <2>2. ArrivedOf(s) >= ArrivedOf(v) /\ s.said >= v.said
    BY <1>1, <2>1
  <2> QED BY <1>1, <1>3, <2>2, MovedSame DEF SameHistory
<1>5. /\ Loose(u) /\ Moved(s, u)
      /\ u.ws # None => /\ SameLink(u.ws, s.ws) /\ Passing(u)
                        /\ Known(s) => Known(u)
  BY <1>1, <1>2, <1>3, DoUpdateGood
<1> HIDE DEF u
<1>6. Known(v) => Known(s)
  BY <1>1 DEF Known
<1>7. Moved(v, u)
  BY <1>2, <1>4, <1>5, MovedTwice DEF Loose
<1> QED BY <1>1, <1>5, <1>6, <1>7 DEF u, s

----------------------------------------------------------------------------
E == INSTANCE FoldLemmas WITH Op <- RunSlots

\* The worker when its WebSocket has become s.
After(v, s) == [v EXCEPT !.ws = [s EXCEPT !.signals = <<>>]]

LEMMA EmittedFold ==
  ASSUME NEW v, NEW s
  PROVE  Emitted(v, s) = E!Fold({After(v, s)}, s.signals)
BY DEF Emitted, After, E!Fold, FoldLeft, MapThenFoldSet, Max,
       E!FoldLeft, E!MapThenFoldSet, E!Max

LEMMA EmittedMore ==
  ASSUME NEW R, NEW q \in Seq(SignalType), NEW x \in SignalType
  PROVE  E!Fold(R, Append(q, x)) = RunSlots(E!Fold(R, q), x)
BY E!FoldAppend

LEMMA EmittedNone == ASSUME NEW R PROVE E!Fold(R, <<>>) = R
BY E!FoldEmpty

LEMMA EmittedOne ==
  ASSUME NEW R, NEW x \in SignalType
  PROVE  E!Fold(R, <<x>>) = RunSlots(R, x)
<1>1. <<>> \in Seq(SignalType) /\ <<x>> = Append(<<>>, x)
  OBVIOUS
<1>2. E!Fold(R, Append(<<>>, x)) = RunSlots(E!Fold(R, <<>>), x)
  BY <1>1, EmittedMore
<1>3. E!Fold(R, <<>>) = R
  BY EmittedNone
<1> QED BY <1>1, <1>2, <1>3

LEMMA SlotRuns ==
  ASSUME NEW R, NEW signal, NEW u \in RunSlots(R, signal)
  PROVE  \E x \in R : /\ x.ws = None \/ x.ws.fault # "none" => u = x
                      /\ x.ws # None /\ x.ws.fault = "none" => u \in Slot(x, signal)
BY DEF RunSlots

\* The fields of a worker but its WebSocket.
SameButWs(u, v) ==
  /\ SameHistory(u, v) /\ u.said = v.said /\ u.state = v.state
  /\ u.timers = v.timers /\ u.arrived = v.arrived /\ u.ending = v.ending
  /\ u.outCredits = v.outCredits /\ u.wsClosed = v.wsClosed
  /\ u.wsPendingPeerClose = v.wsPendingPeerClose
  /\ u.wsPendingWrites = v.wsPendingWrites
  /\ u.updateTimer = v.updateTimer /\ u.stuffToRead = v.stuffToRead
  /\ u.credited = v.credited

LEMMA AfterFields ==
  ASSUME NEW v \in Worker, NEW s \in WebSocket
  PROVE  LET u == After(v, s)
         IN  /\ u \in Worker /\ SameButWs(u, v)
             /\ u.ws \in WebSocket /\ u.ws # None /\ SameButSignals(u.ws, s)
             /\ u.ws.signals = <<>>
<1> DEFINE t == [s EXCEPT !.signals = <<>>]
           u == After(v, s)
<1>1. t \in WebSocket
  BY Members, ZenonT(60) DEF WebSocket
<1>2. SameButSignals(t, s) /\ t.signals = <<>>
  BY DEF WebSocket, SameButSignals, SameConn, SameRead, SameWrite, SameBody
<1>3. u = [v EXCEPT !.ws = t]
  BY DEF After
<1> HIDE DEF t, u
<1>4. u \in Worker
  BY <1>1, <1>3, WorkerMembers, ZenonT(60) DEF Worker
<1>5. SameButWs(u, v) /\ u.ws = t
  BY <1>3 DEF Worker, SameButWs, SameHistory
<1>6. t # None
  BY <1>1, NoneAssumption
<1> QED BY <1>1, <1>2, <1>4, <1>5, <1>6 DEF u

\* A session that has a WebSocket has begun.
LEMMA AfterBegun ==
  ASSUME NEW v, Loose(v), v.ws # None, NEW s \in WebSocket, s.arrived >= v.ws.arrived
  PROVE  LET u == After(v, s)
         IN  /\ Begun(u) /\ Shape(u) /\ ArrivedOf(u) = s.arrived /\ Moved(v, u)
             /\ v.state \in Open \cup {"CloseWait"} /\ v.ending = "no"
<1> DEFINE u == After(v, s)
<1>1. /\ v \in Worker /\ Kept(v) /\ Shape(v) /\ v.ws \in WebSocket
      /\ v.state \in Open \cup {"CloseWait"} /\ v.ending = "no"
  BY WorkerNats DEF Loose, Shape, Open, Deferred
<1>2. /\ u \in Worker /\ SameButWs(u, v)
      /\ u.ws \in WebSocket /\ u.ws # None /\ SameButSignals(u.ws, s)
      /\ u.ws.signals = <<>>
  BY <1>1, AfterFields
<1> HIDE DEF u
<1>3. ArrivedOf(u) = s.arrived /\ ArrivedOf(v) = v.ws.arrived
  BY <1>2 DEF ArrivedOf, SameButSignals, SameRead
<1>4. s.arrived \in Nat /\ v.ws.arrived \in Nat /\ v.delivered \in Nat /\ v.said \in Nat
  BY <1>1, Types, WorkerNats
<1>5. Kept(u)
  BY <1>1, <1>2, <1>3, <1>4 DEF Kept, SameButWs, SameHistory
<1>6. Shape(u)
  BY <1>1, <1>2 DEF Shape, SameButWs, Open, Deferred
<1>7. Moved(v, u)
  <2>1. ArrivedOf(u) >= ArrivedOf(v) /\ u.said >= v.said
    BY <1>2, <1>3, <1>4 DEF SameButWs
  <2> QED BY <1>1, <1>2, <2>1, MovedSame DEF SameButWs, SameHistory
<1>8. Begun(u)
  BY <1>1, <1>2, <1>5 DEF Begun, SameButWs, Open
<1> QED BY <1>1, <1>3, <1>6, <1>7, <1>8 DEF u

\* What a step of the WebSocket leads to.
Leads(v, s) ==
  \A u \in Emitted(v, s) :
    /\ WorkerInv(u) /\ Moved(v, u)
    /\ u.ws # None => SameLink(u.ws, s)

LEMMA SignalIn ==
  ASSUME NEW name \in SignalName, NEW count \in Nat
  PROVE  Signal(name, count) \in SignalType
BY DEF Signal, SignalType

LEMMA Slots ==
  ASSUME NEW v
  PROVE  /\ Slot(v, Signal("nextAddress", 0)) = WsNextAddress(v)
         /\ Slot(v, Signal("connected", 0)) = {WsConnected(v)}
         /\ Slot(v, Signal("readyRead", 0)) = {WsReadyRead(v)}
         /\ Slot(v, Signal("peerClosing", 0)) = {WsPeerClosing(v)}
         /\ Slot(v, Signal("closed", 0)) = {WsClosed(v)}
         /\ Slot(v, Signal("error", 0)) = {RespondError(v)}
         /\ \A n : Slot(v, Signal("framesWritten", n)) = {WsFramesWritten(v, n)}
BY DEF Slot, Signal

LEMMA EmitsNone ==
  ASSUME NEW v, NEW s, s.signals = <<>>, NEW u \in Emitted(v, s)
  PROVE  u = After(v, s)
<1>1. E!Fold({After(v, s)}, <<>>) = {After(v, s)}
  BY EmittedNone
<1> QED BY <1>1, EmittedFold

LEMMA EmitsMore ==
  ASSUME NEW v, NEW s, NEW q \in Seq(SignalType), NEW x \in SignalType,
         s.signals = Append(q, x), NEW u \in Emitted(v, s)
  PROVE  \E y \in E!Fold({After(v, s)}, q) :
            /\ y.ws = None \/ y.ws.fault # "none" => u = y
            /\ y.ws # None /\ y.ws.fault = "none" => u \in Slot(y, x)
<1>1. E!Fold({After(v, s)}, Append(q, x)) = RunSlots(E!Fold({After(v, s)}, q), x)
  BY EmittedMore
<1>2. u \in RunSlots(E!Fold({After(v, s)}, q), x)
  BY <1>1, EmittedFold
<1> QED BY <1>2, SlotRuns

LEMMA FirstSlot ==
  ASSUME NEW v \in Worker, NEW s \in WebSocket, s.fault = "none", NEW x \in SignalType,
         NEW u \in E!Fold({After(v, s)}, <<x>>)
  PROVE  u \in Slot(After(v, s), x)
<1>1. After(v, s).ws # None /\ After(v, s).ws.fault = "none"
  BY AfterFields DEF SameButSignals
<1>2. E!Fold({After(v, s)}, <<x>>) = RunSlots({After(v, s)}, x)
  BY EmittedOne
<1>3. u \in RunSlots({After(v, s)}, x)
  BY <1>2
<1>4. PICK y \in {After(v, s)} : /\ y.ws = None \/ y.ws.fault # "none" => u = y
                                /\ y.ws # None /\ y.ws.fault = "none" => u \in Slot(y, x)
  BY <1>3, SlotRuns
<1> QED BY <1>1, <1>4

LEMMA EmitsOne ==
  ASSUME NEW v \in Worker, NEW s \in WebSocket, s.fault = "none", NEW x \in SignalType,
         s.signals = <<x>>, NEW u \in Emitted(v, s)
  PROVE  u \in Slot(After(v, s), x)
<1>1. u \in E!Fold({After(v, s)}, <<x>>)
  BY EmittedFold
<1> QED BY <1>1, FirstSlot

\* A session whose WebSocket fails ends.
LEMMA ErrorSlot ==
  ASSUME NEW v, Loose(v), v.ws # None, NEW s \in WebSocket, s.arrived >= v.ws.arrived,
         NEW u \in Slot(After(v, s), Signal("error", 0))
  PROVE  WorkerInv(u) /\ Moved(v, u) /\ u.ws = None
<1> DEFINE x == After(v, s)
<1>1. Begun(x) /\ Moved(v, x)
  BY AfterBegun
<1>2. u = Finish(WriteResponse(x), "error")
  BY Slots DEF RespondError
<1> HIDE DEF x
<1>3. Ended(x, u)
  BY <1>1, <1>2, RespondEnds
<1>4. Moved(v, u)
  BY <1>1, <1>3, MovedTwice DEF Ended, WorkerInv, Loose, Begun
<1> QED BY <1>3, <1>4 DEF Ended

LEMMA SteadyInv ==
  ASSUME NEW v, WorkerInv(v), v.ws # None, NEW s, Steady(v.ws, s)
  PROVE  WorkerInv(After(v, s)) /\ Moved(v, After(v, s)) /\ SameLink(After(v, s).ws, s)
<1> DEFINE u == After(v, s)
<1>1. /\ v \in Worker /\ Loose(v) /\ Linked(v) /\ Known(v) /\ Passing(v)
      /\ s \in WebSocket /\ Good(s) /\ s.arrived = v.ws.arrived /\ v.ws \in WebSocket
  BY WorkerNats DEF WorkerInv, Loose, Steady, Good
<1>2. s.arrived >= v.ws.arrived
  <2>1. v.ws.arrived \in Nat
    BY <1>1, Types
  <2> QED BY <1>1, <2>1
<1>3. Begun(u) /\ Shape(u) /\ Moved(v, u)
  BY <1>1, <1>2, AfterBegun
<1>4. /\ u \in Worker /\ SameButWs(u, v)
      /\ u.ws \in WebSocket /\ u.ws # None /\ SameButSignals(u.ws, s)
      /\ u.ws.signals = <<>>
  BY <1>1, AfterFields
<1> HIDE DEF u
<1>5. Sound(u.ws)
  BY <1>1, <1>4, GoodSame DEF Sound
<1>6. /\ u.ws.state = v.ws.state /\ u.ws.peerClosing = v.ws.peerClosing
      /\ FrameCount(u.ws.pendingWrites) = FrameCount(v.ws.pendingWrites)
      /\ u.ws.in = v.ws.in /\ u.ws.arrived = v.ws.arrived
  BY <1>4 DEF Steady, SameButSignals, SameConn, SameRead, SameWrite
<1>7. Linked(u)
  BY <1>1, <1>4, <1>6 DEF Linked, SameButWs, SameHistory
<1>8. Known(u) /\ Passing(u)
  BY <1>1, <1>4, <1>6 DEF Known, Passing, SameButWs
<1>9. WorkerInv(u)
  BY <1>3, <1>4, <1>5, <1>7, <1>8 DEF WorkerInv, Loose, Begun
<1>10. SameLink(u.ws, s)
  BY <1>4 DEF SameLink, SameButSignals, SameConn, SameRead, SameBody
<1> QED BY <1>3, <1>9, <1>10 DEF u

\* Before the handshake is answered.
LEMMA CarriesLeads ==
  ASSUME NEW v, WorkerInv(v), v.ws # None, NEW s, Carries(v.ws, s)
  PROVE  Leads(v, s)
<1> SUFFICES ASSUME NEW u \in Emitted(v, s)
             PROVE  /\ WorkerInv(u) /\ Moved(v, u)
                    /\ u.ws # None => SameLink(u.ws, s)
  BY DEF Leads
<1>1. v \in Worker /\ Loose(v) /\ v.ws.signals = <<>> /\ v.ws \in WebSocket
  BY WorkerNats DEF WorkerInv, Loose, Sound
<1>2. Signal("error", 0) \in SignalType /\ Signal("nextAddress", 0) \in SignalType
  BY SignalIn, Members
<1>3. CASE Failed(v.ws, s)
  <2>1. s \in WebSocket /\ s.fault = "none" /\ s.signals = <<Signal("error", 0)>>
    <3>1. Append(<<>>, Signal("error", 0)) = <<Signal("error", 0)>>
      OBVIOUS
    <3> QED BY <1>1, <1>3, <3>1 DEF Failed
  <2>2. s.arrived >= v.ws.arrived
    <3>1. s.arrived = v.ws.arrived /\ v.ws.arrived \in Nat
      BY <1>1, <1>3, Types DEF Failed
    <3> QED BY <3>1
  <2>3. u \in Slot(After(v, s), Signal("error", 0))
    BY <1>1, <1>2, <2>1, EmitsOne
  <2> QED BY <1>1, <2>1, <2>2, <2>3, ErrorSlot
<1>4. CASE Steady(v.ws, s) /\ s.signals = <<>>
  <2>1. u = After(v, s)
    BY <1>4, EmitsNone
  <2> QED BY <1>4, <2>1, SteadyInv
<1>5. CASE Steady(v.ws, s) /\ s.signals = <<Signal("nextAddress", 0)>>
  <2>1. s \in WebSocket /\ s.fault = "none"
    BY <1>5 DEF Steady, Good
  <2>2. u \in Slot(After(v, s), Signal("nextAddress", 0))
    BY <1>1, <1>2, <1>5, <2>1, EmitsOne
  <2>3. u = After(v, s) \/ u = RespondError(After(v, s))
    BY <2>2, Slots DEF WsNextAddress
  <2>4. CASE u = After(v, s)
    BY <1>5, <2>4, SteadyInv
  <2>5. CASE u = RespondError(After(v, s))
    <3>1. u \in Slot(After(v, s), Signal("error", 0))
      BY <2>5, Slots
    <3>2. s.arrived >= v.ws.arrived
      <4>1. s.arrived = v.ws.arrived /\ v.ws.arrived \in Nat
        BY <1>1, <1>5, Types DEF Steady
      <4> QED BY <4>1
    <3> QED BY <1>1, <2>1, <3>1, <3>2, ErrorSlot
  <2> QED BY <2>3, <2>4, <2>5
<1> QED BY <1>3, <1>4, <1>5 DEF Carries

T == INSTANCE FoldLemmas WITH Op <- Plus

LEMMA TotalNat == ASSUME NEW q \in Seq(Nat) PROVE Total(q) \in Nat
<1>1. Total(q) = T!Fold(0, q)
  BY DEF Total, T!Fold, FoldLeft, MapThenFoldSet, Max,
         T!FoldLeft, T!MapThenFoldSet, T!Max
<1>2. ASSUME NEW a \in Nat, NEW x \in Nat PROVE Plus(a, x) \in Nat
  BY DEF Plus
<1>3. T!Fold(0, q) \in Nat
  <2>1. 0 \in Nat
    OBVIOUS
  <2> QED BY <1>2, <2>1, T!FoldIn
<1> QED BY <1>1, <1>3

\* The two lists of writes stay in step.
LEMMA WrittenLeads ==
  ASSUME NEW v, WorkerInv(v), v.ws # None, NEW s, NEW count \in Nat,
         Written(v.ws, s, count)
  PROVE  Leads(v, s)
<1> SUFFICES ASSUME NEW u \in Emitted(v, s)
             PROVE  /\ WorkerInv(u) /\ Moved(v, u)
                    /\ u.ws # None => SameLink(u.ws, s)
  BY DEF Leads
<1> DEFINE x == After(v, s)
           a == WriteResponse(x)
           rest == SubSeq(v.wsPendingWrites, count + 1, Len(v.wsPendingWrites))
           sum == Total(SubSeq(v.wsPendingWrites, 1, count))
<1>1. /\ v \in Worker /\ Loose(v) /\ Linked(v) /\ Known(v) /\ Passing(v) /\ Kept(v)
      /\ s \in WebSocket /\ Good(s) /\ s.arrived = v.ws.arrived /\ v.ws \in WebSocket
      /\ v.ending = "no"
  BY WorkerNats DEF WorkerInv, Loose, Written, Good, Shape, Open, Deferred
<1>2. FrameCount(s.pendingWrites) \in Nat /\ s.arrived >= v.ws.arrived
  <2>1. s.arrived \in Nat /\ FrameCount(s.pendingWrites) \in Nat
    BY <1>1, Types
  <2> QED BY <1>1, <2>1
<1>3. CASE count = 0
  <2>1. Steady(v.ws, s) /\ s.signals = <<>>
    BY <1>1, <1>2, <1>3 DEF Written, Steady, SameLink, SameConn
  <2>2. u = After(v, s)
    BY <2>1, EmitsNone
  <2> QED BY <2>1, <2>2, SteadyInv
<1>4. CASE count # 0
  <2>1. s.signals = <<Signal("framesWritten", count)>> /\ s.fault = "none"
    BY <1>1, <1>4 DEF Written, Good
  <2>2. u \in Slot(x, Signal("framesWritten", count))
    BY <1>1, <2>1, EmitsOne, SignalIn, Members
  <2>3. u = WsFramesWritten(x, count)
    BY <2>2, Slots
  <2>4. /\ x \in Worker /\ SameButWs(x, v)
        /\ x.ws \in WebSocket /\ x.ws # None /\ SameButSignals(x.ws, s)
        /\ x.ws.signals = <<>>
    BY <1>1, AfterFields
  <2>5. Begun(x) /\ Shape(x) /\ Moved(v, x)
    BY <1>1, <1>2, AfterBegun
  <2>6. /\ v.wsPendingWrites \in Seq(Nat)
        /\ Len(v.wsPendingWrites) = FrameCount(s.pendingWrites) + count
    BY <1>1, WorkerNats DEF Linked, Written
  <2>7. /\ rest \in Seq(Nat) /\ Len(rest) = FrameCount(s.pendingWrites)
        /\ SubSeq(v.wsPendingWrites, 1, count) \in Seq(Nat)
        /\ ~(count > Len(v.wsPendingWrites))
    <3>1. count \in 0..Len(v.wsPendingWrites)
      BY <1>2, <2>6
    <3>2. Len(v.wsPendingWrites) - count = FrameCount(s.pendingWrites)
      BY <1>2, <2>6
    <3> QED BY SMTT(30), <2>6, <3>1, <3>2, SubSeqProperties
  <2>8. sum \in Nat
    BY <2>7, TotalNat
  <2>9. /\ a \in Worker /\ SameHistory(a, x) /\ a.said = x.said + 1
        /\ a.state = x.state /\ a.ws = x.ws /\ a.timers = x.timers
        /\ a.updateTimer = x.updateTimer /\ a.arrived = x.arrived
        /\ a.ending = x.ending /\ a.outCredits = x.outCredits
        /\ a.stuffToRead = x.stuffToRead /\ a.wsClosed = x.wsClosed
        /\ a.wsPendingPeerClose = x.wsPendingPeerClose
        /\ a.wsPendingWrites = x.wsPendingWrites
    BY <2>4, WriteResponseFields
  <2>10. a.wsPendingWrites = v.wsPendingWrites
    BY <2>4, <2>9 DEF SameButWs
  <2>11. u = [a EXCEPT !.wsPendingWrites = rest, !.credited = @ + sum]
    <3>1. x.wsPendingWrites = v.wsPendingWrites
      BY <2>4 DEF SameButWs
    <3> HIDE DEF x
    <3>2. u = [a EXCEPT !.wsPendingWrites = SubSeq(@, count + 1, Len(@)),
                        !.credited = @ + sum]
      BY <2>3, <2>7, <3>1 DEF WsFramesWritten
    <3> QED BY <2>9, <2>10, <3>2 DEF Worker
  <2> HIDE DEF x, a, rest, sum
  <2>12. a.credited + sum \in Nat
    BY <2>8, <2>9, WorkerNats
  <2>13. u \in Worker
    BY <2>7, <2>9, <2>11, <2>12, ZenonT(60) DEF Worker
  <2>14. /\ SameHistory(u, a) /\ u.said = a.said
         /\ u.state = a.state /\ u.ws = a.ws /\ u.timers = a.timers
         /\ u.updateTimer = a.updateTimer /\ u.arrived = a.arrived
         /\ u.ending = a.ending /\ u.outCredits = a.outCredits
         /\ u.stuffToRead = a.stuffToRead /\ u.wsClosed = a.wsClosed
         /\ u.wsPendingPeerClose = a.wsPendingPeerClose
         /\ u.wsPendingWrites = rest
    BY <2>9, <2>11 DEF Worker, SameHistory
  <2>15. /\ SameHistory(u, v) /\ u.said = v.said + 1
         /\ u.state = v.state /\ u.ws = x.ws /\ u.timers = v.timers
         /\ u.updateTimer = v.updateTimer /\ u.arrived = v.arrived
         /\ u.ending = v.ending /\ u.outCredits = v.outCredits
         /\ u.stuffToRead = v.stuffToRead /\ u.wsClosed = v.wsClosed
         /\ u.wsPendingPeerClose = v.wsPendingPeerClose
    BY <2>4, <2>9, <2>14 DEF SameButWs, SameHistory
  <2>16. /\ u.ws.state = v.ws.state /\ u.ws.peerClosing = v.ws.peerClosing
         /\ u.ws.pendingWrites = s.pendingWrites
         /\ u.ws.in = v.ws.in /\ u.ws.arrived = v.ws.arrived
    BY <2>4, <2>15
       DEF Written, SameLink, SameButSignals, SameConn, SameRead, SameWrite
  <2>17. Sound(u.ws)
    BY <1>1, <2>4, <2>15, GoodSame DEF Sound
  <2>18. Linked(u)
    BY <1>1, <2>7, <2>14, <2>15, <2>16 DEF Linked, SameHistory
  <2>19. Kept(u) /\ ArrivedOf(u) = ArrivedOf(v)
    BY <1>1, <2>4, <2>15, <2>16 DEF Kept, ArrivedOf, SameHistory
  <2>20. Shape(u)
    BY <2>4, <2>5, <2>15 DEF Shape, SameButWs, Begun
  <2>21. Known(u) /\ Passing(u)
    BY <1>1, <2>15, <2>16 DEF Known, Passing
  <2>22. Moved(v, u)
    <3>1. ArrivedOf(v) \in Nat /\ v.said \in Nat
      BY <1>1, WorkerNats
    <3>2. ArrivedOf(u) >= ArrivedOf(v) /\ u.said >= v.said /\ v.ending # "closed"
      BY <1>1, <2>15, <2>19, <3>1
    <3> QED BY <1>1, <2>13, <2>15, <3>2, MovedSame DEF SameHistory
  <2>23. SameLink(u.ws, s)
    BY <2>4, <2>15 DEF SameLink, SameButSignals, SameConn, SameRead, SameBody
  <2> QED BY <2>13, <2>17, <2>18, <2>19, <2>20, <2>21, <2>22, <2>23 DEF WorkerInv, Loose
<1> QED BY <1>3, <1>4

\* The socket that both sides have closed is disconnected.
LEMMA LeavingLeads ==
  ASSUME NEW v, WorkerInv(v), v.ws # None, v.ws.sock = "leaving"
  PROVE  Leads(v, Disconnected(v.ws))
<1> DEFINE s == Disconnected(v.ws)
           x == After(v, s)
           p == [x EXCEPT !.wsPendingPeerClose = TRUE]
<1> SUFFICES ASSUME NEW u \in Emitted(v, s)
             PROVE  /\ WorkerInv(u) /\ Moved(v, u)
                    /\ u.ws # None => SameLink(u.ws, s)
  BY DEF Leads
<1>1. /\ v \in Worker /\ Loose(v) /\ Linked(v) /\ Known(v) /\ Passing(v) /\ Kept(v)
      /\ Good(v.ws) /\ v.ws.signals = <<>> /\ v.ws \in WebSocket /\ Shape(v)
  BY WorkerNats DEF WorkerInv, Loose, Sound
<1>2. v.ws.state = "Closing" /\ v.ws.peerClosing /\ ~v.ws.resolving
  <2>1. v.ws.state \in StateType
    BY <1>1 DEF WebSocket
  <2> QED BY <1>1, <2>1 DEF Good, ConnGood, StateType
<1>3. ~v.ws.readingBody /\ ~v.ws.pendingRead
  BY <1>1, <1>2 DEF Good, ReadGood, BodyGood
<1>4. /\ Good(s) /\ s.state = "Idle" /\ s.sock = "none"
      /\ s.peerClosing = v.ws.peerClosing /\ s.in = v.ws.in /\ s.arrived = v.ws.arrived
      /\ s.pendingWrites = v.ws.pendingWrites
      /\ s.signals = Append(v.ws.signals, Signal("closed", 0))
  BY <1>1, <1>2, <1>3, Disconnects DEF Good
<1> HIDE DEF s
<1>5. s.signals = <<Signal("closed", 0)>> /\ s \in WebSocket /\ s.fault = "none"
  <2>1. Append(<<>>, Signal("closed", 0)) = <<Signal("closed", 0)>>
    OBVIOUS
  <2> QED BY <1>1, <1>4, <2>1 DEF Good
<1>6. u = WsClosed(x)
  BY <1>1, <1>5, EmitsOne, SignalIn, Members, Slots
<1>7. s.arrived >= v.ws.arrived
  <2>1. v.ws.arrived \in Nat
    BY <1>1, Types
  <2> QED BY <1>4, <2>1
<1>8. /\ Begun(x) /\ Shape(x) /\ Moved(v, x)
      /\ v.state \in Open \cup {"CloseWait"} /\ v.ending = "no"
  BY <1>1, <1>5, <1>7, AfterBegun
<1>9. /\ x \in Worker /\ SameButWs(x, v)
      /\ x.ws \in WebSocket /\ x.ws # None /\ SameButSignals(x.ws, s)
      /\ x.ws.signals = <<>>
  BY <1>1, <1>5, AfterFields
<1> HIDE DEF x
<1>10. v.state \in {"Closing", "CloseWait"}
  BY <1>1, <1>2, <1>8 DEF Linked, Open
<1>11. CASE v.state = "CloseWait"
  <2>1. u = Finish(x, "closed")
    BY <1>6, <1>9, <1>11 DEF WsClosed, SameButWs
  <2>2. x.closes = 1
    BY <1>1, <1>9, <1>11 DEF Linked, SameButWs, SameHistory
  <2>3. Ended(x, u)
    BY <1>8, <2>1, <2>2, ClosedEnds
  <2>4. Moved(v, u)
    BY <1>1, <1>8, <1>9, <2>3, MovedTwice DEF Ended, WorkerInv, Loose
  <2> QED BY <2>3, <2>4 DEF Ended
<1>12. CASE v.state = "Closing"
  <2>1. u = WorkerDoUpdate(p)
    BY <1>6, <1>9, <1>12 DEF WsClosed, SameButWs
  <2>2. p \in Worker
    BY <1>9, WorkerMembers, ZenonT(60) DEF Worker
  <2>3. /\ p.wsPendingPeerClose /\ SameHistory(p, x) /\ p.said = x.said /\ p.state = x.state
        /\ p.ws = x.ws /\ p.timers = x.timers /\ p.arrived = x.arrived
        /\ p.ending = x.ending /\ p.outCredits = x.outCredits
        /\ p.wsClosed = x.wsClosed /\ p.wsPendingWrites = x.wsPendingWrites
        /\ p.updateTimer = x.updateTimer /\ p.stuffToRead = x.stuffToRead
    BY <1>9 DEF Worker, SameHistory
  <2>4. Sound(p.ws)
    BY <1>4, <1>5, <1>9, <2>3, GoodSame DEF Sound
  <2> HIDE DEF p
  <2>5. /\ p.ws.state = "Idle" /\ p.ws.pendingWrites = v.ws.pendingWrites
        /\ p.ws.in = v.ws.in /\ p.ws.arrived = v.ws.arrived
    BY <1>4, <1>9, <2>3 DEF SameButSignals, SameConn, SameRead, SameWrite
  <2>6. Linked(p)
    BY <1>1, <1>2, <1>9, <1>12, <2>3, <2>5 DEF Linked, SameButWs, SameHistory
  <2>7. Kept(p)
    BY <1>8, <2>3 DEF Begun, Kept, ArrivedOf, SameHistory
  <2>8. Shape(p)
    BY <1>8, <1>9, <1>12, <2>3 DEF Shape, SameButWs, Open, Deferred, Begun
  <2>9. Loose(p)
    BY <2>2, <2>4, <2>6, <2>7, <2>8 DEF Loose
  <2>10. x.ending = "no"
    BY <1>8 DEF Begun
  <2>11. Loose([x EXCEPT !.wsPendingPeerClose = TRUE])
    BY <2>9 DEF p
  <2>12. u = WorkerDoUpdate([x EXCEPT !.wsPendingPeerClose = TRUE])
    BY <2>1 DEF p
  <2>13. /\ Loose(u) /\ Moved(x, u)
         /\ u.ws # None => /\ SameLink(u.ws, x.ws) /\ Passing(u)
                           /\ Known(x) => Known(u)
    BY <1>9, <2>10, <2>11, <2>12, PendingGood
  <2>14. Known(x)
    BY <1>1, <1>4, <1>9 DEF Known, SameButWs, SameButSignals, SameRead
  <2>15. Moved(v, u)
    BY <1>1, <1>8, <1>9, <2>13, MovedTwice DEF Loose
  <2>16. SameLink(x.ws, s)
    BY <1>9 DEF SameLink, SameButSignals, SameConn, SameRead, SameBody
  <2> QED BY <2>13, <2>14, <2>15, <2>16 DEF WorkerInv, SameLink, SameConn, SameBody
<1> QED BY <1>10, <1>11, <1>12

----------------------------------------------------------------------------
\* Frames of the server: the slots of up to three signals run.

\* What a worker knows of its WebSocket f that has not received a close frame.
Waiting(v, f) ==
  /\ v.accepted /\ v.state \in {"Started", "Closing"} /\ v.closes = 0
  /\ v.state = "Started" => f.state = "Connected" /\ ~v.wsClosed /\ ~v.wsPendingPeerClose
  /\ v.state = "Closing" => f.state = "Closing" /\ v.wsClosed
  /\ Len(v.wsPendingWrites) = FrameCount(f.pendingWrites)
  /\ v.bytes + v.outCredits = v.granted
  /\ v.delivered + Len(f.in) = f.arrived

\* The worker x whose WebSocket f has taken n frames and found another.
Took(x, f, n, signal) ==
  /\ Begun(x) /\ Shape(x) /\ x.ws \in WebSocket /\ x.ws # None /\ x.ws.signals = <<>>
  /\ Frames(f, x.ws, n, signal)
  /\ Waiting(x, f) /\ f.arrived \in Nat /\ Len(f.in) \in Nat
  /\ n = 0 /\ signal # "error" => Known(x) /\ Passing(x)

LEMMA TookLinked ==
  ASSUME NEW x, NEW f, NEW n \in Nat, NEW signal \in Middle, Took(x, f, n, signal),
         signal # "error"
  PROVE  /\ signal = "none" => Loose(x)
         /\ signal \in {"peerClosing", "closed"} =>
              Loose([x EXCEPT !.wsPendingPeerClose = TRUE])
         /\ signal = "peerClosing" => x.state = "Started"
         /\ signal = "closed" => x.state = "Closing"
<1> DEFINE p == [x EXCEPT !.wsPendingPeerClose = TRUE]
<1>1. /\ x \in Worker /\ Kept(x) /\ Shape(x) /\ x.ws \in WebSocket /\ x.ws # None
      /\ Good(x.ws) /\ x.ws.signals = <<>> /\ Waiting(x, f) /\ x.ending = "no"
  BY DEF Took, Begun, Frames
<1>2. Sound(x.ws) /\ x.ws.pendingWrites = f.pendingWrites
      /\ x.delivered + Len(x.ws.in) = x.ws.arrived
  <2>1. Len(x.ws.in) = Len(f.in) + n /\ x.ws.arrived = f.arrived + n
        /\ x.ws.pendingWrites = f.pendingWrites
    BY DEF Took, Frames
  <2>2. x.delivered \in Nat /\ f.arrived \in Nat /\ Len(f.in) \in Nat
    BY <1>1, WorkerNats DEF Took
  <2> QED BY <1>1, <2>1, <2>2 DEF Waiting, Sound
<1>3. CASE signal = "none"
  <2>1. x.ws.state = f.state /\ (x.ws.peerClosing => f.state = "Closing")
    BY <1>3 DEF Took, Frames
  <2>2. x.wsPendingPeerClose \in BOOLEAN /\ x.ws.peerClosing \in BOOLEAN
    BY <1>1, WorkerNats, Types
  <2>3. Linked(x)
    BY <1>1, <1>2, <2>1, <2>2 DEF Waiting, Linked
  <2> QED BY <1>1, <1>2, <1>3, <2>3 DEF Loose
<1>4. CASE signal \in {"peerClosing", "closed"}
  <2>1. p \in Worker
    BY <1>1, WorkerMembers, ZenonT(60) DEF Worker
  <2>2. /\ p.wsPendingPeerClose /\ SameHistory(p, x) /\ p.said = x.said /\ p.state = x.state
        /\ p.ws = x.ws /\ p.timers = x.timers /\ p.arrived = x.arrived
        /\ p.ending = x.ending /\ p.outCredits = x.outCredits
        /\ p.wsClosed = x.wsClosed /\ p.wsPendingWrites = x.wsPendingWrites
        /\ p.updateTimer = x.updateTimer
    BY <1>1 DEF Worker, SameHistory
  <2> HIDE DEF p
  <2>3. /\ signal = "peerClosing" =>
             f.state = "Connected" /\ x.ws.state = "Connected" /\ x.ws.peerClosing
        /\ signal = "closed" =>
             f.state = "Closing" /\ x.ws.state = "Idle" /\ x.ws.peerClosing
    BY DEF Took, Frames
  <2>4. /\ signal = "peerClosing" => x.state = "Started"
        /\ signal = "closed" => x.state = "Closing"
    BY <1>1, <2>3 DEF Waiting
  <2>5. p.wsPendingPeerClose \in BOOLEAN /\ x.ws.peerClosing \in BOOLEAN
    BY <1>1, <2>1, WorkerNats, Types
  <2>6. Linked(p)
    BY <1>1, <1>2, <1>4, <2>2, <2>3, <2>4, <2>5 DEF Waiting, Linked, SameHistory
  <2>7. Kept(p)
    BY <1>1, <2>2 DEF Kept, ArrivedOf, SameHistory
  <2>8. Shape(p)
    BY <1>1, <2>2 DEF Waiting, Shape, Open, Deferred
  <2>9. Loose(p)
    BY <1>2, <2>1, <2>2, <2>6, <2>7, <2>8 DEF Loose
  <2> QED BY <1>4, <2>4, <2>9 DEF p
<1> QED BY <1>3, <1>4 DEF Middle

\* The slot of the signal of the frame behind the others, if there is one.
Midst(x, signal) == IF signal = "none" THEN {x} ELSE Slot(x, Signal(signal, 0))

\* Then that of readyRead.
Finally(y, n) ==
  IF n > 0 /\ y.ws # None /\ y.ws.fault = "none" THEN {WsReadyRead(y)} ELSE {y}

LEMMA MidstGood ==
  ASSUME NEW x, NEW f, NEW n \in Nat, NEW signal \in Middle, Took(x, f, n, signal),
         NEW y \in Midst(x, signal)
  PROVE  /\ Loose(y) /\ Moved(x, y)
         /\ y.ws # None => /\ SameLink(y.ws, x.ws)
                           /\ n = 0 => Known(y) /\ Passing(y)
<1>1. /\ x \in Worker /\ Begun(x) /\ x.ws \in WebSocket /\ x.ws # None /\ x.ending = "no"
      /\ SameLink(x.ws, x.ws)
  BY DEF Took, Begun, SameLink, SameConn, SameBody
<1>2. CASE signal = "none"
  <2>1. y = x
    BY <1>2 DEF Midst
  <2>2. Loose(x)
    BY <1>2, TookLinked
  <2>3. Moved(x, x)
    <3>1. ArrivedOf(x) >= ArrivedOf(x) /\ x.said >= x.said
      BY <1>1, WorkerNats
    <3> QED BY <1>1, <3>1, MovedSame
  <2> QED BY <1>1, <1>2, <2>1, <2>2, <2>3 DEF Took
<1>3. CASE signal = "error"
  <2>1. y = Finish(WriteResponse(x), "error")
    BY <1>3, Slots DEF Midst, RespondError
  <2>2. Ended(x, y)
    BY <1>1, <2>1, RespondEnds
  <2> QED BY <2>2 DEF Ended, WorkerInv
<1>4. CASE signal \in {"peerClosing", "closed"}
  <2>1. /\ Loose([x EXCEPT !.wsPendingPeerClose = TRUE])
        /\ signal = "peerClosing" => x.state = "Started"
        /\ signal = "closed" => x.state = "Closing"
    BY <1>4, TookLinked
  <2>2. y = WorkerDoUpdate([x EXCEPT !.wsPendingPeerClose = TRUE])
    <3>1. CASE signal = "peerClosing"
      <4>1. y = WsPeerClosing(x)
        BY <3>1, Slots DEF Midst
      <4> QED BY <2>1, <3>1, <4>1 DEF WsPeerClosing
    <3>2. CASE signal = "closed"
      <4>1. y = WsClosed(x)
        BY <3>2, Slots DEF Midst
      <4> QED BY <2>1, <3>2, <4>1 DEF WsClosed
    <3> QED BY <1>4, <3>1, <3>2
  <2>3. /\ Loose(y) /\ Moved(x, y)
        /\ y.ws # None => /\ SameLink(y.ws, x.ws) /\ Passing(y)
                          /\ Known(x) => Known(y)
    BY <1>1, <2>1, <2>2, PendingGood
  <2> QED BY <1>4, <2>3 DEF Took
<1> QED BY <1>2, <1>3, <1>4 DEF Middle

LEMMA TookGood ==
  ASSUME NEW x, NEW f, NEW n \in Nat, NEW signal \in Middle, Took(x, f, n, signal),
         NEW y \in Midst(x, signal), NEW u \in Finally(y, n)
  PROVE  /\ WorkerInv(u) /\ Moved(x, u)
         /\ u.ws # None => SameLink(u.ws, x.ws)
<1>1. /\ Loose(y) /\ Moved(x, y)
      /\ y.ws # None => /\ SameLink(y.ws, x.ws)
                        /\ n = 0 => Known(y) /\ Passing(y)
  BY MidstGood
<1>2. y.ws # None => y.ws.fault = "none"
  BY <1>1 DEF Loose, Sound, Good
<1>3. CASE y.ws = None \/ n = 0
  <2>1. u = y
    BY <1>3 DEF Finally
  <2> QED BY <1>1, <1>3, <2>1 DEF WorkerInv
<1>4. CASE y.ws # None /\ n # 0
  <2>1. u = WsReadyRead(y)
    BY <1>2, <1>4 DEF Finally
  <2>2. /\ WorkerInv(u) /\ Moved(y, u)
        /\ u.ws # None => SameLink(u.ws, y.ws)
    BY <1>1, <1>4, <2>1, ReadyReadGood
  <2>3. Moved(x, u)
    BY <1>1, <2>2, MovedTwice DEF WorkerInv, Loose, Took, Begun
  <2> QED BY <1>1, <1>4, <2>2, <2>3 DEF SameLink, SameConn, SameBody
<1> QED BY <1>3, <1>4

LEMMA RunOne ==
  ASSUME NEW x, x.ws # None, x.ws.fault = "none", NEW signal
  PROVE  RunSlots({x}, signal) = Slot(x, signal)
BY DEF RunSlots

\* The signals of a step that takes frames, in their order.
LEMMA TookEmits ==
  ASSUME NEW v, NEW s, NEW q \in Seq(SignalType), NEW x,
         E!Fold({After(v, s)}, q) = {x}, x.ws # None, x.ws.fault = "none",
         NEW n \in Nat, NEW signal \in Middle,
         s.signals = IF n > 0 THEN Append(Told(q, signal), Signal("readyRead", 0))
                              ELSE Told(q, signal),
         NEW u \in Emitted(v, s)
  PROVE  \E y \in Midst(x, signal) : u \in Finally(y, n)
<1> DEFINE R == {After(v, s)}
           told == Told(q, signal)
<1>1. Signal("readyRead", 0) \in SignalType
  BY SignalIn, Members
<1>2. told \in Seq(SignalType) /\ E!Fold(R, told) = Midst(x, signal)
  <2>1. CASE signal = "none"
    BY <2>1 DEF Told, Midst
  <2>2. CASE signal # "none"
    <3>1. Signal(signal, 0) \in SignalType
      BY <2>2, SignalIn, Members DEF Middle
    <3>2. told = Append(q, Signal(signal, 0))
      BY <2>2 DEF Told
    <3>3. told \in Seq(SignalType)
      BY <3>1, <3>2
    <3>4. E!Fold(R, told) = RunSlots(E!Fold(R, q), Signal(signal, 0))
      BY <3>1, <3>2, EmittedMore
    <3>5. E!Fold(R, told) = Slot(x, Signal(signal, 0))
      BY <3>4, RunOne
    <3> QED BY <2>2, <3>3, <3>5 DEF Midst
  <2> QED BY <2>1, <2>2
<1> HIDE DEF told
<1>3. CASE n > 0
  <2>1. s.signals = Append(told, Signal("readyRead", 0))
    BY <1>3 DEF told
  <2>2. PICK y \in E!Fold(R, told) :
            /\ y.ws = None \/ y.ws.fault # "none" => u = y
            /\ y.ws # None /\ y.ws.fault = "none" => u \in Slot(y, Signal("readyRead", 0))
    BY <1>1, <1>2, <2>1, EmitsMore
  <2>3. u \in Finally(y, n)
    BY <1>3, <2>2, Slots DEF Finally
  <2> QED BY <1>2, <2>2, <2>3
<1>4. CASE ~(n > 0)
  <2>1. s.signals = told
    BY <1>4 DEF told
  <2>2. u \in Midst(x, signal)
    BY <1>2, <2>1, EmittedFold
  <2>3. u \in Finally(u, n)
    BY <1>4 DEF Finally
  <2> QED BY <2>2, <2>3
<1> QED BY <1>3, <1>4

\* Frames arrive at an open WebSocket, or are read from its socket.
LEMMA TakingLeads ==
  ASSUME NEW v, WorkerInv(v), v.ws # None, ~v.ws.peerClosing,
         v.ws.state \in {"Connected", "Closing"}, NEW s, Taking(v.ws, s, <<>>)
  PROVE  Leads(v, s)
<1> SUFFICES ASSUME NEW u \in Emitted(v, s)
             PROVE  /\ WorkerInv(u) /\ Moved(v, u)
                    /\ u.ws # None => SameLink(u.ws, s)
  BY DEF Leads
<1> DEFINE x == After(v, s)
<1>1. /\ v \in Worker /\ Loose(v) /\ Linked(v) /\ Known(v) /\ Passing(v) /\ Kept(v)
      /\ v.ws \in WebSocket
  BY WorkerNats DEF WorkerInv, Loose
<1>2. PICK n \in Nat, signal \in Middle :
        /\ Frames(v.ws, s, n, signal)
        /\ s.signals = IF n > 0 THEN Append(Told(<<>>, signal), Signal("readyRead", 0))
                                ELSE Told(<<>>, signal)
  BY DEF Taking
<1>3. /\ s \in WebSocket /\ s.fault = "none" /\ s.arrived = v.ws.arrived + n
      /\ v.ws.arrived \in Nat /\ Len(v.ws.in) \in Nat
  <2>1. v.ws.in \in Seq(FrameType) /\ v.ws.arrived \in Nat
    BY <1>1, Types
  <2> QED BY <1>2, <2>1 DEF Frames
<1>4. s.arrived >= v.ws.arrived
  BY <1>3
<1>5. /\ Begun(x) /\ Shape(x) /\ Moved(v, x)
      /\ v.state \in Open \cup {"CloseWait"} /\ v.ending = "no"
  BY <1>1, <1>3, <1>4, AfterBegun
<1>6. /\ x \in Worker /\ SameButWs(x, v)
      /\ x.ws \in WebSocket /\ x.ws # None /\ SameButSignals(x.ws, s)
      /\ x.ws.signals = <<>>
  BY <1>1, <1>3, AfterFields
<1>7. E!Fold({After(v, s)}, <<>>) = {x}
  BY EmittedNone
<1>8. x.ws.fault = "none"
  BY <1>3, <1>6 DEF SameButSignals
<1>9. PICK y \in Midst(x, signal) : u \in Finally(y, n)
  <2>1. <<>> \in Seq(SignalType)
    OBVIOUS
  <2> QED BY <1>2, <1>6, <1>7, <1>8, <2>1, TookEmits
<1> HIDE DEF x
<1>10. Waiting(x, v.ws)
  <2>1. v.state \in {"Started", "Closing"}
    BY <1>1, <1>5 DEF Linked, Open
  <2>2. v.state = "Started" => ~v.wsPendingPeerClose
    BY <1>1 DEF Linked
  <2>3. v.closes = 0 /\ v.accepted
    BY <1>1, <2>1 DEF Linked
  <2> QED BY <1>1, <1>6, <2>1, <2>2, <2>3 DEF Waiting, Linked, SameButWs, SameHistory
<1>11. Frames(v.ws, x.ws, n, signal)
  <2>1. signal # "error" => Good(x.ws)
    <3>1. signal # "error" => Good(s)
      BY <1>2 DEF Frames
    <3> QED BY <1>3, <1>6, <3>1, GoodSame
  <2> QED BY <1>2, <1>6, <2>1
      DEF Frames, SameButSignals, SameConn, SameRead, SameWrite
<1>12. n = 0 /\ signal # "error" => Known(x) /\ Passing(x)
  <2>1. n = 0 /\ signal # "error" => x.ws.in = v.ws.in
    BY <1>11 DEF Frames
  <2> QED BY <1>1, <1>6, <2>1 DEF Known, Passing, SameButWs
<1>13. Took(x, v.ws, n, signal)
  BY <1>3, <1>5, <1>6, <1>10, <1>11, <1>12 DEF Took
<1>14. /\ WorkerInv(u) /\ Moved(x, u)
       /\ u.ws # None => SameLink(u.ws, x.ws)
  BY <1>9, <1>13, TookGood
<1>15. Moved(v, u)
  BY <1>1, <1>5, <1>6, <1>14, MovedTwice DEF WorkerInv, Loose
<1>16. SameLink(x.ws, s)
  BY <1>6 DEF SameLink, SameButSignals, SameConn, SameRead, SameBody
<1> QED BY <1>14, <1>15, <1>16 DEF SameLink, SameConn, SameBody

\* The server accepts.
LEMMA UpgradedLeads ==
  ASSUME NEW v, WorkerInv(v), v.ws # None, v.ws.state = "Connecting",
         NEW s, Upgraded(v.ws, s)
  PROVE  Leads(v, s)
<1> SUFFICES ASSUME NEW u \in Emitted(v, s)
             PROVE  /\ WorkerInv(u) /\ Moved(v, u)
                    /\ u.ws # None => SameLink(u.ws, s)
  BY DEF Leads
<1> DEFINE c == Signal("connected", 0)
           a == After(v, s)
           b == WriteResponse(a)
           x == WsConnected(a)
<1>1. /\ v \in Worker /\ Loose(v) /\ Linked(v) /\ Known(v) /\ Passing(v) /\ Kept(v)
      /\ v.ws \in WebSocket /\ Good(v.ws)
  BY WorkerNats DEF WorkerInv, Loose, Sound
<1>2. PICK f : /\ Taking(f, s, <<c>>)
               /\ f.state = "Connected" /\ f.in = v.ws.in /\ f.arrived = v.ws.arrived
               /\ f.pendingWrites = v.ws.pendingWrites
  BY DEF Upgraded
<1>3. PICK n \in Nat, signal \in Middle :
        /\ Frames(f, s, n, signal)
        /\ s.signals = IF n > 0 THEN Append(Told(<<c>>, signal), Signal("readyRead", 0))
                                ELSE Told(<<c>>, signal)
  BY <1>2 DEF Taking
<1>4. /\ s \in WebSocket /\ s.fault = "none" /\ s.arrived = v.ws.arrived + n
      /\ v.ws.arrived \in Nat /\ Len(v.ws.in) \in Nat
  <2>1. v.ws.in \in Seq(FrameType) /\ v.ws.arrived \in Nat
    BY <1>1, Types
  <2> QED BY <1>2, <1>3, <2>1 DEF Frames
<1>5. s.arrived >= v.ws.arrived
  BY <1>4
<1>6. /\ Begun(a) /\ Shape(a) /\ ArrivedOf(a) = s.arrived
      /\ v.state \in Open \cup {"CloseWait"} /\ v.ending = "no"
  BY <1>1, <1>4, <1>5, AfterBegun
<1>7. /\ a \in Worker /\ SameButWs(a, v)
      /\ a.ws \in WebSocket /\ a.ws # None /\ SameButSignals(a.ws, s)
      /\ a.ws.signals = <<>>
  BY <1>1, <1>4, AfterFields
<1>8. v.state = "Started" /\ v.accepted = FALSE /\ v.closes = 0 /\ v.delivered = 0
      /\ v.ws.in = <<>> /\ v.ws.arrived = 0 /\ ~v.wsPendingPeerClose /\ ~v.wsClosed
  <2>1. v.state = "Started"
    BY <1>1, <1>6 DEF Linked, Open
  <2>2. v.ws.in = <<>> /\ v.ws.arrived = 0 /\ ~v.ws.peerClosing
    BY <1>1 DEF Good, ConnGood
  <2>3. v.accepted \in BOOLEAN /\ v.delivered \in Nat
    BY <1>1, WorkerNats
  <2> QED BY <1>1, <2>1, <2>2, <2>3 DEF Linked
<1>9. E!Fold({After(v, s)}, <<c>>) = {x}
  <2>1. c \in SignalType
    BY SignalIn, Members
  <2>2. E!Fold({a}, <<c>>) = RunSlots({a}, c)
    BY <2>1, EmittedOne
  <2>3. a.ws.fault = "none"
    BY <1>4, <1>7 DEF SameButSignals
  <2>4. RunSlots({a}, c) = Slot(a, c)
    BY <1>7, <2>3, RunOne
  <2> QED BY <2>2, <2>4, Slots
<1>10. /\ b \in Worker /\ SameHistory(b, a) /\ b.said = a.said + 1
       /\ b.state = a.state /\ b.ws = a.ws /\ b.timers = a.timers
       /\ b.updateTimer = a.updateTimer /\ b.arrived = a.arrived
       /\ b.ending = a.ending /\ b.outCredits = a.outCredits
       /\ b.stuffToRead = a.stuffToRead /\ b.wsClosed = a.wsClosed
       /\ b.wsPendingPeerClose = a.wsPendingPeerClose
       /\ b.wsPendingWrites = a.wsPendingWrites
  BY <1>7, WriteResponseFields
<1>11. x = [b EXCEPT !.accepted = TRUE, !.credited = @ + SessionBufferSize]
  BY DEF WsConnected
<1> HIDE DEF a, b, x
<1>12. b.credited + SessionBufferSize \in Nat
  BY <1>10, WorkerNats, ClientAssumption
<1>13. x \in Worker
  BY <1>10, <1>11, <1>12, WorkerMembers, ZenonT(60) DEF Worker
<1>14. /\ x.accepted /\ x.said = b.said /\ x.req = b.req /\ x.delivered = b.delivered
       /\ x.bytes = b.bytes /\ x.closes = b.closes /\ x.granted = b.granted
       /\ x.state = b.state /\ x.ws = b.ws /\ x.timers = b.timers
       /\ x.updateTimer = b.updateTimer /\ x.arrived = b.arrived
       /\ x.ending = b.ending /\ x.outCredits = b.outCredits
       /\ x.stuffToRead = b.stuffToRead /\ x.wsClosed = b.wsClosed
       /\ x.wsPendingPeerClose = b.wsPendingPeerClose
       /\ x.wsPendingWrites = b.wsPendingWrites
  BY <1>10, <1>11 DEF Worker
<1>15. /\ x.accepted /\ x.said = v.said + 1 /\ x.delivered = v.delivered
       /\ x.bytes = v.bytes /\ x.closes = v.closes /\ x.granted = v.granted
       /\ x.state = v.state /\ x.ws = a.ws /\ x.timers = v.timers
       /\ x.updateTimer = v.updateTimer
       /\ x.ending = v.ending /\ x.outCredits = v.outCredits
       /\ x.stuffToRead = v.stuffToRead /\ x.wsClosed = v.wsClosed
       /\ x.wsPendingPeerClose = v.wsPendingPeerClose
       /\ x.wsPendingWrites = v.wsPendingWrites
  BY <1>7, <1>10, <1>14 DEF SameButWs, SameHistory
<1>16. x.ws \in WebSocket /\ x.ws # None /\ x.ws.signals = <<>> /\ x.ws.fault = "none"
       /\ SameButSignals(x.ws, s)
  BY <1>4, <1>7, <1>15 DEF SameButSignals
<1>17. ArrivedOf(x) = s.arrived /\ ArrivedOf(v) = v.ws.arrived
  BY <1>16 DEF ArrivedOf, SameButSignals, SameRead
<1>18. PICK y \in Midst(x, signal) : u \in Finally(y, n)
  <2>1. <<c>> \in Seq(SignalType)
    <3>1. c \in SignalType
      BY SignalIn, Members
    <3> QED BY <3>1
  <2> QED BY <1>3, <1>9, <1>16, <2>1, TookEmits
<1>19. Waiting(x, f)
  BY <1>1, <1>2, <1>8, <1>15 DEF Waiting, Linked
<1>20. Frames(f, x.ws, n, signal)
  <2>1. signal # "error" => Good(x.ws)
    <3>1. signal # "error" => Good(s)
      BY <1>3 DEF Frames
    <3> QED BY <1>4, <1>16, <3>1, GoodSame
  <2> QED BY <1>3, <1>16, <2>1
      DEF Frames, SameButSignals, SameConn, SameRead, SameWrite
<1>21. n = 0 /\ signal # "error" => Known(x) /\ Passing(x)
  <2>1. n = 0 /\ signal # "error" => x.ws.in = v.ws.in
    BY <1>2, <1>20 DEF Frames
  <2> QED BY <1>1, <1>15, <2>1 DEF Known, Passing
<1>22. Kept(x)
  <2>1. 0 <= s.arrived /\ v.bytes <= v.granted
    BY <1>1, <1>4 DEF Kept
  <2> QED BY <1>8, <1>15, <1>17, <2>1 DEF Kept
<1>23. Begun(x) /\ Shape(x)
  BY <1>6, <1>8, <1>13, <1>15, <1>16, <1>22 DEF Begun, Shape, Open, Deferred
<1>24. Took(x, f, n, signal)
  BY <1>2, <1>4, <1>16, <1>19, <1>20, <1>21, <1>23 DEF Took
<1>25. Moved(v, x)
  <2>1. Due(x) = Due(v) + 1
    <3>1. Due(x) = 0 + 0 + 1 + 0 /\ Due(v) = 0 + 0 + 0 + 0
      BY <1>6, <1>8, <1>15 DEF Due
    <3> QED BY <3>1
  <2>2. v.said \in Nat /\ Due(v) \in Nat /\ v.granted \in Nat /\ v.bytes \in Nat
    BY <1>1, WorkerNats
  <2> QED BY <1>4, <1>5, <1>6, <1>8, <1>15, <1>17, <2>1, <2>2 DEF Moved
<1>26. /\ WorkerInv(u) /\ Moved(x, u)
       /\ u.ws # None => SameLink(u.ws, x.ws)
  BY <1>18, <1>24, TookGood
<1>27. Moved(v, u)
  BY <1>1, <1>13, <1>25, <1>26, MovedTwice DEF WorkerInv, Loose
<1>28. SameLink(x.ws, s)
  BY <1>16 DEF SameLink, SameButSignals, SameConn, SameRead, SameBody
<1> QED BY <1>26, <1>27, <1>28 DEF SameLink, SameConn, SameBody

----------------------------------------------------------------------------
\* Worker::start and Worker::write.

LEMMA StartWebSocketGood ==
  ASSUME NEW m \in Optional
  PROVE  LET s == StartWebSocket(m)
         IN  /\ Sound(s) /\ s.state = "Connecting" /\ s.sock = "none" /\ ~s.peerClosing
             /\ s.in = <<>> /\ s.arrived = 0 /\ FrameCount(s.pendingWrites) = 0
<1> DEFINE n == NewWebSocket(m)
           s == StartWebSocket(m)
<1>1. n \in WebSocket
  BY Members, ZenonT(60) DEF NewWebSocket, WebSocket
<1>2. /\ n.sock = "none" /\ n.in = <<>> /\ n.arrived = 0 /\ n.net = <<>>
      /\ n.pendingWrites = <<>> /\ n.unwritten = 0 /\ n.body = 0
      /\ n.fault = "none" /\ n.signals = <<>>
  BY DEF NewWebSocket
<1>3. s = TryConnect(n)
  BY DEF StartWebSocket
<1> HIDE DEF n, s
<1>4. /\ s \in WebSocket
      /\ s.state = "Connecting" /\ s.resolving /\ ~s.peerClosing
      /\ ~s.readingBody /\ ~s.pendingRead /\ s.inbuf = <<>>
      /\ s.sock = n.sock /\ s.in = n.in /\ s.arrived = n.arrived /\ s.net = n.net
      /\ SameWrite(s, n) /\ s.body = n.body
      /\ s.fault = n.fault /\ s.signals = n.signals
  BY <1>1, <1>3, ConnectFields
<1>5. s.pendingWrites = <<>> /\ s.unwritten = 0 /\ Len(s.pendingWrites) = 0
  BY <1>2, <1>4 DEF SameWrite
<1>6. FrameCount(s.pendingWrites) = 0 /\ Bytes(s.pendingWrites) = 0
  BY <1>5, FrameEmpty, BytesEmpty
<1>7. ConnGood(s) /\ ReadGood(s) /\ BodyGood(s)
  BY <1>2, <1>4, <1>6 DEF ConnGood, ReadGood, BodyGood
<1>8. WriteGood(s)
  BY <1>2, <1>4, <1>5, <1>6 DEF WriteGood
<1> QED BY <1>2, <1>4, <1>6, <1>7, <1>8 DEF Sound, Good, s

LEMMA NewWorkerGood ==
  ASSUME NEW req \in ZRequest
  PROVE  NewWorker(req) \in Worker /\ WorkerInv(NewWorker(req))
<1> DEFINE v == NewWorker(req)
<1>1. v \in Worker
  <2>1. <<>> \in Seq(Nat) /\ 0 \in Nat /\ "no" \in Endings /\ "NotStarted" \in WorkerState
    BY DEF Endings, WorkerState
  <2> QED BY <2>1, WorkerMembers, ZenonT(60) DEF NewWorker, Worker
<1>2. /\ v.req = req /\ v.state = "NotStarted" /\ v.ws = None /\ v.timers = {}
      /\ ~v.updateTimer /\ v.ending = "no" /\ v.delivered = 0 /\ v.bytes = 0
      /\ v.closes = 0 /\ v.granted = 0 /\ v.arrived = 0
  BY DEF NewWorker
<1>3. v = NewWorker(v.req)
  BY <1>2
<1> HIDE DEF v
<1>4. Kept(v)
  BY <1>2 DEF Kept, ArrivedOf
<1>5. Shape(v)
  BY <1>2, <1>3 DEF Shape, Open, Deferred
<1> QED BY <1>1, <1>2, <1>4, <1>5 DEF WorkerInv, Loose, v

LEMMA StartGood ==
  ASSUME NEW req \in ZRequest
  PROVE  LET v == NewWorker(req)
             u == WorkerStart(v, req)
         IN  /\ WorkerInv(u) /\ Moved(v, u)
             /\ u.ws # None => u.ws.state = "Connecting" /\ u.ws.sock = "none"
<1> DEFINE v == NewWorker(req)
           s == [v EXCEPT !.state = "Started"]
           ws == StartWebSocket(req.maxRedirects)
           credits == IF req.credits # -1 THEN req.credits ELSE 0
           u == WorkerStart(v, req)
<1>1. v \in Worker /\ WorkerInv(v)
  BY NewWorkerGood
<1>2. /\ v.req = req /\ v.ws = None /\ v.timers = {}
      /\ ~v.updateTimer /\ v.ending = "no" /\ v.delivered = 0 /\ v.bytes = 0
      /\ v.closes = 0 /\ v.granted = 0 /\ v.arrived = 0 /\ v.said = 0
      /\ ~v.accepted /\ ~v.wsClosed /\ ~v.wsPendingPeerClose /\ ~v.stuffToRead
      /\ v.wsPendingWrites = <<>>
  BY DEF NewWorker
<1>3. u = IF ~req.valid THEN Defer(s, "Error")
          ELSE [s EXCEPT !.ws = ws, !.timers = Timers,
                         !.outCredits = credits, !.granted = credits]
  BY DEF WorkerStart
<1> HIDE DEF v
<1>4. s \in Worker
  BY <1>1, WorkerMembers, ZenonT(60) DEF Worker
<1>5. /\ s.state = "Started" /\ s.ws = v.ws /\ s.timers = v.timers
      /\ s.updateTimer = v.updateTimer /\ s.ending = v.ending /\ s.arrived = v.arrived
      /\ SameHistory(s, v) /\ s.said = v.said /\ s.wsClosed = v.wsClosed
      /\ s.wsPendingPeerClose = v.wsPendingPeerClose /\ s.stuffToRead = v.stuffToRead
      /\ s.wsPendingWrites = v.wsPendingWrites
  BY <1>1 DEF Worker, SameHistory
<1> HIDE DEF s
<1>6. Kept(s) /\ ArrivedOf(s) = 0
  BY <1>2, <1>5 DEF Kept, ArrivedOf, SameHistory
<1>7. CASE ~req.valid
  <2>1. u = Defer(s, "Error")
    BY <1>3, <1>7
  <2>2. Begun(s)
    BY <1>2, <1>4, <1>5, <1>6 DEF Begun
  <2>3. Ended(s, u)
    BY <2>1, <2>2, DeferEnds DEF Deferred
  <2>4. Moved(v, s)
    <3>1. ArrivedOf(s) >= ArrivedOf(v) /\ s.said >= v.said
      BY <1>2, <1>5, <1>6 DEF ArrivedOf
    <3> QED BY <1>1, <1>2, <1>4, <1>5, <3>1, MovedSame DEF SameHistory
  <2>5. Moved(v, u)
    BY <1>1, <1>4, <2>3, <2>4, MovedTwice DEF Ended, WorkerInv, Loose
  <2> QED BY <2>3, <2>5 DEF Ended, v, u
<1>8. CASE req.valid
  <2>1. u = [s EXCEPT !.ws = ws, !.timers = Timers,
                      !.outCredits = credits, !.granted = credits]
    BY <1>3, <1>8
  <2>2. req.maxRedirects \in Optional /\ credits \in Nat
    BY RequestAssumption DEF ZRequestType, Optional
  <2>3. /\ Sound(ws) /\ ws.state = "Connecting" /\ ws.sock = "none" /\ ~ws.peerClosing
        /\ ws.in = <<>> /\ ws.arrived = 0 /\ FrameCount(ws.pendingWrites) = 0
    BY <2>2, StartWebSocketGood
  <2> HIDE DEF ws, credits, u
  <2>4. ws \in WebSocket /\ ws # None
    BY <2>3, NoneAssumption DEF Sound, Good
  <2>5. u \in Worker
    BY <1>4, <2>1, <2>2, <2>4, WorkerMembers, ZenonT(60) DEF Worker
  <2>6. /\ u.ws = ws /\ u.outCredits = credits /\ u.granted = credits
        /\ u.state = "Started" /\ u.updateTimer = s.updateTimer /\ u.ending = s.ending
        /\ u.said = s.said /\ u.wsClosed = s.wsClosed /\ u.delivered = s.delivered
        /\ u.bytes = s.bytes /\ u.closes = s.closes /\ u.accepted = s.accepted
        /\ u.wsPendingPeerClose = s.wsPendingPeerClose /\ u.stuffToRead = s.stuffToRead
        /\ u.wsPendingWrites = s.wsPendingWrites
    BY <1>4, <1>5, <2>1 DEF Worker
  <2>7. /\ u.ws = ws /\ u.outCredits = credits /\ u.granted = credits
        /\ ~u.updateTimer /\ u.ending = "no"
        /\ u.said = 0 /\ ~u.wsClosed /\ u.delivered = 0
        /\ u.bytes = 0 /\ u.closes = 0 /\ ~u.accepted
        /\ ~u.wsPendingPeerClose /\ ~u.stuffToRead
        /\ u.wsPendingWrites = <<>>
    BY <1>2, <1>5, <2>6 DEF SameHistory
  <2>8. Linked(u)
    <3>1. u.bytes + u.outCredits = u.granted
      BY <2>2, <2>7
    <3>2. u.delivered + Len(ws.in) = ws.arrived /\ Len(u.wsPendingWrites) = 0
      BY <2>3, <2>7
    <3> QED BY <2>3, <2>6, <2>7, <3>1, <3>2 DEF Linked
  <2>9. Kept(u) /\ ArrivedOf(u) = 0
    BY <2>2, <2>3, <2>4, <2>7 DEF Kept, ArrivedOf
  <2>10. Shape(u)
    BY <2>4, <2>6, <2>7 DEF Shape, Open, Deferred
  <2>11. Known(u) /\ Passing(u)
    BY <2>3, <2>7 DEF Known, Passing
  <2>12. Moved(v, u)
    <3>1. Due(v) = 0 /\ Due(u) = 0
      BY <1>2, <2>7 DEF Due
    <3>2. ArrivedOf(v) = 0
      BY <1>2 DEF ArrivedOf
    <3> QED BY <1>2, <2>2, <2>7, <2>9, <3>1, <3>2 DEF Moved
  <2>13. WorkerInv(u)
    BY <2>3, <2>5, <2>7, <2>8, <2>9, <2>10, <2>11 DEF WorkerInv, Loose
  <2> QED BY <2>3, <2>7, <2>12, <2>13 DEF u, v
<1> QED BY <1>7, <1>8

\* The WebSocket of a client that has spoken, or has sent its close frame.
Spoken(r, s) ==
  \/ SameLink(r, s)
  \/ /\ s.state = "Connected" /\ s.sock = "up" /\ r.state = "Closing"
     /\ r.sock \in {"up", "leaving"} /\ r.peerClosing = s.peerClosing
     /\ r.net = s.net /\ r.inbuf = s.inbuf

\* A worker in the middle of Worker::write, after the credits of the message
\* were counted.
Hearing(v, credits) ==
  /\ Loose(v) /\ v.ws # None /\ Known(v)
  /\ credits = -1 => Passing(v)
  /\ v.state \in Open /\ v.wsPendingPeerClose => v.stuffToRead

LEMMA CreditsGood ==
  ASSUME NEW v, WorkerInv(v), v.state \in Open, NEW credits \in Optional
  PROVE  LET gained == IF credits # -1 THEN credits ELSE 0
             s == [v EXCEPT !.outCredits = @ + gained, !.granted = @ + gained]
         IN  /\ Hearing(s, credits) /\ Moved(v, s) /\ s.ws = v.ws /\ s.state = v.state
             /\ s.wsClosed = v.wsClosed /\ s.accepted = v.accepted
<1> DEFINE gained == IF credits # -1 THEN credits ELSE 0
           out == v.outCredits + gained
           granted == v.granted + gained
           s == [v EXCEPT !.outCredits = @ + gained, !.granted = @ + gained]
<1>1. /\ v \in Worker /\ Loose(v) /\ Kept(v) /\ Shape(v) /\ v.ws # None /\ Linked(v)
      /\ Known(v) /\ Passing(v) /\ v.ending = "no" /\ Sound(v.ws)
  BY DEF WorkerInv, Loose, Shape, Open
<1>2. gained \in Nat
  BY DEF Optional
<1> HIDE DEF gained
<1>3. out \in Nat /\ granted \in Nat /\ v.outCredits \in Nat /\ v.granted \in Nat
      /\ v.bytes \in Nat
  BY <1>1, <1>2, WorkerNats
<1>4. s = [v EXCEPT !.outCredits = out, !.granted = granted]
  BY <1>1 DEF Worker
<1>5. v.bytes + out = granted /\ v.bytes <= granted /\ granted >= v.granted
  <2>1. v.bytes + v.outCredits = v.granted /\ v.bytes <= v.granted
    BY <1>1 DEF Linked, Kept
  <2> QED BY <1>2, <1>3, <2>1
<1> HIDE DEF out, granted, s
<1>6. s \in Worker
  BY <1>1, <1>3, <1>4, ZenonT(60) DEF Worker
<1>7. /\ s.outCredits = out /\ s.granted = granted /\ s.said = v.said /\ s.state = v.state
      /\ s.ws = v.ws /\ s.timers = v.timers /\ s.arrived = v.arrived
      /\ s.ending = v.ending /\ s.wsClosed = v.wsClosed
      /\ s.wsPendingPeerClose = v.wsPendingPeerClose
      /\ s.wsPendingWrites = v.wsPendingWrites /\ s.accepted = v.accepted
      /\ s.updateTimer = v.updateTimer /\ s.stuffToRead = v.stuffToRead
      /\ s.delivered = v.delivered /\ s.bytes = v.bytes /\ s.closes = v.closes
  BY <1>1, <1>4 DEF Worker
<1>8. Linked(s)
  BY <1>1, <1>5, <1>7 DEF Linked
<1>9. Kept(s) /\ ArrivedOf(s) = ArrivedOf(v)
  BY <1>1, <1>5, <1>7 DEF Kept, ArrivedOf
<1>10. Shape(s)
  BY <1>1, <1>7 DEF Shape, Open
<1>11. Known(s)
  BY <1>1, <1>7 DEF Known
<1>12. credits = -1 => Passing(s)
  <2>1. credits = -1 => out = v.outCredits
    BY <1>3 DEF out, gained
  <2> QED BY <1>1, <1>7, <2>1 DEF Passing
<1>13. s.state \in Open /\ s.wsPendingPeerClose => s.stuffToRead
  BY <1>1, <1>7 DEF Passing
<1>14. Moved(v, s)
  <2>1. ArrivedOf(v) \in Nat /\ v.said \in Nat /\ Due(v) \in Nat /\ v.delivered \in Nat
        /\ v.closes \in Nat
    BY <1>1, WorkerNats
  <2>2. Due(s) = Due(v)
    BY <1>7 DEF Due
  <2> QED BY <1>1, <1>3, <1>5, <1>7, <1>9, <2>1, <2>2 DEF Moved
<1> QED BY <1>1, <1>6, <1>7, <1>8, <1>9, <1>10, <1>11, <1>12, <1>13, <1>14
        DEF Hearing, Loose, s, gained

\* A frame of n bytes is given to the WebSocket.
Given(v, n, uploaded) ==
  [v EXCEPT !.ws = WriteFrame(v.ws, n), !.uploaded = uploaded,
            !.wsPendingWrites = Append(v.wsPendingWrites, n)]

LEMMA PassToServerGood ==
  ASSUME NEW v, NEW credits, Hearing(v, credits), v.state \in Open, ~v.wsClosed, v.accepted,
         NEW type \in {"data", "ping", "close"}, NEW size \in Nat
  PROVE  LET u == PassToServer(v, type, size)
         IN  Hearing(u, credits) /\ Moved(v, u) /\ Spoken(u.ws, v.ws)
<1> DEFINE u == PassToServer(v, type, size)
<1>1. /\ v \in Worker /\ Kept(v) /\ Shape(v) /\ v.ws # None /\ Linked(v) /\ Sound(v.ws)
      /\ Good(v.ws) /\ v.ending = "no" /\ Known(v) /\ (credits = -1 => Passing(v))
      /\ v.wsPendingPeerClose => v.stuffToRead
  BY DEF Hearing, Loose, Shape, Open, Sound
<1>2. v.state \in {"Started", "PeerClosing"} /\ v.ws.state = "Connected" /\ v.ws.sock = "up"
  <2>1. v.state \in {"Started", "PeerClosing"} /\ v.ws.state = "Connected"
    BY <1>1 DEF Linked, Open
  <2> QED BY <1>1, <2>1 DEF Good, ConnGood
<1> SUFFICES Hearing(u, credits) /\ Moved(v, u) /\ Spoken(u.ws, v.ws)
  OBVIOUS
<1> HIDE DEF u
<1>3. ASSUME NEW n \in Nat, NEW uploaded \in Nat, u = Given(v, n, uploaded)
      PROVE  Hearing(u, credits) /\ Moved(v, u) /\ Spoken(u.ws, v.ws)
  <2> DEFINE r == WriteFrame(v.ws, n)
             pending == Append(v.wsPendingWrites, n)
  <2>1. /\ Good(r) /\ SameLink(r, v.ws) /\ r.in = v.ws.in /\ r.arrived = v.ws.arrived
        /\ FrameCount(r.pendingWrites) = FrameCount(v.ws.pendingWrites) + 1
        /\ r.signals = v.ws.signals
    BY <1>1, <1>2, <1>3, WriteFrameGood
  <2>2. v.wsPendingWrites \in Seq(Nat) /\ r \in WebSocket /\ r # None
    BY <1>1, <2>1, WorkerNats, NoneAssumption DEF Good
  <2>3. pending \in Seq(Nat) /\ Len(pending) = FrameCount(r.pendingWrites)
    BY <1>1, <2>1, <2>2 DEF Linked
  <2>4. u = [v EXCEPT !.ws = r, !.uploaded = uploaded, !.wsPendingWrites = pending]
    BY <1>1, <1>3 DEF Given
  <2> HIDE DEF pending, r
  <2>5. u \in Worker
    BY <1>1, <2>2, <2>3, <2>4, WorkerMembers, ZenonT(60) DEF Worker
  <2>6. /\ u.ws = r /\ u.wsPendingWrites = pending
        /\ SameHistory(u, v) /\ u.said = v.said /\ u.state = v.state
        /\ u.timers = v.timers /\ u.arrived = v.arrived /\ u.ending = v.ending
        /\ u.outCredits = v.outCredits /\ u.wsClosed = v.wsClosed
        /\ u.wsPendingPeerClose = v.wsPendingPeerClose
        /\ u.updateTimer = v.updateTimer /\ u.stuffToRead = v.stuffToRead
    BY <1>1, <2>4 DEF Worker, SameHistory
  <2>7. Linked(u)
    BY <1>1, <2>1, <2>3, <2>6 DEF Linked, SameHistory, SameLink, SameConn
  <2>8. Kept(u) /\ ArrivedOf(u) = ArrivedOf(v)
    BY <1>1, <2>1, <2>2, <2>6 DEF Kept, ArrivedOf, SameHistory
  <2>9. Shape(u)
    BY <1>1, <1>2, <2>2, <2>6 DEF Shape, Open
  <2>10. Known(u) /\ (credits = -1 => Passing(u))
    BY <1>1, <2>1, <2>6 DEF Known, Passing
  <2>11. Moved(v, u)
    <3>1. ArrivedOf(u) >= ArrivedOf(v) /\ u.said >= v.said
      BY <1>1, <2>6, <2>8, WorkerNats
    <3> QED BY <1>1, <2>5, <2>6, <3>1, MovedSame DEF SameHistory
  <2>12. Sound(r)
    BY <1>1, <2>1 DEF Sound
  <2> QED BY <1>1, <2>1, <2>2, <2>5, <2>6, <2>7, <2>8, <2>9, <2>10, <2>11, <2>12
          DEF Hearing, Loose, Spoken
<1>4. CASE type = "data"
  <2>1. u = Given(v, size, v.uploaded + size)
    BY <1>1, <1>4 DEF PassToServer, Given, Worker, u
  <2>2. v.uploaded + size \in Nat
    BY <1>1, WorkerNats
  <2> QED BY <1>3, <2>1, <2>2
<1>5. CASE type = "ping"
  <2>1. u = [v EXCEPT !.ws = WriteFrame(v.ws, 0), !.wsPendingWrites = Append(@, 0)]
    BY <1>1, <1>5 DEF PassToServer, Worker, u
  <2>2. v.uploaded \in Nat /\ 0 \in Nat
    BY <1>1, WorkerNats
  <2>3. u = Given(v, 0, v.uploaded)
    BY <1>1, <2>1 DEF Given, Worker
  <2> QED BY <1>3, <2>2, <2>3
<1>6. CASE type = "close"
  <2> DEFINE r == Close(v.ws)
             state == IF v.state = "Started" THEN "Closing" ELSE "CloseWait"
  <2>1. u = [v EXCEPT !.ws = r, !.wsClosed = TRUE, !.state = state]
    BY <1>1, <1>6 DEF PassToServer, Worker, u
  <2>2. /\ Good(r) /\ r.state = "Closing" /\ r.peerClosing = v.ws.peerClosing
        /\ r.sock \in {"up", "leaving"} /\ r.net = v.ws.net /\ r.inbuf = v.ws.inbuf
        /\ r.in = v.ws.in /\ r.arrived = v.ws.arrived
        /\ FrameCount(r.pendingWrites) = FrameCount(v.ws.pendingWrites)
        /\ r.signals = <<>>
    BY <1>1, <1>2, CloseGood DEF Sound
  <2>3. r \in WebSocket /\ r # None /\ Sound(r) /\ state \in {"Closing", "CloseWait"}
    BY <2>2, NoneAssumption DEF Good, Sound
  <2> HIDE DEF r
  <2>4. u \in Worker
    <3>1. state \in WorkerState
      BY <2>3, WorkerMembers
    <3> QED BY <1>1, <2>1, <2>3, <3>1, WorkerMembers, ZenonT(60) DEF Worker
  <2>5. /\ u.ws = r /\ u.state = state /\ u.wsClosed
        /\ u.wsPendingWrites = v.wsPendingWrites
        /\ SameHistory(u, v) /\ u.said = v.said
        /\ u.timers = v.timers /\ u.arrived = v.arrived /\ u.ending = v.ending
        /\ u.outCredits = v.outCredits
        /\ u.wsPendingPeerClose = v.wsPendingPeerClose
        /\ u.updateTimer = v.updateTimer /\ u.stuffToRead = v.stuffToRead
    BY <1>1, <2>1 DEF Worker, SameHistory
  <2>6. Linked(u)
    <3>1. CASE v.state = "Started"
      BY <1>1, <2>2, <2>5, <3>1 DEF Linked, SameHistory
    <3>2. CASE v.state = "PeerClosing"
      BY <1>1, <2>2, <2>5, <3>2 DEF Linked, SameHistory
    <3> QED BY <1>2, <3>1, <3>2
  <2>7. Kept(u) /\ ArrivedOf(u) = ArrivedOf(v)
    BY <1>1, <2>2, <2>3, <2>5 DEF Kept, ArrivedOf, SameHistory
  <2>8. Shape(u)
    BY <1>1, <2>3, <2>5 DEF Shape, Open, Deferred
  <2>9. Known(u) /\ (credits = -1 => Passing(u))
    BY <1>1, <1>2, <2>2, <2>5 DEF Known, Passing, Open
  <2>10. Moved(v, u)
    <3>1. ArrivedOf(u) >= ArrivedOf(v) /\ u.said >= v.said
      BY <1>1, <2>5, <2>7, WorkerNats
    <3> QED BY <1>1, <2>4, <2>5, <3>1, MovedSame DEF SameHistory
  <2>11. Spoken(u.ws, v.ws)
    BY <1>2, <2>2, <2>5 DEF Spoken
  <2> QED BY <1>1, <2>3, <2>4, <2>5, <2>6, <2>7, <2>8, <2>9, <2>10, <2>11
          DEF Hearing, Loose
<1> QED BY <1>4, <1>5, <1>6

\* New credits wake up what waits for them.
LEMMA ResumeGood ==
  ASSUME NEW v, NEW credits \in Optional, Hearing(v, credits)
  PROVE  LET u == Resume(v, credits)
         IN  WorkerInv(u) /\ Moved(v, u) /\ u.ws = v.ws
<1> DEFINE u == Resume(v, credits)
<1>1. v \in Worker /\ Loose(v) /\ v.ws # None /\ Known(v) /\ v.ending = "no"
  BY DEF Hearing, Loose, Shape, Open, Deferred
<1>2. CASE credits # -1 /\ v.stuffToRead
  <2>1. u = [v EXCEPT !.updateTimer = TRUE]
    BY <1>2 DEF Resume, Update
  <2>2. u \in Worker /\ SameWork(u, v) /\ u.updateTimer = TRUE /\ u.stuffToRead = v.stuffToRead
    BY <1>1, <2>1, TimerSet
  <2> HIDE DEF u
  <2>3. Loose(u) /\ Moved(v, u)
    BY <1>1, <2>2, SameWorkLoose
  <2>4. Known(u) /\ Passing(u)
    BY <1>1, <1>2, <2>2 DEF Known, Passing, SameWork
  <2> QED BY <2>2, <2>3, <2>4 DEF WorkerInv, SameWork, u
<1>3. CASE ~(credits # -1 /\ v.stuffToRead)
  <2>1. u = v
    BY <1>3 DEF Resume
  <2>2. Passing(v)
    BY <1>3 DEF Hearing, Passing
  <2>3. Moved(v, v)
    <3>1. ArrivedOf(v) >= ArrivedOf(v) /\ v.said >= v.said
      BY <1>1, WorkerNats
    <3> QED BY <1>1, <3>1, MovedSame
  <2> QED BY <1>1, <2>1, <2>2, <2>3 DEF WorkerInv
<1> QED BY <1>2, <1>3

LEMMA WriteGoodWorker ==
  ASSUME NEW v, WorkerInv(v), v.ending = "no", v.state # "NotStarted",
         NEW inSequence \in BOOLEAN, NEW type \in {"data", "ping", "close", "cancel", "other"},
         NEW size \in Nat, NEW credits \in Optional,
         type \in {"data", "ping", "close"} => v.accepted
  PROVE  LET u == WorkerWrite(v, inSequence, type, size, credits)
         IN  /\ WorkerInv(u) /\ Moved(v, u)
             /\ u.ws # None => v.ws # None /\ Spoken(u.ws, v.ws)
<1> DEFINE gained == IF credits # -1 THEN credits ELSE 0
           s == [v EXCEPT !.outCredits = @ + gained, !.granted = @ + gained]
           p == PassToServer(s, type, size)
           u == WorkerWrite(v, inSequence, type, size, credits)
<1>1. v \in Worker /\ Loose(v) /\ Begun(v)
  BY DEF WorkerInv, Loose, Begun
<1>2. u = IF v.state \notin Open THEN v
          ELSE IF ~inSequence THEN Defer(v, IF type = "cancel" THEN "Finished" ELSE "Cancel")
          ELSE IF type = "cancel" THEN Defer(v, "Finished")
          ELSE IF type = "other" THEN Resume(s, credits)
          ELSE IF s.wsClosed THEN Defer(s, "Error")
          ELSE Resume(p, credits)
  BY DEF WorkerWrite
<1> HIDE DEF u
<1>3. CASE v.state \notin Open
  <2>1. u = v
    BY <1>2, <1>3
  <2>2. Moved(v, v)
    <3>1. ArrivedOf(v) >= ArrivedOf(v) /\ v.said >= v.said
      BY <1>1, WorkerNats
    <3> QED BY <1>1, <3>1, MovedSame
  <2>3. Spoken(v.ws, v.ws)
    BY DEF Spoken, SameLink, SameConn, SameBody
  <2> QED BY <2>1, <2>2, <2>3 DEF u
<1>4. CASE v.state \in Open /\ (~inSequence \/ type = "cancel")
  <2>1. \E state \in Deferred : u = Defer(v, state)
    BY <1>2, <1>4 DEF Deferred
  <2>2. Ended(v, u)
    BY <1>1, <2>1, DeferEnds
  <2> QED BY <2>2 DEF Ended, u
<1>5. CASE v.state \in Open /\ inSequence /\ type # "cancel"
  <2>1. /\ Hearing(s, credits) /\ Moved(v, s) /\ s.ws = v.ws /\ s.state = v.state
        /\ s.wsClosed = v.wsClosed /\ s.accepted = v.accepted
    BY <1>5, CreditsGood, Zenon
  <2>2. u = IF type = "other" THEN Resume(s, credits)
            ELSE IF s.wsClosed THEN Defer(s, "Error")
            ELSE Resume(p, credits)
    BY <1>2, <1>5
  <2> HIDE DEF s
  <2>3. s \in Worker /\ s.ws # None /\ v.ws # None /\ Spoken(v.ws, v.ws)
    BY <2>1 DEF Hearing, Loose, Spoken, SameLink, SameConn, SameBody
  <2>4. CASE type = "other"
    <3>1. WorkerInv(u) /\ Moved(s, u) /\ u.ws = s.ws
      BY <2>1, <2>2, <2>4, ResumeGood
    <3>2. Moved(v, u)
      BY <1>1, <2>1, <2>3, <3>1, MovedTwice DEF WorkerInv, Loose
    <3> QED BY <2>1, <2>3, <3>1, <3>2 DEF u
  <2>5. CASE type # "other" /\ s.wsClosed
    <3>1. u = Defer(s, "Error")
      BY <2>2, <2>5
    <3>2. Begun(s)
      BY <2>1, <2>3, <1>5 DEF Hearing, Loose, Begun, Shape, Open
    <3>3. Ended(s, u)
      BY <3>1, <3>2, DeferEnds DEF Deferred
    <3>4. Moved(v, u)
      BY <1>1, <2>1, <2>3, <3>3, MovedTwice DEF Ended, WorkerInv, Loose
    <3> QED BY <3>3, <3>4 DEF Ended, u
  <2>6. CASE type # "other" /\ ~s.wsClosed
    <3>1. type \in {"data", "ping", "close"} /\ s.accepted /\ s.state \in Open
      BY <1>5, <2>1, <2>6
    <3>2. Hearing(p, credits) /\ Moved(s, p) /\ Spoken(p.ws, s.ws)
      BY <2>1, <2>6, <3>1, PassToServerGood
    <3>3. u = Resume(p, credits)
      BY <2>2, <2>6
    <3> HIDE DEF p
    <3>4. WorkerInv(u) /\ Moved(p, u) /\ u.ws = p.ws
      BY <3>2, <3>3, ResumeGood
    <3>5. Moved(s, u)
      BY <2>3, <3>2, <3>4, MovedTwice DEF WorkerInv, Hearing, Loose
    <3>6. Moved(v, u)
      BY <1>1, <2>1, <2>3, <3>4, <3>5, MovedTwice DEF WorkerInv, Loose
    <3> QED BY <2>1, <2>3, <3>2, <3>4, <3>6 DEF u
  <2> QED BY <2>4, <2>5, <2>6
<1> QED BY <1>3, <1>4, <1>5

----------------------------------------------------------------------------
(***************************************************************************)
(* The session: what the WebSocket expects of the server that it is        *)
(* connected to, and the steps.                                            *)
(***************************************************************************)

\* A server that has not answered is waited for; one that sends a body is
\* read as such; one that sends frames has sent no close frame yet.
Served(s, srv) ==
  s.sock \in {"up", "leaving"} =>
    /\ srv.phase = "silent" => s.state = "Connecting"
    /\ srv.phase = "body" => s.state = "Connecting" /\ s.readingBody
    /\ srv.phase = "upgraded" =>
         /\ Clear(s)
         /\ s.state = "Connecting" => s.readingBody /\ ~s.chunked

Counts ==
  /\ server \in [phase : {"silent", "body", "upgraded", "closed"}, left : Nat]
  /\ frames \in 0..MaxFrames /\ writes \in 0..MaxWrites
  /\ keepAlives \in 0..MaxKeepAlives

WInv == WorkerInv(w) /\ (w.ws # None => Served(w.ws, server)) /\ Counts

\* What every step does.
Step == /\ WorkerInv(w') /\ Moved(w, w') /\ w.ending = "no"
        /\ w'.ws # None => Served(w'.ws, server')

LEMMA ServedSame ==
  ASSUME NEW r, NEW s, SameLink(r, s), NEW srv, Served(s, srv)
  PROVE  Served(r, srv)
BY DEF SameLink, SameConn, SameBody, Served, Clear

LEMMA ServedSpoken ==
  ASSUME NEW r, NEW s, Spoken(r, s), NEW srv, Served(s, srv)
  PROVE  Served(r, srv)
<1>1. CASE SameLink(r, s)
  BY <1>1, ServedSame
<1>2. CASE ~SameLink(r, s)
  BY <1>2 DEF Spoken, Served, Clear
<1> QED BY <1>1, <1>2

\* A session that has a WebSocket.
LEMMA HasWs ==
  ASSUME NEW v, WorkerInv(v), v.ws # None
  PROVE  /\ v.ending = "no" /\ v.state # "NotStarted" /\ Begun(v) /\ Sound(v.ws)
         /\ v.ws \in WebSocket /\ v \in Worker
<1>1. Loose(v) /\ v \in Worker /\ Kept(v) /\ Shape(v) /\ Sound(v.ws)
  BY DEF WorkerInv, Loose
<1>2. v.state \in Open \cup {"CloseWait"}
  BY <1>1 DEF Shape
<1>3. v.state # "NotStarted" /\ v.ending = "no"
  BY <1>1, <1>2 DEF Shape, Open
<1> QED BY <1>1, <1>3 DEF Begun, Sound, Good

LEMMA EmitStep ==
  ASSUME WInv, w.ws # None, NEW s, Leads(w, s), w' \in Emitted(w, s),
         Served(s, server')
  PROVE  Step
<1>1. WorkerInv(w') /\ Moved(w, w') /\ (w'.ws # None => SameLink(w'.ws, s))
  BY DEF Leads
<1>2. w'.ws # None => Served(w'.ws, server')
  BY <1>1, ServedSame
<1> QED BY <1>1, <1>2, HasWs DEF Step, WInv

LEMMA WsEmits ==
  ASSUME WInv, NEW s, w.ws # None, WebSocketStep(s), Leads(w, s), Served(s, server')
  PROVE  Step
BY EmitStep DEF WebSocketStep

\* A step in which the worker and its socket keep what ties them to the server.
LEMMA QuietStep ==
  ASSUME WInv, w.ending = "no", WorkerInv(w'), Moved(w, w'), server' = server,
         w'.ws # None => w.ws # None /\ Spoken(w'.ws, w.ws)
  PROVE  Step
<1>1. w'.ws # None => Served(w'.ws, server')
  BY ServedSpoken DEF WInv
<1> QED BY <1>1 DEF Step

LEMMA StartStep == WInv /\ ClientStart => Step
<1> SUFFICES ASSUME WInv, ClientStart PROVE Step
  OBVIOUS
<1>1. Loose(w) /\ w \in Worker /\ Shape(w) /\ w.state = "NotStarted"
  BY DEF WInv, WorkerInv, Loose, ClientStart
<1>2. w = NewWorker(w.req) /\ w.req \in ZRequest /\ w.ending = "no"
  BY <1>1 DEF Shape, Worker
<1>3. w' = WorkerStart(w, w.req)
  BY DEF ClientStart
<1>4. /\ WorkerInv(w') /\ Moved(w, w')
      /\ w'.ws # None => w'.ws.state = "Connecting" /\ w'.ws.sock = "none"
  BY <1>2, <1>3, StartGood
<1> QED BY <1>2, <1>4 DEF Step, Served

LEMMA WriteStep ==
  ASSUME Ordinary, WInv, NEW inSequence \in BOOLEAN,
         NEW type \in {"data", "ping", "close", "cancel", "other"}, NEW size \in Nat,
         NEW credits \in Optional, ClientWrite(inSequence, type, size, credits)
  PROVE  Step
<1>1. /\ w.state # "NotStarted" /\ w.ending = "no" /\ server' = server
      /\ type \in {"data", "ping", "close"} => w.accepted
      /\ w' = WorkerWrite(w, inSequence, type, size, credits)
  BY DEF ClientWrite, Ordinary
<1>2. /\ WorkerInv(w') /\ Moved(w, w')
      /\ w'.ws # None => w.ws # None /\ Spoken(w'.ws, w.ws)
  BY <1>1, WriteGoodWorker DEF WInv
<1> QED BY <1>1, <1>2, QuietStep

LEMMA ReturnStep == WInv /\ ClientReturnsCredits => Step
<1> SUFFICES ASSUME WInv, ClientReturnsCredits PROVE Step
  OBVIOUS
<1> DEFINE owed == w.bytes + (IF w.req.credits = -1 THEN 0 ELSE w.req.credits) - w.granted
<1>1. /\ w.state \in Open /\ owed > 0 /\ w' = WorkerWrite(w, TRUE, "other", 0, owed)
      /\ server' = server
  BY DEF ClientReturnsCredits
<1>2. w \in Worker /\ Shape(w)
  BY DEF WInv, WorkerInv, Loose
<1>3. w.req.credits \in Optional
  BY <1>2, RequestAssumption DEF Worker, ZRequestType
<1>4. owed \in Nat
  BY <1>1, <1>2, <1>3, WorkerNats DEF Optional
<1>5. owed \in Optional
  BY <1>4 DEF Optional
<1>6. w.state # "NotStarted" /\ w.ending = "no"
  BY <1>1, <1>2 DEF Shape, Open
<1> HIDE DEF owed
<1>7. /\ WorkerInv(w') /\ Moved(w, w')
      /\ w'.ws # None => w.ws # None /\ Spoken(w'.ws, w.ws)
  BY ZenonT(30), <1>1, <1>5, <1>6, WriteGoodWorker DEF WInv
<1> QED BY <1>1, <1>6, <1>7, QuietStep

LEMMA UpdateStep == WInv /\ DoUpdate => Step
<1> SUFFICES ASSUME WInv, DoUpdate PROVE Step
  OBVIOUS
<1>1. w.updateTimer /\ w' = WorkerDoUpdate(w) /\ server' = server
  BY DEF DoUpdate
<1>2. Loose(w) /\ Shape(w) /\ (w.ws # None => Known(w))
  BY DEF WInv, WorkerInv, Loose
<1>3. w.ending = "no" /\ w.state # "NotStarted"
  BY <1>1, <1>2 DEF Shape
<1>4. /\ Loose(w') /\ Moved(w, w')
      /\ w'.ws # None => w.ws # None /\ SameLink(w'.ws, w.ws) /\ Passing(w') /\ Known(w')
  BY <1>1, <1>2, <1>3, DoUpdateGood
<1> QED BY <1>1, <1>3, <1>4, QuietStep DEF WorkerInv, Spoken

----------------------------------------------------------------------------
\* The timers run only while there is a WebSocket.
LEMMA TimerRuns ==
  ASSUME WInv, NEW t \in w.timers
  PROVE  w.ws # None /\ Begun(w)
<1>1. Shape(w)
  BY DEF WInv, WorkerInv, Loose
<1>2. w.ws # None
  BY <1>1 DEF Shape
<1> QED BY <1>2, HasWs DEF WInv

LEMMA ExpireStep == WInv /\ ExpireTimeout => Step
<1> SUFFICES ASSUME WInv, ExpireTimeout PROVE Step
  OBVIOUS
<1>1. Begun(w)
  BY TimerRuns DEF ExpireTimeout
<1>2. WorkerInv(w') /\ Moved(w, w') /\ w'.ws = None
  BY <1>1, SilentEnds DEF ExpireTimeout, Ended
<1> QED BY <1>1, <1>2 DEF Step, Begun

LEMMA ActivityStep == WInv /\ ActivityTimeout => Step
<1> SUFFICES ASSUME WInv, ActivityTimeout PROVE Step
  OBVIOUS
<1>1. Begun(w)
  BY TimerRuns DEF ActivityTimeout
<1>2. WorkerInv(w') /\ Moved(w, w') /\ w'.ws = None
  BY <1>1, RespondEnds DEF ActivityTimeout, RespondError, Ended
<1> QED BY <1>1, <1>2 DEF Step, Begun

LEMMA KeepAliveStep == WInv /\ KeepAliveTimeout => Step
<1> SUFFICES ASSUME WInv, KeepAliveTimeout PROVE Step
  OBVIOUS
<1>1. w.ws # None /\ Begun(w) /\ WorkerInv(w) /\ w \in Worker
  BY TimerRuns, HasWs DEF KeepAliveTimeout, WInv
<1>2. w' = WriteResponse(w) /\ server' = server
  BY DEF KeepAliveTimeout
<1>3. /\ w' \in Worker /\ SameHistory(w', w) /\ w'.said = w.said + 1
      /\ w'.state = w.state /\ w'.ws = w.ws /\ w'.timers = w.timers
      /\ w'.updateTimer = w.updateTimer /\ w'.arrived = w.arrived
      /\ w'.ending = w.ending /\ w'.outCredits = w.outCredits
      /\ w'.stuffToRead = w.stuffToRead /\ w'.wsClosed = w.wsClosed
      /\ w'.wsPendingPeerClose = w.wsPendingPeerClose
      /\ w'.wsPendingWrites = w.wsPendingWrites
  BY <1>1, <1>2, WriteResponseFields
<1>4. ArrivedOf(w') = ArrivedOf(w)
  BY <1>3 DEF ArrivedOf
<1>5. Moved(w, w')
  <2>1. w.ending = "no" /\ w.said \in Nat
    BY <1>1, WorkerNats DEF Begun
  <2>2. w'.ending # "closed" /\ w'.said >= w.said /\ ArrivedOf(w') >= ArrivedOf(w)
    BY <1>3, <1>4, <2>1, <1>1, WorkerNats
  <2> QED BY <1>1, <1>3, <2>1, <2>2, MovedSame DEF SameHistory
<1>6. Kept(w') /\ Shape(w')
  BY <1>1, <1>3, <1>4 DEF Kept, Shape, SameHistory, WorkerInv, Loose, Begun
<1>7. Linked(w') /\ Known(w') /\ Passing(w') /\ Sound(w'.ws)
  BY <1>1, <1>3 DEF WorkerInv, Loose, Linked, Known, Passing, SameHistory
<1>8. WorkerInv(w')
  BY <1>3, <1>6, <1>7 DEF WorkerInv, Loose
<1>9. Spoken(w'.ws, w.ws)
  BY <1>3 DEF Spoken, SameLink, SameConn, SameBody
<1> QED BY <1>1, <1>2, <1>5, <1>8, <1>9, QuietStep DEF Begun

\* Frames do not lead back to a handshake.
LEMMA TakingOpen ==
  ASSUME NEW s, s.state \in {"Connected", "Closing"}, NEW r, NEW q, Taking(s, r, q)
  PROVE  r.sock \in {"up", "leaving"} => r.state # "Connecting"
<1> PICK n \in Nat, signal \in Middle : Frames(s, r, n, signal)
  BY DEF Taking
<1> QED BY DEF Frames, Middle

----------------------------------------------------------------------------
\* The socket and its event loop.
LEMMA ResolveStep == WInv /\ Resolve => Step
<1> SUFFICES ASSUME WInv, Resolve PROVE Step
  OBVIOUS
<1>1. /\ w.ws # None /\ WorkerInv(w) /\ Good(w.ws) /\ w.ws.signals = <<>> /\ w.ws.resolving
      /\ w \in Worker
  BY HasWs DEF Resolve, HasSocket, WInv, Sound
<1>2. ASSUME NEW s, Carries(w.ws, s), s.sock \in {"none", "connecting"}, WebSocketStep(s)
      PROVE  Step
  <2>1. Leads(w, s)
    BY <1>1, <1>2, CarriesLeads
  <2>2. Served(s, server')
    BY <1>2 DEF Served
  <2> QED BY <1>1, <1>2, <2>1, <2>2, WsEmits
<1>3. CASE WebSocketStep(ResolverError(w.ws))
  BY <1>1, <1>2, <1>3, ResolverFails
<1>4. ASSUME NEW n \in 1..MaxAddrs, WebSocketStep(ResolverResultsReady(w.ws, n))
      PROVE  Step
  <2>1. n \in Nat
    BY BoundAssumption
  <2> QED BY <1>1, <1>2, <1>4, <2>1, ResultsReady
<1> QED BY <1>3, <1>4 DEF Resolve

LEMMA ConnectsStep == WInv /\ Connects => Step
<1> SUFFICES ASSUME WInv, Connects PROVE Step
  OBVIOUS
<1> DEFINE s == SockConnected(w.ws)
<1>1. /\ w.ws # None /\ WorkerInv(w) /\ Good(w.ws) /\ w.ws.signals = <<>>
      /\ w.ws.sock = "connecting" /\ server' = Unconnected
  BY HasWs DEF Connects, HasSocket, WInv, Sound
<1>2. Carries(w.ws, s) /\ s.state = "Connecting"
  BY <1>1, Handshakes
<1>3. WebSocketStep(s)
  BY DEF Connects
<1> HIDE DEF s
<1>4. Served(s, server')
  BY <1>1, <1>2 DEF Served, Unconnected
<1> QED BY <1>1, <1>2, <1>3, <1>4, CarriesLeads, WsEmits

LEMMA BytesStep ==
  ASSUME WInv, w.ws # None, NEW bytes \in 1..w.ws.unwritten, BytesWritten(bytes)
  PROVE  Step
<1> DEFINE s == SockBytesWritten(w.ws, bytes)
<1>1. /\ WorkerInv(w) /\ Good(w.ws) /\ w.ws.signals = <<>>
      /\ w.ws.sock \in {"up", "leaving"} /\ server' = server /\ WebSocketStep(s)
  BY HasWs DEF BytesWritten, HasSocket, WInv, Sound
<1>2. PICK count \in Nat : Written(w.ws, s, count)
  BY <1>1, BytesWrittenGood
<1> HIDE DEF s
<1>3. Leads(w, s)
  BY <1>1, <1>2, WrittenLeads
<1>4. Served(s, server')
  BY <1>1, <1>2, ServedSame DEF Written, WInv
<1> QED BY <1>1, <1>3, <1>4, WsEmits

LEMMA FailsStep ==
  ASSUME Ordinary, WInv, NEW e \in {"refused", "tls", "closed", "other"}, Fails(e)
  PROVE  Step
<1> DEFINE s == SockError(w.ws, e)
<1>1. /\ w.ws # None /\ WorkerInv(w) /\ Good(w.ws) /\ w.ws.signals = <<>>
      /\ server'.phase = "closed" /\ WebSocketStep(s)
  BY HasWs DEF Fails, HasSocket, WInv, Sound
<1>2. /\ w.ws.sock # "none"
      /\ w.ws.addrs > 0 => /\ w.ws.state # "Closing"
                           /\ ~(w.ws.unwritten > 0 /\ w.ws.state = "Connecting" /\ e # "tls")
  <2>1. w.ws.sock \in {"connecting", "up", "leaving"}
    BY DEF Fails, FailsIn
  <2> QED BY <2>1 DEF Fails, Ordinary
<1>3. Carries(w.ws, s)
  BY <1>1, <1>2, ErrorCarries
<1> HIDE DEF s
<1>4. Leads(w, s)
  BY <1>1, <1>3, CarriesLeads
<1>5. Served(s, server')
  BY <1>1 DEF Served
<1> QED BY <1>1, <1>4, <1>5, WsEmits

LEMMA DisconnectsStep == WInv /\ SocketDisconnects => Step
<1> SUFFICES ASSUME WInv, SocketDisconnects PROVE Step
  OBVIOUS
<1> DEFINE s == Disconnected(w.ws)
<1>1. /\ w.ws # None /\ WorkerInv(w) /\ w.ws \in WebSocket /\ Good(w.ws)
      /\ w.ws.sock = "leaving" /\ WebSocketStep(s)
  BY HasWs DEF SocketDisconnects, HasSocket, WInv, Sound
<1>2. Leads(w, s)
  BY <1>1, LeavingLeads
<1>3. Served(s, server')
  <2>1. Cleanup(w.ws).sock = "none" /\ Cleanup(w.ws) \in WebSocket
    BY <1>1, CleanupSame
  <2> DEFINE c == [Cleanup(w.ws) EXCEPT !.state = "Idle"]
  <2>2. c \in WebSocket /\ c.sock = "none"
    BY <2>1, Members DEF WebSocket
  <2> HIDE DEF c
  <2>3. s.sock = "none"
    BY <2>2, EmitFields, Members DEF c, Disconnected, SameButSignals, SameConn
  <2> QED BY <2>3 DEF Served
<1> HIDE DEF s
<1> QED BY <1>1, <1>2, <1>3, WsEmits

LEMMA TryReadStep == WInv /\ QueuedTryRead => Step
<1> SUFFICES ASSUME WInv, QueuedTryRead PROVE Step
  OBVIOUS
<1> DEFINE s == TryRead(w.ws)
<1>1. /\ w.ws # None /\ WorkerInv(w) /\ Good(w.ws) /\ w.ws.signals = <<>>
      /\ w.ws.pendingRead /\ server' = server /\ WebSocketStep(s)
  BY HasWs DEF QueuedTryRead, HasSocket, WInv, Sound
<1>2. w.ws.state \in {"Connected", "Closing"} /\ ~w.ws.peerClosing
  BY <1>1 DEF Good, ReadGood
<1>3. Listening(w.ws)
  BY <1>1, <1>2 DEF Listening, Good
<1>4. Taking(w.ws, s, <<>>) /\ (Clear(w.ws) => s.sock = "none" \/ Clear(s))
  BY <1>3, ReadTakes
<1>5. w.ws.sock = "up"
  BY <1>1, <1>2 DEF Good, ConnGood
<1> HIDE DEF s
<1>6. Leads(w, s)
  BY <1>1, <1>2, <1>4, TakingLeads
<1>7. Served(s, server')
  BY <1>1, <1>2, <1>4, <1>5, TakingOpen DEF WInv, Served
<1> QED BY <1>1, <1>6, <1>7, WsEmits

----------------------------------------------------------------------------
\* The server.

\* What arrives together, when no close frame has others behind it.
LEMMA BatchTypes ==
  ASSUME NEW batch \in Batches \cup {<<>>}
  PROVE  batch \in Seq(FrameType) /\ batch \in Seq(Item)
<1>1. batch \in Seq(FrameType)
  BY ServerAssumption, Members
<1> QED BY <1>1, SeqOfItems

LEMMA BatchClose ==
  ASSUME Ordinary, NEW batch \in Batches \cup {<<>>}, HasClose(batch)
  PROVE  batch # <<>> /\ Last(batch).op = "close"
<1>1. batch \in Seq(FrameType)
  BY BatchTypes
<1>2. PICK i \in 1..Len(batch) : batch[i].op = "close"
  BY DEF HasClose
<1>3. Len(batch) \in Nat /\ batch # <<>>
  BY <1>1, <1>2
<1>4. batch \in Batches
  BY <1>3
<1>5. i = Len(batch)
  BY <1>1, <1>2, <1>3, <1>4 DEF Ordinary
<1> QED BY <1>2, <1>3, <1>5 DEF Last

LEMMA PieceTypes ==
  ASSUME Ordinary, NEW pieces \in Bodies \cup {<<>>}
  PROVE  pieces \in Seq(Whole) /\ pieces \in Seq(Item)
<1>1. pieces \in Seq(PieceType)
  <2>1. <<>> \in Seq(PieceType)
    OBVIOUS
  <2> QED BY <2>1, ServerAssumption
<1>2. \A i \in 1..Len(pieces) : pieces[i] \in Whole
  <2>1. CASE pieces \in Bodies
    BY <1>1, <2>1 DEF Ordinary, Whole
  <2>2. CASE pieces = <<>>
    BY <2>2
  <2> QED BY <2>1, <2>2
<1>3. Len(pieces) \in Nat /\ pieces = [i \in 1..Len(pieces) |-> pieces[i]]
  BY <1>1
<1>4. pieces \in [1..Len(pieces) -> Whole]
  BY <1>2, <1>3
<1>5. pieces \in Seq(Whole)
  BY <1>3, <1>4
<1> QED BY <1>1, <1>5, SeqOfItems

LEMMA ArrivesEmits ==
  ASSUME WInv, NEW items, Arrives(items), Leads(w, SockReadyRead(w.ws, items)),
         Served(SockReadyRead(w.ws, items), server')
  PROVE  Step
BY EmitStep DEF Arrives, HasSocket

\* The socket of a server that speaks is open.
LEMMA ArrivesUp ==
  ASSUME WInv, NEW items, Arrives(items)
  PROVE  /\ w.ws # None /\ WorkerInv(w) /\ Good(w.ws) /\ w.ws.signals = <<>>
         /\ w.ws \in WebSocket /\ w.ws.sock \in {"up", "leaving"} /\ Served(w.ws, server)
BY HasWs DEF Arrives, HasSocket, WInv, Sound

\* A body that is read goes on.
LEMMA ReadingSocket ==
  ASSUME NEW s, Good(s), s.signals = <<>>, s.sock \in {"up", "leaving"},
         s.state = "Connecting", s.readingBody
  PROVE  Reading(s)
<1>1. ConnGood(s) /\ ReadGood(s) /\ WriteGood(s) /\ BodyGood(s) /\ s \in WebSocket
  BY DEF Good
<1>2. s.sock = "up"
  BY <1>1 DEF ConnGood
<1>3. s.code = "reject" /\ s.body <= BodyMax /\ (~s.chunked /\ s.length # -1 => s.body <= s.length)
  BY <1>1 DEF BodyGood
<1> QED BY <1>1, <1>2, <1>3 DEF Reading, Good, Redirections

\* A WebSocket that waits for its handshake has read no frame.
LEMMA ConnectingClear ==
  ASSUME NEW s, Good(s), s.state = "Connecting"
  PROVE  Clear(s)
<1>1. s.net = <<>> /\ s.inbuf = <<>> /\ ~s.peerClosing
  BY DEF Good, ConnGood, ReadGood
<1> QED BY <1>1 DEF Clear, HasClose

\* A WebSocket that fails takes the session with it.
LEMMA CarriesStep ==
  ASSUME WInv, w.ws # None, NEW s, Carries(w.ws, s), w' \in Emitted(w, s),
         Good(s) => Served(s, server')
  PROVE  Step
<1>1. WorkerInv(w) /\ w \in Worker /\ Sound(w.ws) /\ w.ws \in WebSocket
  BY HasWs DEF WInv
<1>2. Leads(w, s)
  BY <1>1, CarriesLeads
<1>3. CASE Failed(w.ws, s)
  <2>1. s \in WebSocket /\ s.fault = "none" /\ s.arrived = w.ws.arrived
    BY <1>3 DEF Failed
  <2>2. s.signals = <<Signal("error", 0)>>
    BY <1>1, <1>3 DEF Failed, Sound
  <2>3. Signal("error", 0) \in SignalType
    BY SignalIn, Members
  <2>4. w' \in Slot(After(w, s), Signal("error", 0))
    BY <1>1, <2>1, <2>2, <2>3, EmitsOne
  <2>5. s.arrived >= w.ws.arrived
    BY <1>1, <2>1, Types
  <2>6. w'.ws = None
    BY <1>1, <2>1, <2>4, <2>5, ErrorSlot DEF WorkerInv
  <2> QED BY <1>1, <1>2, <2>6, HasWs DEF Leads, Step
<1>4. CASE Steady(w.ws, s)
  BY <1>2, <1>4, EmitStep DEF Steady
<1> QED BY <1>3, <1>4 DEF Carries

\* The server has sent a part of a body, or a body is read from what it sends.
LEMMA ReadsStep ==
  ASSUME WInv, NEW items, Arrives(items), NEW s, Reads(s, SockReadyRead(w.ws, items)),
         Carries(w.ws, SockReadyRead(w.ws, items)),
         server'.phase = "upgraded" => SockReadyRead(w.ws, items).sock = "none" \/ ~s.chunked
  PROVE  Step
<1> DEFINE r == SockReadyRead(w.ws, items)
<1>1. w.ws # None /\ w' \in Emitted(w, r)
  BY DEF Arrives, HasSocket
<1>2. Carries(w.ws, r) /\ Reads(s, r)
  OBVIOUS
<1>3. server'.phase = "upgraded" => r.sock = "none" \/ ~s.chunked
  OBVIOUS
<1> HIDE DEF r
<1>4. ASSUME Good(r) PROVE Served(r, server')
  <2>1. r.sock # "none" => /\ r.state = "Connecting" /\ r.readingBody
                           /\ r.chunked = s.chunked
    BY <1>2 DEF Reads
  <2>2. r.sock # "none" => Clear(r)
    BY <1>4, <2>1, ConnectingClear
  <2> QED BY <1>3, <2>1, <2>2 DEF Served
<1> QED BY <1>1, <1>2, <1>4, CarriesStep

LEMMA BodyStep == \A pieces \in Bodies : Ordinary /\ WInv /\ ServerSendsBody(pieces) => Step
<1> SUFFICES ASSUME NEW pieces \in Bodies, Ordinary, WInv, ServerSendsBody(pieces) PROVE Step
  OBVIOUS
<1>1. pieces \in Seq(Whole) /\ pieces \in Seq(Item)
  BY PieceTypes
<1>2. <<>> \o pieces = pieces
  BY <1>1
<1>3. server.phase = "body" /\ server'.phase = "body" /\ Arrives(pieces)
  BY <1>2 DEF ServerSendsBody, SendsBody
<1>4. /\ Good(w.ws) /\ w.ws.signals = <<>> /\ w.ws.sock \in {"up", "leaving"}
      /\ Served(w.ws, server) /\ w.ws \in WebSocket
  BY <1>3, ArrivesUp
<1>5. w.ws.state = "Connecting" /\ w.ws.readingBody
  BY <1>3, <1>4 DEF Served
<1>6. Reading(w.ws)
  BY <1>4, <1>5, ReadingSocket
<1>7. SockReadyRead(w.ws, pieces) = TryProcessBody(w.ws, pieces)
  BY <1>5 DEF SockReadyRead
<1>8. Reads(w.ws, TryProcessBody(w.ws, pieces))
  BY <1>1, <1>6, BodyReads DEF Chunks
<1> QED BY <1>3, <1>7, <1>8, ReadsStep DEF Reads

LEMMA FramesStep == \A batch \in Batches : Ordinary /\ WInv /\ ServerSendsFrames(batch) => Step
<1> SUFFICES ASSUME NEW batch \in Batches, Ordinary, WInv, ServerSendsFrames(batch) PROVE Step
  OBVIOUS
<1>1. batch \in Seq(FrameType) /\ batch \in Seq(Item)
  BY BatchTypes
<1>2. <<>> \o batch = batch
  BY <1>1
<1>3. /\ server.phase = "upgraded" /\ server'.phase \in {"closed", "upgraded"}
      /\ Arrives(batch)
      /\ server'.phase = "upgraded" => ~HasClose(batch)
  BY <1>2, BatchClose DEF ServerSendsFrames, Sends, Ordinary
<1>4. /\ Good(w.ws) /\ w.ws.signals = <<>> /\ w.ws.sock \in {"up", "leaving"}
      /\ Served(w.ws, server) /\ w.ws \in WebSocket /\ w.ws # None /\ WorkerInv(w)
  BY <1>3, ArrivesUp
<1>5. Clear(w.ws) /\ (w.ws.state = "Connecting" => w.ws.readingBody /\ ~w.ws.chunked)
  BY <1>3, <1>4 DEF Served
<1>6. CASE w.ws.state = "Connecting"
  <2>1. Reading(w.ws)
    BY <1>4, <1>5, <1>6, ReadingSocket
  <2>2. SockReadyRead(w.ws, batch) = TryProcessBody(w.ws, batch)
    BY <1>5, <1>6 DEF SockReadyRead
  <2>3. Reads(w.ws, TryProcessBody(w.ws, batch))
    BY <1>1, <1>5, <1>6, <2>1, BodyReads
  <2> QED BY <1>3, <1>5, <1>6, <2>2, <2>3, ReadsStep DEF Reads
<1>7. CASE w.ws.state # "Connecting"
  <2> DEFINE r == SockReadyRead(w.ws, batch)
  <2>1. w.ws.state \in {"Connected", "Closing"} /\ ~w.ws.peerClosing
    BY <1>4, <1>5, <1>7 DEF Clear, Good, ConnGood, WebSocket, StateType
  <2>2. /\ Taking(w.ws, r, <<>>)
        /\ Clear(w.ws) /\ ~HasClose(batch) => r.sock = "none" \/ Clear(r)
    BY <1>1, <1>4, <2>1, FramesArrive
  <2> HIDE DEF r
  <2>3. Leads(w, r)
    BY <1>4, <2>1, <2>2, TakingLeads
  <2>4. Served(r, server')
    BY <1>3, <1>5, <2>1, <2>2, TakingOpen DEF Served
  <2> QED BY <1>3, <2>3, <2>4, ArrivesEmits DEF r
<1> QED BY <1>6, <1>7

LEMMA CloseStep == WInv /\ ServerCloses => Step
<1> SUFFICES ASSUME WInv, ServerCloses PROVE Step
  OBVIOUS
<1> DEFINE items == <<Frame("close", 0)>>
           r == SockReadyRead(w.ws, items)
<1>1. /\ server.phase = "upgraded" /\ server'.phase = "closed" /\ Arrives(items)
      /\ w.ws.state = "Closing"
  BY DEF ServerCloses
<1>2. items \in Seq(FrameType)
  BY DEF Frame, FrameType, Ops
<1>3. /\ Good(w.ws) /\ w.ws.signals = <<>> /\ w.ws.sock \in {"up", "leaving"}
      /\ Served(w.ws, server) /\ w.ws # None /\ WorkerInv(w)
  BY <1>1, ArrivesUp
<1>4. ~w.ws.peerClosing
  BY <1>1, <1>3 DEF Served, Clear
<1> HIDE DEF items
<1>5. Taking(w.ws, r, <<>>)
  BY <1>1, <1>2, <1>3, <1>4, FramesArrive
<1> HIDE DEF r
<1>6. Leads(w, r)
  BY <1>1, <1>3, <1>4, <1>5, TakingLeads
<1>7. Served(r, server')
  BY <1>1 DEF Served
<1> QED BY <1>1, <1>6, <1>7, ArrivesEmits DEF r

\* A head that answers a handshake.
LEMMA AnswerItems ==
  ASSUME NEW head \in HeadType, NEW rest \in Seq(Item)
  PROVE  LET items == <<head>> \o rest
         IN  items \in Seq(Item) /\ items \notin Seq(Whole) /\ Chunks(items)
<1> DEFINE items == <<head>> \o rest
<1>1. items \in Seq(Item) /\ items[1] = head /\ Len(items) >= 1
  <2>1. Len(items) = 1 + Len(rest) /\ Len(rest) \in Nat
    OBVIOUS
  <2>2. items \in Seq(Item) /\ items[1] = head
    BY Headed
  <2> HIDE DEF items
  <2> QED BY <2>1, <2>2
<1>2. head \notin Whole
  BY DEF HeadType, Whole, PieceType
<1>3. Chunks(items)
  BY DEF Chunks
<1> HIDE DEF items
<1>4. items \notin Seq(Whole)
  BY <1>1, <1>2
<1> QED BY <1>1, <1>3, <1>4 DEF items

\* The body of another response is still being read.
LEMMA AnswerAsBody ==
  ASSUME WInv, NEW head \in HeadType, NEW rest \in Seq(Item), Arrives(<<head>> \o rest),
         w.ws.state = "Connecting", w.ws.readingBody
  PROVE  Step
<1> DEFINE items == <<head>> \o rest
<1>1. items \in Seq(Item) /\ items \notin Seq(Whole) /\ Chunks(items) /\ Arrives(items)
  BY AnswerItems
<1>2. Reading(w.ws)
  BY <1>1, ArrivesUp, ReadingSocket
<1> HIDE DEF items
<1>3. SockReadyRead(w.ws, items) = TryProcessBody(w.ws, items)
  BY DEF SockReadyRead
<1>4. /\ Reads(w.ws, TryProcessBody(w.ws, items))
      /\ w.ws.chunked => TryProcessBody(w.ws, items).sock = "none"
  BY <1>1, <1>2, BodyReads
<1> QED BY <1>1, <1>3, <1>4, ReadsStep DEF Reads

LEMMA AnswerStep == \A head \in Heads : Ordinary /\ WInv /\ ServerAnswers(head) => Step
<1> SUFFICES ASSUME NEW head \in Heads, Ordinary, WInv, ServerAnswers(head) PROVE Step
  OBVIOUS
<1>1. /\ head \in HeadType /\ server.phase = "silent" /\ w.ws.unwritten = 0
      /\ head.answer \in Redirections => head.length = 0 /\ ~head.chunked
  BY ServerAssumption DEF ServerAnswers, Ordinary
<1>2. ASSUME NEW items, Arrives(items)
      PROVE  /\ w.ws # None /\ WorkerInv(w) /\ w.ws.state = "Connecting"
             /\ ~w.ws.readingBody => Asking(w.ws)
  <2>1. /\ Good(w.ws) /\ w.ws.signals = <<>> /\ w.ws.sock \in {"up", "leaving"}
        /\ Served(w.ws, server) /\ w.ws # None /\ WorkerInv(w)
    BY <1>2, ArrivesUp
  <2>2. w.ws.state = "Connecting"
    BY <1>1, <2>1 DEF Served
  <2>3. w.ws.sock = "up"
    BY <2>1, <2>2 DEF Good, ConnGood
  <2> QED BY <1>1, <2>1, <2>2, <2>3 DEF Asking
<1>3. CASE head.answer = "upgrade"
  <2>1. PICK batch \in Batches \cup {<<>>} : Sends(<<head>>, batch)
    BY <1>3 DEF ServerAnswers
  <2> DEFINE r == SockReadyRead(w.ws, <<head>> \o batch)
  <2>2. batch \in Seq(FrameType) /\ batch \in Seq(Item)
    BY BatchTypes
  <2>3. /\ server'.phase \in {"closed", "upgraded"} /\ Arrives(<<head>> \o batch)
        /\ server'.phase = "upgraded" => ~HasClose(batch)
    BY <2>1, BatchClose DEF Sends, Ordinary
  <2>4. w.ws # None /\ WorkerInv(w) /\ w.ws.state = "Connecting"
    BY <1>2, <2>3
  <2>5. CASE w.ws.readingBody
    BY <1>1, <2>2, <2>3, <2>4, <2>5, AnswerAsBody
  <2>6. CASE ~w.ws.readingBody
    <3>1. Upgraded(w.ws, r) /\ (~HasClose(batch) => r.sock = "none" \/ Clear(r))
      BY <1>1, <1>2, <1>3, <2>2, <2>3, <2>6, ResponseUpgrades
    <3> HIDE DEF r
    <3>2. Leads(w, r)
      BY <2>4, <3>1, UpgradedLeads
    <3>3. r.sock \in {"up", "leaving"} => r.state # "Connecting"
      <4>1. PICK f : Taking(f, r, <<Signal("connected", 0)>>) /\ f.state = "Connected"
        BY <3>1 DEF Upgraded
      <4> QED BY <4>1, TakingOpen
    <3>4. Served(r, server')
      BY <2>3, <3>1, <3>3 DEF Served
    <3> QED BY <2>3, <3>2, <3>4, ArrivesEmits DEF r
  <2> QED BY <2>5, <2>6
<1>4. CASE head.answer # "upgrade"
  <2>1. PICK pieces \in Bodies \cup {<<>>} :
          SendsBody(<<head>>, pieces, IF head.length = -1 THEN MaxBody ELSE head.length)
    BY <1>4 DEF ServerAnswers
  <2> DEFINE r == SockReadyRead(w.ws, <<head>> \o pieces)
  <2>2. pieces \in Seq(Whole) /\ pieces \in Seq(Item)
    BY PieceTypes
  <2>3. server'.phase = "body" /\ Arrives(<<head>> \o pieces)
    BY <2>1 DEF SendsBody
  <2>4. w.ws # None /\ WorkerInv(w) /\ w.ws.state = "Connecting"
    BY <1>2, <2>3
  <2>5. CASE w.ws.readingBody
    BY <1>1, <2>2, <2>3, <2>4, <2>5, AnswerAsBody
  <2>6. CASE ~w.ws.readingBody
    <3>1. /\ Carries(w.ws, r)
          /\ r.sock # "none" => r.sock = "up" /\ r.state = "Connecting" /\ r.readingBody
      BY <1>1, <1>2, <1>4, <2>2, <2>3, <2>6, ResponseReads
    <3>2. w' \in Emitted(w, r)
      BY <2>3 DEF Arrives
    <3> HIDE DEF r
    <3>3. Served(r, server')
      BY <2>3, <3>1 DEF Served
    <3> QED BY <2>4, <3>1, <3>2, <3>3, CarriesStep
  <2> QED BY <2>5, <2>6
<1> QED BY <1>3, <1>4

----------------------------------------------------------------------------
LEMMA InitInv == Init => WInv
<1> SUFFICES ASSUME Init PROVE WInv
  OBVIOUS
<1>1. PICK req \in ZRequest : w = NewWorker(req)
  BY DEF Init
<1>2. WorkerInv(w) /\ w.ws = None
  BY <1>1, NewWorkerGood DEF NewWorker
<1>3. Counts
  BY BoundAssumption DEF Init, Counts, Unconnected
<1> QED BY <1>2, <1>3 DEF WInv

LEMMA ClientStep == Ordinary /\ WInv /\ ClientNext => Step
<1> SUFFICES ASSUME Ordinary, WInv, ClientNext PROVE Step
  OBVIOUS
<1>1. CASE ClientStart
  BY <1>1, StartStep
<1>2. ASSUME NEW inSequence \in BOOLEAN, NEW credits \in Credits, NEW size \in Sizes,
             ClientWrite(inSequence, "data", size, credits)
      PROVE  Step
  BY <1>2, WriteStep, ClientAssumption
<1>3. ASSUME NEW inSequence \in BOOLEAN, NEW type \in {"ping", "close", "cancel", "other"},
             ClientWrite(inSequence, type, 0, -1)
      PROVE  Step
  BY <1>3, WriteStep, Members
<1> QED BY <1>1, <1>2, <1>3 DEF ClientNext

\* Every step keeps the invariant, is one of WsSession and follows no ending.
LEMMA NextStep == Ordinary /\ WInv /\ Next => Step
<1> SUFFICES ASSUME Ordinary, WInv, Next PROVE Step
  OBVIOUS
<1>1. CASE ClientNext \/ ClientReturnsCredits
  BY <1>1, ClientStep, ReturnStep
<1>2. CASE LoopNext
  BY <1>2, UpdateStep, TryReadStep DEF LoopNext
<1>3. CASE SocketNext
  <2>1. CASE HasSocket /\ \E bytes \in 1..w.ws.unwritten : BytesWritten(bytes)
    BY <2>1, BytesStep DEF HasSocket
  <2>2. CASE \E e \in {"refused", "tls", "closed", "other"} : Fails(e)
    BY <2>2, FailsStep
  <2> QED BY <1>3, <2>1, <2>2, ResolveStep, ConnectsStep, DisconnectsStep DEF SocketNext
<1>4. CASE ServerNext
  BY <1>4, AnswerStep, BodyStep, FramesStep, CloseStep DEF ServerNext
<1>5. CASE TimerNext
  BY <1>5, ExpireStep, ActivityStep, KeepAliveStep DEF TimerNext
<1> QED BY <1>1, <1>2, <1>3, <1>4, <1>5 DEF Next

----------------------------------------------------------------------------
\* What the server may still send is counted down to nothing.
LEMMA PiecesNat ==
  ASSUME NEW pieces \in Bodies \cup {<<>>}
  PROVE  Bytes(pieces) \in Nat
<1>1. pieces \in Seq(PieceType)
  <2>1. <<>> \in Seq(PieceType)
    OBVIOUS
  <2> QED BY <2>1, ServerAssumption
<1>2. Sized(PieceType)
  BY DEF Sized, PieceType
<1> QED BY <1>1, <1>2, BytesNat

LEMMA BodyCounts ==
  ASSUME Counts, NEW prefix, NEW pieces \in Bodies \cup {<<>>}, NEW left \in Nat,
         SendsBody(prefix, pieces, left)
  PROVE  Counts'
<1>1. Bytes(pieces) \in Nat /\ Bytes(pieces) <= left
  BY PiecesNat DEF SendsBody
<1>2. left - Bytes(pieces) \in Nat
  BY <1>1
<1>3. server' = [phase |-> "body", left |-> left - Bytes(pieces)] /\ frames' = frames
  BY DEF SendsBody
<1>4. writes' = writes /\ keepAlives' = keepAlives
  BY DEF SendsBody, Arrives
<1> QED BY <1>2, <1>3, <1>4 DEF Counts

LEMMA FrameCounts ==
  ASSUME Counts, NEW prefix, NEW batch \in Batches \cup {<<>>}, Sends(prefix, batch)
  PROVE  Counts'
<1>1. Len(batch) \in Nat
  BY BatchTypes
<1>2. /\ frames' = frames + Len(batch) /\ frames' <= MaxFrames
      /\ server' \in {[phase |-> p, left |-> 0] : p \in {"closed", "upgraded"}}
  BY DEF Sends
<1>3. writes' = writes /\ keepAlives' = keepAlives
  BY DEF Sends, Arrives
<1>4. frames' \in 0..MaxFrames
  BY <1>1, <1>2, BoundAssumption DEF Counts
<1> QED BY <1>2, <1>3, <1>4 DEF Counts

LEMMA CountsStep == Counts /\ Next => Counts'
<1> SUFFICES ASSUME Counts, Next PROVE Counts'
  OBVIOUS
<1>1. CASE ClientNext
  <2>1. server' = server /\ frames' = frames /\ keepAlives' = keepAlives
    BY <1>1 DEF ClientNext, ClientStart, ClientWrite
  <2>2. writes' = writes \/ (writes' = writes + 1 /\ writes < MaxWrites)
    BY <1>1 DEF ClientNext, ClientStart, ClientWrite
  <2>3. writes' \in 0..MaxWrites
    BY <2>2, BoundAssumption DEF Counts
  <2> QED BY <2>1, <2>3 DEF Counts
<1>2. CASE ClientReturnsCredits
  BY <1>2 DEF ClientReturnsCredits, Counts
<1>3. CASE LoopNext
  BY <1>3 DEF LoopNext, DoUpdate, QueuedTryRead, WebSocketStep, Counts
<1>4. CASE SocketNext
  <2>1. frames' = frames /\ writes' = writes /\ keepAlives' = keepAlives
    BY <1>4 DEF SocketNext, Resolve, Connects, SocketDisconnects, BytesWritten, Fails,
                WebSocketStep
  <2>2. \/ server' = server \/ server' = Unconnected
        \/ server' = [phase |-> "closed", left |-> 0]
    BY <1>4 DEF SocketNext, Resolve, Connects, SocketDisconnects, BytesWritten, Fails
  <2> QED BY <2>1, <2>2 DEF Counts, Unconnected
<1>5. CASE ServerNext
  <2>1. ASSUME NEW head \in Heads, ServerAnswers(head) PROVE Counts'
    <3>1. CASE head.answer = "upgrade"
      BY <2>1, <3>1, FrameCounts DEF ServerAnswers
    <3>2. CASE head.answer # "upgrade"
      <4> DEFINE left == IF head.length = -1 THEN MaxBody ELSE head.length
      <4>1. head \in HeadType
        BY ServerAssumption
      <4>2. left \in Nat
        BY <4>1, BoundAssumption DEF HeadType, Optional
      <4>3. PICK pieces \in Bodies \cup {<<>>} : SendsBody(<<head>>, pieces, left)
        BY <2>1, <3>2 DEF ServerAnswers
      <4> HIDE DEF left
      <4> QED BY <4>2, <4>3, BodyCounts
    <3> QED BY <3>1, <3>2
  <2>2. ASSUME NEW pieces \in Bodies, ServerSendsBody(pieces) PROVE Counts'
    <3>1. server.left \in Nat
      BY DEF Counts
    <3>2. SendsBody(<<>>, pieces, server.left)
      BY <2>2 DEF ServerSendsBody
    <3> QED BY <3>1, <3>2, BodyCounts
  <2>3. ASSUME NEW batch \in Batches, ServerSendsFrames(batch) PROVE Counts'
    BY <2>3, FrameCounts DEF ServerSendsFrames
  <2>4. ASSUME ServerCloses PROVE Counts'
    BY <2>4 DEF ServerCloses, Arrives, Counts
  <2> QED BY <1>5, <2>1, <2>2, <2>3, <2>4 DEF ServerNext
<1>6. CASE TimerNext
  <2>1. server' = server /\ frames' = frames /\ writes' = writes
    BY <1>6 DEF TimerNext, ExpireTimeout, ActivityTimeout, KeepAliveTimeout
  <2>2. keepAlives' = keepAlives \/ (keepAlives' = keepAlives + 1 /\ keepAlives < MaxKeepAlives)
    BY <1>6 DEF TimerNext, ExpireTimeout, ActivityTimeout, KeepAliveTimeout
  <2>3. keepAlives' \in 0..MaxKeepAlives
    BY <2>2, BoundAssumption DEF Counts
  <2> QED BY <2>1, <2>3 DEF Counts
<1> QED BY <1>1, <1>2, <1>3, <1>4, <1>5, <1>6 DEF Next

LEMMA StepInv == Ordinary /\ WInv /\ [Next]_vars => WInv'
<1> SUFFICES ASSUME Ordinary, WInv, [Next]_vars PROVE WInv'
  OBVIOUS
<1>1. CASE Next
  BY <1>1, NextStep, CountsStep DEF WInv, Step
<1>2. CASE UNCHANGED vars
  BY <1>2 DEF vars, WInv, Counts
<1> QED BY <1>1, <1>2

LEMMA SpecInv == ASSUME Ordinary PROVE Spec => []WInv
<1>1. Init => WInv
  BY InitInv
<1>2. WInv /\ [Next]_vars => WInv'
  BY StepInv
<1> QED BY <1>1, <1>2, PTL DEF Spec

----------------------------------------------------------------------------
\* The records of the worker and of its WebSocket are well-typed.
THEOREM TypeCorrect == ASSUME Ordinary PROVE Spec => []TypeOK
<1>1. WInv => TypeOK
  BY DEF WInv, WorkerInv, Loose, Counts, TypeOK
<1> QED BY <1>1, SpecInv, PTL

\* No assert fails, no function reaches for a socket that is gone, and no loop
\* runs for ever, whatever the order of calls, arrivals, errors and timers.
THEOREM NoFaultEver == ASSUME Ordinary PROVE Spec => []NoFault
<1>1. WInv => NoFault
  BY DEF WInv, WorkerInv, Loose, Sound, Good, NoFault, Running
<1> QED BY <1>1, SpecInv, PTL

\* The worker and its WebSocket agree on the frames that are being written, and
\* the client gets back the credits of all that the socket has written.
THEOREM WritesAgree == ASSUME Ordinary PROVE Spec => []WritesInStep
<1>1. WInv => WritesInStep
  <2> SUFFICES ASSUME WInv, HasSocket PROVE WritesInStep
    BY DEF WritesInStep
  <2> DEFINE q == w.ws.pendingWrites
  <2>1. /\ w \in Worker /\ Linked(w) /\ Good(w.ws) /\ WriteGood(w.ws) /\ ConnGood(w.ws)
        /\ w.ws \in WebSocket
    BY DEF HasSocket, WInv, WorkerInv, Loose, Sound, Good
  <2>2. FrameCount(q) = Len(w.wsPendingWrites)
    BY <2>1 DEF Linked
  <2>3. ASSUME w.ws.state = "Connected", w.ws.unwritten = 0 PROVE w.wsPendingWrites = <<>>
    <3>1. Bytes(q) = 0
      BY <2>1, <2>3 DEF WriteGood, ConnGood
    <3>2. q \in Seq(Write) /\ \A i \in 1..Len(q) : q[i].size > 0
      BY <2>1, Types DEF WriteGood
    <3> HIDE DEF q
    <3>3. q = <<>>
      BY <3>1, <3>2, WriteSized, BytesZero
    <3>4. Len(w.wsPendingWrites) = 0
      BY <2>2, <3>3, FrameEmpty
    <3> QED BY <2>1, <3>4, WorkerNats
  <2> QED BY <2>2, <2>3 DEF WritesInStep
<1> QED BY <1>1, SpecInv, PTL

\* What can be passed on is passed on or going to be: frames wait for credits
\* only, the close of the server only for frames, and what the socket holds
\* only for room.
THEOREM NothingIsStuck == ASSUME Ordinary PROVE Spec => []NothingStuck
<1>1. WInv => NothingStuck
  BY DEF WInv, WorkerInv, Loose, Sound, Good, ReadGood, Known, Passing, HasSocket, NothingStuck
<1> QED BY <1>1, SpecInv, PTL

----------------------------------------------------------------------------
LEMMA InitRefines == Init => S!Init
<1> SUFFICES ASSUME Init PROVE S!Init
  OBVIOUS
<1>1. PICK req \in ZRequest : w = NewWorker(req)
  BY DEF Init
<1> QED BY <1>1 DEF NewWorker, S!Init, Arrived

LEMMA StepRefines ==
  ASSUME Ordinary, WInv, [Next]_vars
  PROVE  [S!Next]_(S!vars)
<1>1. CASE Next
  <2>1. WorkerInv(w') /\ Moved(w, w') /\ w.ending = "no" /\ w \in Worker /\ w' \in Worker
    BY <1>1, NextStep DEF Step, WInv, WorkerInv, Loose
  <2>2. Kept(w')
    BY <2>1 DEF WorkerInv, Loose
  <2>3. Arrived = ArrivedOf(w) /\ Arrived' = ArrivedOf(w')
    BY DEF Arrived, ArrivedOf
  <2>4. S!Inputs /\ w'.said >= w.said
    BY <2>1, <2>3 DEF Moved, S!Inputs
  <2> DEFINE one == IF w'.ending \in {"error", "cancel"} THEN 1 ELSE 0
  <2>5. S!Pass(w'.said - w.said - one)
    <3>1. /\ w.said \in Nat /\ w.delivered \in Nat /\ w.closes \in Nat /\ w.accepted \in BOOLEAN
          /\ w'.said \in Nat /\ w'.delivered \in Nat /\ w'.closes \in Nat
          /\ w'.accepted \in BOOLEAN /\ w.bytes \in Nat /\ w'.bytes \in Nat
          /\ ArrivedOf(w') \in Nat /\ w'.granted \in Nat
      BY <2>1, WorkerNats
    <3>2. w'.said - w.said - one
            >= (w'.delivered - w.delivered) + (w'.closes - w.closes)
                 + (IF w'.accepted # w.accepted THEN 1 ELSE 0)
      BY <2>1, <3>1 DEF Moved, Due
    <3>3. /\ w'.delivered \in w.delivered..Arrived' /\ w'.closes \in w.closes..1
          /\ w'.bytes >= w.bytes /\ w'.bytes <= w'.granted
          /\ w.accepted => w'.accepted
          /\ w'.delivered > 0 \/ w'.closes > 0 => w'.accepted
      BY <2>1, <2>2, <2>3, <3>1 DEF Moved, Kept
    <3> QED BY <3>2, <3>3 DEF S!Pass
  <2>6. CASE w'.ending = "no"
    <3>1. w'.said - w.said - one = w'.said - w.said
      BY <2>1, <2>6, WorkerNats
    <3> QED BY <2>1, <2>4, <2>5, <2>6, <3>1 DEF S!Next, S!Speak
  <2>7. CASE w'.ending \in {"error", "cancel"}
    BY <2>1, <2>4, <2>5, <2>7 DEF S!Next, S!End
  <2>8. CASE w'.ending \in {"closed", "silent"}
    <3>1. w'.said - w.said - one = w'.said - w.said
      BY <2>1, <2>8, WorkerNats
    <3>2. w'.ending = "closed" => w'.closes = 1
      BY <2>1 DEF Moved
    <3> QED BY <2>1, <2>4, <2>5, <2>8, <3>1, <3>2 DEF S!Next, S!End
  <2>9. w'.ending \in Endings
    BY <2>1, WorkerNats
  <2> QED BY <2>6, <2>7, <2>8, <2>9 DEF Endings
<1>2. CASE UNCHANGED vars
  BY <1>2 DEF vars, S!vars, Arrived
<1> QED BY <1>1, <1>2

\* A session keeps what WsSession promises: the word of the connection comes
\* first, frames are passed on once, in messages of their own and within the
\* credits, the close of the server once, and nothing follows the ending.
THEOREM SessionImplemented == ASSUME Ordinary PROVE Spec => ImplementsWsSession
<1>1. WInv /\ [Next]_vars => [S!Next]_(S!vars)
  BY StepRefines
<1> QED BY <1>1, InitRefines, SpecInv, PTL DEF Spec, ImplementsWsSession, S!Spec
=============================================================================
