---- MODULE MCWorkerWs ----
(* Small instances of WorkerWs: what clients ask and what servers send.    *)
(* The codec under it, which WorkerWs abstracts from, is evaluated on      *)
(* buffers of bytes before a run begins.                                   *)
EXTENDS WorkerWs, Codec

LOCAL INSTANCE Bitwise

Ws == [valid |-> TRUE, credits |-> 2, maxRedirects |-> -1]

\* Credits for the largest frame at once or not; redirects followed or not.
Requests == {Ws, [Ws EXCEPT !.maxRedirects = 2, !.credits = 1],
             [Ws EXCEPT !.valid = FALSE]}

Accepts == ResponseHead("upgrade", -1, FALSE)
Answer == {Accepts, ResponseHead("bad", -1, FALSE),
           ResponseHead("redirect", 0, FALSE), ResponseHead("no-location", 0, FALSE),
           ResponseHead("reject", 2, FALSE),
           ResponseHead("reject", -1, FALSE), ResponseHead("reject", -1, TRUE)}

Pieces == {<<Piece(1, TRUE)>>, <<Piece(2, TRUE), Piece(0, TRUE)>>}

DataFrame == Frame("data", 1)
CloseFrame == Frame("close", 0)

\* Runs of frames that arrive together: with and without a close at the end,
\* a frame of the largest size and one beyond it, one of an unknown type.
Runs == {<<DataFrame>>, <<DataFrame, DataFrame>>, <<Frame("ping", 0)>>, <<CloseFrame>>,
         <<DataFrame, CloseFrame>>, <<Frame("data", 2)>>,
         <<DataFrame, Frame("data", 3)>>, <<Frame("unknown", 0), DataFrame>>}

\* A server whose redirect has a longer body than its next answer.
RedirectWithBody == {ResponseHead("redirect", 2, FALSE), ResponseHead("reject", 1, FALSE)}
RedirectBody == {<<Piece(1, TRUE)>>, <<Piece(2, TRUE)>>}
Redirecting == {[Ws EXCEPT !.maxRedirects = 1]}

\* The session is an instance of the theorems of WorkerWsProofs.
ASSUME SessionIsOrdinary == Heads = Answer => Ordinary

NoCredits == {-1}
SomeCredits == {-1, 1}

----------------------------------------------------------------------------
\* Bytes.

Nibbles == [a, b \in 0..15 |-> a ^^ b]
ByteXor(a, b) == 16 * Nibbles[a \div 16, b \div 16] + Nibbles[a % 16, b % 16]

Digits == [b \in 48..57 |-> b - 48] @@ [b \in 97..102 |-> b - 87]
HexValue(line) ==
  IF line = <<>> \/ \E i \in DOMAIN line : line[i] \notin DOMAIN Digits THEN NotANumber
  ELSE FoldLeft(LAMBDA sum, b : 16 * sum + Digits[b], 0, line)

Payload(size) == [k \in 1..size |-> (7 * k) % 256]
Parts(bytes) == {SubSeq(bytes, 1, n) : n \in 0..Len(bytes) - 1}

\* What CodecProofs proves, for sizes on both sides of each limit.
ASSUME FramesReadBack ==
  \A fin \in BOOLEAN, mask \in {<<>>, <<0, 255, 18, 137>>},
     size \in {0, 1, 5, 125, 126, 300} :
    \E frame \in {CreateFrame(fin, 2, Payload(size), mask)} :
      /\ CheckFrame(frame \o <<1>>) = 2
      /\ ParseFrame(frame \o <<1>>) = [ fin |-> fin, opcode |-> 2,
                                       bytesRead |-> Len(frame),
                                       payload |-> Payload(size) ]
      /\ \A part \in Parts(frame) :
           CheckFrame(part) = 0 \/ (CheckFrame(part) = 1 /\ PayloadSize(part) = size)

ASSUME LargeFrames ==
  \A size \in {65535, 65536} :
    \E frame \in {CreateFrame(TRUE, 2, [k \in 1..size |-> 0], <<>>)} :
      /\ Len(frame) = size + IF size = 65535 THEN 4 ELSE 10
      /\ CheckFrame(frame) = 2 /\ PayloadSize(frame) = size
      /\ CheckFrame(Front(frame)) = 1

\* "0", "3", "1f"; "g" and nothing are no sizes; a payload needs its line break.
ASSUME ChunksReadBack ==
  /\ \A <<line, size>> \in {<<<<48>>, 0>>, <<<<51>>, 3>>, <<<<49, 102>>, 31>>} :
       \E chunk \in {line \o <<CR, LF>> \o Payload(size) \o <<CR, LF>>} :
         /\ CheckChunk(chunk \o <<CR, LF>>) = 2
         /\ ParseChunk(chunk \o <<1>>) = [bytesRead |-> Len(chunk), payload |-> Payload(size)]
         /\ \A part \in Parts(chunk) :
              CheckChunk(part) = 0 \/ (CheckChunk(part) = 1 /\ ChunkSize(part) = size)
  /\ CheckChunk(<<103, CR, LF>>) = -1 /\ CheckChunk(<<CR, LF>>) = -1
  /\ CheckChunk(<<48, CR, LF, 1, LF>>) = -1
====
