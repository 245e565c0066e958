-------------------------------- MODULE Codec --------------------------------
(***************************************************************************)
(* The bytes of frames and chunks (src/src/websocket.cpp).                 *)
(*                                                                         *)
(* Bytes are numbers, buffers are sequences of them, so positions count    *)
(* from 1.  Sizes are at most MaxSize, as those of a QByteArray; the caller     *)
(* refuses a frame that claims more than its limit before it parses it.    *)
(***************************************************************************)
EXTENDS Integers, Sequences

CONSTANTS
  BitXor(_, _),  \* ^ on bytes
  ToInt(_)       \* QByteArray::toInt in base 16, or NotANumber

Byte == 0..255
NotANumber == -1
MaxSize == 2147483647  \* what an int can count

\* What unmasking needs of ^.
ASSUME XorAssumption ==
  \A a, b \in Byte : BitXor(a, b) \in Byte /\ BitXor(BitXor(a, b), b) = a

----------------------------------------------------------------------------
\* Numbers, most significant byte first.

Write16(n) == <<n \div 256, n % 256>>
Write64(n) == <<0, 0, 0, 0, n \div 16777216, (n \div 65536) % 256,
                (n \div 256) % 256, n % 256>>

Read16(data, at) == 256 * data[at] + data[at + 1]
Read64(data, at) ==
  256 * (256 * (256 * (256 * (256 * (256 * (256 * data[at] + data[at + 1])
    + data[at + 2]) + data[at + 3]) + data[at + 4]) + data[at + 5])
    + data[at + 6]) + data[at + 7]

----------------------------------------------------------------------------
\* Frames: two bytes, more bytes of the size if it needs them, the mask if
\* there is one, and the payload.

Opcode == 0..15
Mask == {mask \in Seq(Byte) : Len(mask) \in {0, 4}}
Masked(mask) == IF mask = <<>> THEN 0 ELSE 128

HeadLength(sizeCode) ==
  IF sizeCode < 126 THEN 2 ELSE IF sizeCode = 126 THEN 4 ELSE 10

SizeCode(size) ==
  IF size < 126 THEN size ELSE IF size < 65536 THEN 126 ELSE 127

SizeBytes(size) == IF size < 65536 THEN Write16(size) ELSE Write64(size)

\* The byte of the mask at the k-th byte of the payload.
MaskAt(k) == ((k - 1) % 4) + 1

CreateFrame(fin, opcode, payload, mask) ==
  LET size == Len(payload)
      head == HeadLength(SizeCode(size))
      start == head + Len(mask)
  IN  [i \in 1..start + size |->
         IF i = 1 THEN (IF fin THEN 128 ELSE 0) + opcode
         ELSE IF i = 2 THEN SizeCode(size) + Masked(mask)
         ELSE IF i <= head THEN SizeBytes(size)[i - 2]
         ELSE IF i <= start THEN mask[i - head]
         ELSE IF mask = <<>> THEN payload[i - start]
         ELSE BitXor(payload[i - start], mask[MaskAt(i - start)])]

FrameHead(data) == HeadLength(data[2] % 128)
FrameStart(data) == FrameHead(data) + IF data[2] >= 128 THEN 4 ELSE 0
PayloadSize(data) ==
  IF data[2] % 128 < 126 THEN data[2] % 128
  ELSE IF data[2] % 128 = 126 THEN Read16(data, 3)
  ELSE Read64(data, 3)

\* 0: the size is not known yet, 1: it is known, 2: the frame is complete.
CheckFrame(data) ==
  IF Len(data) < 2 THEN 0
  ELSE IF Len(data) < FrameHead(data) THEN 0
  ELSE IF Len(data) < FrameStart(data) + PayloadSize(data) THEN 1
  ELSE 2

ParseFrame(data) ==
  [ fin       |-> data[1] >= 128,
    opcode    |-> data[1] % 16,
    bytesRead |-> FrameStart(data) + PayloadSize(data),
    payload   |->
      [k \in 1..PayloadSize(data) |->
         IF data[2] >= 128
           THEN BitXor(data[FrameStart(data) + k], data[FrameHead(data) + MaskAt(k)])
           ELSE data[FrameStart(data) + k]] ]

----------------------------------------------------------------------------
\* Chunks: a line with the size, and the payload as another line.

CR == 13
LF == 10

LineBreaks(data) == {n \in 1..Len(data) - 1 : data[n] = CR /\ data[n + 1] = LF}

\* The position of the first line break, or 0.
FindLinebreak(data) ==
  IF LineBreaks(data) = {} THEN 0
  ELSE CHOOSE n \in LineBreaks(data) : \A m \in LineBreaks(data) : n <= m

ChunkSize(data) == ToInt(SubSeq(data, 1, FindLinebreak(data) - 1))
ChunkStart(data) == FindLinebreak(data) + 1  \* the last byte before the payload

\* As for frames; -1: the data is no chunk.
CheckChunk(data) ==
  LET end == ChunkStart(data) + ChunkSize(data)
  IN  IF FindLinebreak(data) = 0 THEN 0
      ELSE IF ChunkSize(data) = NotANumber THEN -1
      ELSE IF Len(data) < end + 2 THEN 1
      ELSE IF data[end + 1] # CR \/ data[end + 2] # LF THEN -1
      ELSE 2

ParseChunk(data) ==
  [ bytesRead |-> ChunkStart(data) + ChunkSize(data) + 2,
    payload   |-> SubSeq(data, ChunkStart(data) + 1, ChunkStart(data) + ChunkSize(data)) ]
=============================================================================
