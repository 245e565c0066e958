----------------------------- MODULE CodecProofs -----------------------------
(***************************************************************************)
(* Reading is the inverse of writing, however the bytes come in pieces.    *)
(***************************************************************************)
EXTENDS Codec, TLAPS

StartsWith(data, bytes) ==
  /\ Len(data) >= Len(bytes)
  /\ \A i \in 1..Len(bytes) : data[i] = bytes[i]

----------------------------------------------------------------------------
\* Numbers.

LEMMA Written16 ==
  ASSUME NEW n \in Nat, n < 65536
  PROVE  /\ Write16(n) \in Seq(Byte) /\ Len(Write16(n)) = 2
         /\ 256 * Write16(n)[1] + Write16(n)[2] = n
  <1>1. n \div 256 \in Byte /\ n % 256 \in Byte /\ 256 * (n \div 256) + (n % 256) = n
    BY SMT DEF Byte
  <1> QED BY <1>1, SMT DEF Write16

LEMMA Written64 ==
  ASSUME NEW n \in Nat, n <= MaxSize
  PROVE  /\ Write64(n) \in Seq(Byte) /\ Len(Write64(n)) = 8
         /\ \A i \in 1..4 : Write64(n)[i] = 0
         /\ 256 * (256 * (256 * Write64(n)[5] + Write64(n)[6]) + Write64(n)[7])
              + Write64(n)[8] = n
  <1> DEFINE a == n \div 16777216
             b == (n \div 65536) % 256
             c == (n \div 256) % 256
             d == n % 256
  <1>1. a \in Byte /\ b \in Byte /\ c \in Byte /\ d \in Byte
    BY SMT DEF MaxSize, Byte
  <1>2. n = 256 * (n \div 256) + d
    BY SMT DEF MaxSize
  <1>3. n \div 256 = 256 * (n \div 65536) + c
    BY SMT DEF MaxSize
  <1>4. n \div 65536 = 256 * a + b
    BY SMT DEF MaxSize
  <1>5. /\ n \div 256 \in Int /\ n \div 65536 \in Int
        /\ a \in Int /\ b \in Int /\ c \in Int /\ d \in Int
    BY SMT DEF MaxSize
  <1>6. 256 * (256 * (256 * a + b) + c) + d = n
    BY <1>2, <1>3, <1>4, <1>5, SMT
  <1>7. Write64(n) = <<0, 0, 0, 0, a, b, c, d>>
    BY DEF Write64
  <1>8. 0 \in Byte
    BY SMT DEF MaxSize, Byte
  <1> HIDE DEF a, b, c, d
  <1> QED BY <1>1, <1>6, <1>7, <1>8, SMT

LEMMA SizeFields ==
  ASSUME NEW size \in Nat, size <= MaxSize
  PROVE  /\ SizeCode(size) \in 0..127 /\ HeadLength(SizeCode(size)) \in {2, 4, 10}
         /\ \/ size < 126 /\ SizeCode(size) = size /\ HeadLength(SizeCode(size)) = 2
            \/ /\ size >= 126 /\ size < 65536
               /\ SizeCode(size) = 126 /\ HeadLength(SizeCode(size)) = 4
            \/ size >= 65536 /\ SizeCode(size) = 127 /\ HeadLength(SizeCode(size)) = 10
         /\ size >= 126 => /\ SizeBytes(size) \in Seq(Byte)
                           /\ Len(SizeBytes(size)) = HeadLength(SizeCode(size)) - 2
  <1>1. CASE size < 126
    BY <1>1, SMT DEF SizeCode, HeadLength
  <1>2. CASE size >= 126 /\ size < 65536
    <2>1. SizeBytes(size) = Write16(size)
      BY <1>2, SMT DEF SizeBytes
    <2>2. Write16(size) \in Seq(Byte) /\ Len(Write16(size)) = 2
      BY <1>2, Written16
    <2>3. SizeCode(size) = 126 /\ HeadLength(126) = 4
      BY <1>2, SMT DEF SizeCode, HeadLength
    <2> QED BY <1>2, <2>1, <2>2, <2>3, SMT
  <1>3. CASE size >= 65536
    <2>1. SizeBytes(size) = Write64(size)
      BY <1>3, SMT DEF SizeBytes
    <2>2. Write64(size) \in Seq(Byte) /\ Len(Write64(size)) = 8
      BY Written64
    <2>3. SizeCode(size) = 127 /\ HeadLength(127) = 10
      BY <1>3, SMT DEF SizeCode, HeadLength
    <2> QED BY <1>3, <2>1, <2>2, <2>3, SMT
  <1> QED BY <1>1, <1>2, <1>3, SMT

----------------------------------------------------------------------------
\* Frames.

\* What createFrame puts where.
LEMMA FrameLayout ==
  ASSUME NEW fin \in BOOLEAN, NEW opcode \in Opcode, NEW payload \in Seq(Byte),
         NEW mask \in Mask, Len(payload) <= MaxSize,
         NEW head, head = HeadLength(SizeCode(Len(payload))),
         NEW frame, frame = CreateFrame(fin, opcode, payload, mask)
  PROVE  /\ frame \in Seq(Byte)
         /\ Len(frame) = head + Len(mask) + Len(payload)
         /\ frame[1] = (IF fin THEN 128 ELSE 0) + opcode
         /\ frame[2] = SizeCode(Len(payload)) + Masked(mask)
         /\ \A i \in 3..head : frame[i] = SizeBytes(Len(payload))[i - 2]
         /\ \A i \in 1..Len(mask) : frame[head + i] = mask[i]
         /\ \A k \in 1..Len(payload) :
              frame[head + Len(mask) + k] =
                IF mask = <<>> THEN payload[k] ELSE BitXor(payload[k], mask[MaskAt(k)])
  <1> DEFINE size == Len(payload)
             start == head + Len(mask)
             byte(i) ==
               IF i = 1 THEN (IF fin THEN 128 ELSE 0) + opcode
               ELSE IF i = 2 THEN SizeCode(size) + Masked(mask)
               ELSE IF i <= head THEN SizeBytes(size)[i - 2]
               ELSE IF i <= start THEN mask[i - head]
               ELSE IF mask = <<>> THEN payload[i - start]
               ELSE BitXor(payload[i - start], mask[MaskAt(i - start)])
  <1>1. frame = [i \in 1..start + size |-> byte(i)]
    BY DEF CreateFrame
  <1>2. /\ size \in Nat /\ head \in {2, 4, 10} /\ Len(mask) \in {0, 4}
        /\ start \in Nat /\ mask \in Seq(Byte) /\ (mask = <<>> <=> Len(mask) = 0)
    BY SizeFields, SMT DEF Mask
  <1>3. \A i \in 1..start + size : byte(i) \in Byte
    <2> SUFFICES ASSUME NEW i \in 1..start + size
                 PROVE  byte(i) \in Byte
      OBVIOUS
    <2>1. CASE i = 1
      BY <2>1, SMT DEF Opcode, Byte
    <2>2. CASE i = 2
      <3>1. byte(i) = SizeCode(size) + Masked(mask)
        BY <2>2, SMT
      <3>2. SizeCode(size) \in 0..127
        BY SizeFields
      <3>3. Masked(mask) \in {0, 128}
        BY DEF Masked
      <3>4. \A a \in 0..127 : \A b \in {0, 128} : a + b \in Byte
        BY SMT DEF Byte
      <3> HIDE DEF byte
      <3> QED BY <3>1, <3>2, <3>3, <3>4
    <2>3. CASE i > 2 /\ i <= head
      <3>1. SizeBytes(size) \in Seq(Byte) /\ i - 2 \in 1..Len(SizeBytes(size))
        BY <2>3, <1>2, SizeFields, SMT
      <3> QED BY SMTT(30), <2>3, <3>1, <1>2, SMT
    <2>4. CASE i > head /\ i <= start
      BY <2>4, <1>2, SMT
    <2>5. CASE i > start
      <3>1. i - start \in 1..size
        BY <2>5, <1>2, SMT
      <3>2. payload[i - start] \in Byte
        BY <3>1, SMT
      <3>3. ASSUME mask # <<>>
            PROVE  mask[MaskAt(i - start)] \in Byte
        <4>1. MaskAt(i - start) \in 1..4
          BY <3>1, SMT DEF MaskAt
        <4> QED BY <3>3, <4>1, <1>2, SMT
      <3>4. byte(i) = IF mask = <<>> THEN payload[i - start]
                      ELSE BitXor(payload[i - start], mask[MaskAt(i - start)])
        BY <2>5, <1>2, SMT
      <3> QED BY <3>2, <3>3, <3>4, XorAssumption, ZenonT(30)
    <2> QED BY <2>1, <2>2, <2>3, <2>4, <2>5, <1>2, SMT
  <1>4. frame \in Seq(Byte) /\ Len(frame) = start + size
    <2> HIDE DEF byte, start, size
    <2> QED BY <1>1, <1>2, <1>3, SMT
  <1>5. frame[1] = byte(1) /\ frame[2] = byte(2)
    <2> HIDE DEF byte
    <2> QED BY <1>1, <1>2, SMT
  <1>6. \A i \in 3..head : frame[i] = byte(i)
    <2> HIDE DEF byte
    <2> QED BY <1>1, <1>2, SMT
  <1>7. \A i \in 1..Len(mask) : frame[head + i] = byte(head + i)
    <2> HIDE DEF byte
    <2> QED BY <1>1, <1>2, SMT
  <1>8. \A k \in 1..size : frame[start + k] = byte(start + k)
    <2> HIDE DEF byte
    <2> QED BY SMTT(30), <1>1, <1>2, SMT
  <1>9. \A i \in 3..head : byte(i) = SizeBytes(size)[i - 2]
    BY <1>2, SMT
  <1>10. \A i \in 1..Len(mask) : byte(head + i) = mask[i]
    BY <1>2, SMT
  <1>11. \A k \in 1..size :
           byte(start + k) = IF mask = <<>> THEN payload[k]
                             ELSE BitXor(payload[k], mask[MaskAt(k)])
    <2>1. ASSUME NEW i \in Int, i > start
          PROVE  byte(i) = IF mask = <<>> THEN payload[i - start]
                           ELSE BitXor(payload[i - start], mask[MaskAt(i - start)])
      BY <2>1, <1>2, SMT
    <2>2. \A k \in 1..size : start + k \in Int /\ start + k > start /\ (start + k) - start = k
      BY <1>2, SMT
    <2> HIDE DEF byte, start, size
    <2>3. SUFFICES ASSUME NEW k \in 1..size
                   PROVE  byte(start + k) = IF mask = <<>> THEN payload[k]
                                            ELSE BitXor(payload[k], mask[MaskAt(k)])
      OBVIOUS
    <2>4. byte(start + k) =
            IF mask = <<>> THEN payload[(start + k) - start]
            ELSE BitXor(payload[(start + k) - start], mask[MaskAt((start + k) - start)])
      BY <2>1, <2>2
    <2> QED BY <2>2, <2>4
  <1>12. byte(1) = (IF fin THEN 128 ELSE 0) + opcode
    BY SMT
  <1>13. byte(2) = SizeCode(size) + Masked(mask)
    BY SMT
  <1> HIDE DEF byte
  <1> QED BY <1>4, <1>5, <1>6, <1>7, <1>8, <1>9, <1>10, <1>11, <1>12, <1>13, SMT

\* The two bytes at the head tell how long it is, the whole head the size.
LEMMA HeadRead ==
  ASSUME NEW fin \in BOOLEAN, NEW opcode \in Opcode, NEW payload \in Seq(Byte),
         NEW mask \in Mask, Len(payload) <= MaxSize,
         NEW head, head = HeadLength(SizeCode(Len(payload))),
         NEW frame, frame = CreateFrame(fin, opcode, payload, mask),
         NEW data \in Seq(Byte), Len(data) >= 2, data[2] = frame[2]
  PROVE  /\ FrameHead(data) = head
         /\ FrameStart(data) = head + Len(mask)
         /\ data[2] >= 128 <=> mask # <<>>
         /\ (\A i \in 3..head : data[i] = frame[i]) => PayloadSize(data) = Len(payload)
  <1> DEFINE size == Len(payload)
             code == SizeCode(size)
  <1>1. /\ size \in Nat /\ code \in 0..127 /\ Len(mask) \in {0, 4}
        /\ mask = <<>> <=> Len(mask) = 0
    BY SizeFields, SMT DEF Mask
  <1>2. data[2] = code + Masked(mask)
    BY FrameLayout
  <1>3. \A c \in 0..127 : /\ (c + 128) % 128 = c /\ (c + 0) % 128 = c
                          /\ c + 128 >= 128 /\ ~(c + 0 >= 128)
    BY SMT
  <1>4. data[2] % 128 = code /\ (data[2] >= 128 <=> mask # <<>>)
    <2> HIDE DEF code
    <2>1. CASE mask = <<>>
      BY <2>1, <1>1, <1>2, <1>3 DEF Masked
    <2>2. CASE mask # <<>>
      BY SMTT(30), <2>2, <1>1, <1>2, <1>3 DEF Masked
    <2> QED BY <2>1, <2>2
  <1>5. FrameHead(data) = head
    BY <1>4 DEF FrameHead
  <1>6. FrameStart(data) = head + Len(mask)
    <2>1. Len(mask) = IF data[2] >= 128 THEN 4 ELSE 0
      BY <1>1, <1>4
    <2> QED BY <1>5, <2>1 DEF FrameStart
  <1>7. ASSUME \A i \in 3..head : data[i] = frame[i]
        PROVE  PayloadSize(data) = size
    <2>1. \A i \in 3..head : data[i] = SizeBytes(size)[i - 2]
      BY <1>7, FrameLayout, SMT
    <2> HIDE DEF size
    <2>2. CASE size < 126
      <3>1. code = size
        BY <2>2, SizeFields, <1>1, SMT DEF size
      <3> QED BY <2>2, <3>1, <1>4, SMT DEF PayloadSize
    <2>3. CASE size >= 126 /\ size < 65536
      <3>1. code = 126 /\ head = 4
        BY <2>3, <1>1, SizeFields, SMT DEF size
      <3>2. SizeBytes(size) = Write16(size)
        BY <2>3, SMT DEF SizeBytes
      <3>3. data[3] = Write16(size)[1] /\ data[4] = Write16(size)[2]
        BY <2>1, <3>1, <3>2, SMT
      <3>4. Read16(data, 3) = size
        BY <2>3, <3>3, <1>1, Written16, SMT DEF Read16
      <3> QED BY <3>1, <3>4, <1>4, SMT DEF PayloadSize
    <2>4. CASE size >= 65536
      <3> DEFINE w == Write64(size)
      <3>1. code = 127 /\ head = 10
        BY <2>4, <1>1, SizeFields, SMT DEF size
      <3>2. SizeBytes(size) = w
        BY <2>4, <1>1, SMT DEF SizeBytes
      <3> HIDE DEF w
      <3>3. /\ data[3] = w[1] /\ data[4] = w[2] /\ data[5] = w[3] /\ data[6] = w[4]
            /\ data[7] = w[5] /\ data[8] = w[6] /\ data[9] = w[7] /\ data[10] = w[8]
        BY <2>1, <3>1, <3>2, SMT
      <3>4. /\ w \in Seq(Byte) /\ Len(w) = 8
            /\ w[1] = 0 /\ w[2] = 0 /\ w[3] = 0 /\ w[4] = 0
            /\ 256 * (256 * (256 * w[5] + w[6]) + w[7]) + w[8] = size
        BY <1>1, Written64, SMT DEF w, size
      <3>5. \A i \in 1..8 : w[i] \in Int
        <4>1. \A s \in Seq(Byte) : \A i \in 1..Len(s) : s[i] \in Byte
          OBVIOUS
        <4>2. \A b \in Byte : b \in Int
          BY SMT DEF Byte
        <4> QED BY <3>4, <4>1, <4>2
      <3>6. Read64(data, 3) = size
        <4>1. ASSUME NEW b \in [1..8 -> Int], b[1] = 0, b[2] = 0, b[3] = 0, b[4] = 0
              PROVE  256 * (256 * (256 * (256 * (256 * (256 * (256 * b[1] + b[2])
                       + b[3]) + b[4]) + b[5]) + b[6]) + b[7]) + b[8]
                     = 256 * (256 * (256 * b[5] + b[6]) + b[7]) + b[8]
          BY <4>1, SMT
        <4>2. Read64(data, 3) =
                256 * (256 * (256 * (256 * (256 * (256 * (256 * w[1] + w[2])
                  + w[3]) + w[4]) + w[5]) + w[6]) + w[7]) + w[8]
          <5>1. 3 + 1 = 4 /\ 3 + 2 = 5 /\ 3 + 3 = 6 /\ 3 + 4 = 7 /\ 3 + 5 = 8 /\ 3 + 6 = 9 /\ 3 + 7 = 10
            BY SMT
          <5> QED BY <3>3, <5>1, SMT DEF Read64
        <4>3. w \in [1..8 -> Int]
          BY <3>4, <3>5, SMT
        <4> QED BY <3>4, <4>1, <4>2, <4>3
      <3> QED BY <3>1, <3>6, <1>4, SMT DEF PayloadSize
    <2> QED BY <2>2, <2>3, <2>4, <1>1, SMT
  <1> QED BY <1>4, <1>5, <1>6, <1>7

\* A buffer that begins with a frame createFrame made is ready to be parsed, and
\* parseFrame returns what the frame was made of and how long it is, whatever
\* follows it: masked or not, for each of the three forms of the size.
THEOREM ParseInvertsCreate ==
  ASSUME NEW fin \in BOOLEAN, NEW opcode \in Opcode, NEW payload \in Seq(Byte),
         NEW mask \in Mask, Len(payload) <= MaxSize,
         NEW frame, frame = CreateFrame(fin, opcode, payload, mask),
         NEW data \in Seq(Byte), StartsWith(data, frame)
  PROVE  /\ CheckFrame(data) = 2
         /\ ParseFrame(data) = [ fin |-> fin, opcode |-> opcode,
                                 bytesRead |-> Len(frame), payload |-> payload ]
  <1> DEFINE size == Len(payload)
             head == HeadLength(SizeCode(size))
             start == head + Len(mask)
  <1>1. /\ size \in Nat /\ head \in {2, 4, 10} /\ Len(mask) \in {0, 4}
        /\ start \in Nat /\ start >= 2 /\ mask \in Seq(Byte)
        /\ mask = <<>> <=> Len(mask) = 0
    BY SizeFields, SMT DEF Mask
  <1>2. frame \in Seq(Byte) /\ Len(frame) = start + size
    BY FrameLayout
  <1> HIDE DEF size, head, start
  <1>3. Len(data) >= start + size /\ \A i \in 1..start + size : data[i] = frame[i]
    BY <1>2 DEF StartsWith
  <1>4. 1 \in 1..start + size /\ 2 \in 1..start + size /\ Len(data) >= 2 /\ Len(data) >= head
    BY <1>1, <1>3, SMT DEF start
  <1>5. \A i \in 3..head : data[i] = frame[i]
    BY <1>1, <1>3, SMT DEF start
  <1>6. /\ FrameHead(data) = head /\ FrameStart(data) = start
        /\ data[2] >= 128 <=> mask # <<>>
        /\ PayloadSize(data) = size
    BY <1>3, <1>4, <1>5, HeadRead DEF head, start, size
  <1>7. CheckFrame(data) = 2
    BY <1>1, <1>3, <1>4, <1>6, SMT DEF CheckFrame
  <1>8. (data[1] >= 128) = fin /\ data[1] % 16 = opcode
    <2>1. data[1] = (IF fin THEN 128 ELSE 0) + opcode
      BY <1>3, <1>4, FrameLayout
    <2>2. \A code \in Opcode : /\ 128 + code >= 128 /\ (128 + code) % 128 = code
                               /\ (128 + code) % 16 = code
                               /\ ~(0 + code >= 128) /\ (0 + code) % 16 = code
      BY SMT DEF Opcode
    <2>3. CASE fin = TRUE
      BY SMTT(30), ZenonT(30), <2>1, <2>2, <2>3
    <2>4. CASE fin = FALSE
      <3>1. ~(data[1] >= 128) /\ data[1] % 16 = opcode
        BY <2>1, <2>2, <2>4
      <3> QED BY <2>4, <3>1
    <2> QED BY <2>3, <2>4
  <1>9. ASSUME NEW k \in 1..size
        PROVE  payload[k] = IF data[2] >= 128
                              THEN BitXor(data[start + k], data[head + MaskAt(k)])
                              ELSE data[start + k]
    <2>1. payload[k] \in Byte
      BY SMT DEF size
    <2>2. data[start + k] = IF mask = <<>> THEN payload[k]
                            ELSE BitXor(payload[k], mask[MaskAt(k)])
      <3>1. start + k \in 1..start + size
        BY <1>1, SMT
      <3>2. frame[start + k] = IF mask = <<>> THEN payload[k]
                               ELSE BitXor(payload[k], mask[MaskAt(k)])
        BY FrameLayout DEF start, head, size
      <3> QED BY <1>3, <3>1, <3>2
    <2>3. CASE mask = <<>>
      BY <1>6, <2>2, <2>3
    <2>4. CASE mask # <<>>
      <3>1. MaskAt(k) \in 1..4
        BY <1>1, SMT DEF MaskAt
      <3>2. Len(mask) = 4 /\ mask[MaskAt(k)] \in Byte
        BY <1>1, <2>4, <3>1, SMT
      <3>3. head + MaskAt(k) \in 1..start + size
        BY <1>1, <3>1, <3>2, SMT DEF start
      <3>4. frame[head + MaskAt(k)] = mask[MaskAt(k)]
        <4>1. MaskAt(k) \in 1..Len(mask)
          BY <3>1, <3>2
        <4>2. \A i \in 1..Len(mask) : frame[head + i] = mask[i]
          BY FrameLayout DEF head, size
        <4> QED BY <4>1, <4>2
      <3>5. data[head + MaskAt(k)] = mask[MaskAt(k)]
        BY <1>3, <3>3, <3>4
      <3>6. data[start + k] = BitXor(payload[k], mask[MaskAt(k)])
        BY <2>2, <2>4
      <3>7. BitXor(BitXor(payload[k], mask[MaskAt(k)]), mask[MaskAt(k)]) = payload[k]
        BY <2>1, <3>2, XorAssumption
      <3> QED BY <1>6, <2>4, <3>5, <3>6, <3>7
    <2> QED BY <2>3, <2>4
  <1>10. payload = [k \in 1..size |-> payload[k]]
    BY SMT DEF size
  <1>11. [k \in 1..size |->
            IF data[2] >= 128 THEN BitXor(data[start + k], data[head + MaskAt(k)])
            ELSE data[start + k]] = payload
    BY <1>9, <1>10
  <1> QED BY <1>2, <1>6, <1>7, <1>8, <1>11, ZenonT(30) DEF ParseFrame

\* While only a part of a frame has arrived, checkFrame asks for more, and once
\* it says that it knows the size it does.
THEOREM PartialFrameWaits ==
  ASSUME NEW fin \in BOOLEAN, NEW opcode \in Opcode, NEW payload \in Seq(Byte),
         NEW mask \in Mask, Len(payload) <= MaxSize,
         NEW frame, frame = CreateFrame(fin, opcode, payload, mask),
         NEW data \in Seq(Byte), StartsWith(frame, data), Len(data) < Len(frame)
  PROVE  /\ CheckFrame(data) \in {0, 1}
         /\ CheckFrame(data) = 1 => PayloadSize(data) = Len(payload)
  <1> DEFINE head == HeadLength(SizeCode(Len(payload)))
  <1>1. Len(data) \in Nat /\ head \in {2, 4, 10}
    BY SizeFields, SMT
  <1>2. Len(frame) = head + Len(mask) + Len(payload)
    BY FrameLayout
  <1>3. \A i \in 1..Len(data) : data[i] = frame[i]
    BY DEF StartsWith
  <1> HIDE DEF head
  <1>4. CASE Len(data) < 2
    BY <1>4, SMT DEF CheckFrame
  <1>5. CASE Len(data) >= 2
    <2>1. data[2] = frame[2]
      BY <1>1, <1>3, <1>5, SMT
    <2>2. FrameHead(data) = head /\ FrameStart(data) = head + Len(mask)
      BY <1>5, <2>1, HeadRead DEF head
    <2>3. CASE Len(data) < head
      BY <1>1, <1>5, <2>2, <2>3, SMT DEF CheckFrame
    <2>4. CASE Len(data) >= head
      <3>1. \A i \in 3..head : data[i] = frame[i]
        BY <1>1, <1>3, <2>4, SMT
      <3>2. PayloadSize(data) = Len(payload)
        BY <1>5, <2>1, <3>1, HeadRead DEF head
      <3>3. Len(data) < FrameStart(data) + PayloadSize(data)
        BY <1>2, <2>2, <3>2
      <3> QED BY <1>1, <1>5, <2>2, <2>4, <3>2, <3>3, SMT DEF CheckFrame
    <2> QED BY <1>1, <2>3, <2>4, SMT
  <1> QED BY <1>1, <1>4, <1>5, SMT

----------------------------------------------------------------------------
\* Chunks.

\* What a server sends for a payload whose size it wrote as line.
Chunk(line, payload) ==
  LET start == Len(line) + 2
      size == Len(payload)
  IN  [i \in 1..start + size + 2 |->
         IF i <= Len(line) THEN line[i]
         ELSE IF i <= start THEN IF i = start THEN LF ELSE CR
         ELSE IF i <= start + size THEN payload[i - start]
         ELSE IF i = start + size + 1 THEN CR ELSE LF]

\* A line of hexadecimal digits, read as the number it was written for.
IsSizeLine(line, size) ==
  /\ line \in Seq(Byte)
  /\ \A i \in 1..Len(line) : line[i] # CR
  /\ ToInt(line) = size

LEMMA ChunkLayout ==
  ASSUME NEW payload \in Seq(Byte), NEW line, IsSizeLine(line, Len(payload)),
         NEW chunk, chunk = Chunk(line, payload)
  PROVE  LET start == Len(line) + 2
             size == Len(payload)
         IN  /\ Len(line) \in Nat /\ size \in Nat
             /\ Len(chunk) = start + size + 2
             /\ \A i \in 1..Len(line) : chunk[i] = line[i] /\ chunk[i] # CR
             /\ chunk[start - 1] = CR /\ chunk[start] = LF
             /\ \A k \in 1..size : chunk[start + k] = payload[k]
             /\ chunk[start + size + 1] = CR /\ chunk[start + size + 2] = LF
  <1> DEFINE start == Len(line) + 2
             size == Len(payload)
  <1>1. Len(line) \in Nat /\ size \in Nat
    BY SMT DEF IsSizeLine
  <1>2. Len(chunk) = start + size + 2
    BY <1>1, SMT DEF Chunk
  <1>3. \A i \in 1..Len(line) : chunk[i] = line[i] /\ chunk[i] # CR
    BY <1>1, SMT DEF Chunk, IsSizeLine
  <1>4. chunk[start - 1] = CR /\ chunk[start] = LF
    BY <1>1, SMT DEF Chunk
  <1>5. \A k \in 1..size : chunk[start + k] = payload[k]
    BY <1>1, SMT DEF Chunk
  <1>6. chunk[start + size + 1] = CR /\ chunk[start + size + 2] = LF
    BY <1>1, SMT DEF Chunk
  <1> QED BY <1>1, <1>2, <1>3, <1>4, <1>5, <1>6

\* The first line break of what begins like a chunk is the one after its size.
LEMMA FirstLinebreak ==
  ASSUME NEW payload \in Seq(Byte), NEW line, IsSizeLine(line, Len(payload)),
         NEW chunk, chunk = Chunk(line, payload),
         NEW data \in Seq(Byte),
         \A i \in 1..Len(data) : i <= Len(line) + 2 => data[i] = chunk[i]
  PROVE  /\ Len(data) < Len(line) + 2 => FindLinebreak(data) = 0
         /\ Len(data) >= Len(line) + 2 =>
              /\ FindLinebreak(data) = Len(line) + 1
              /\ ChunkSize(data) = Len(payload)
              /\ ChunkStart(data) = Len(line) + 2
  <1> DEFINE at == Len(line) + 1
  <1>1. /\ Len(line) \in Nat /\ Len(data) \in Nat
        /\ \A i \in 1..Len(line) : chunk[i] = line[i] /\ chunk[i] # CR
        /\ chunk[at] = CR /\ chunk[at + 1] = LF
    BY ChunkLayout, SMT
  <1>2. \A n \in LineBreaks(data) : n >= at
    BY <1>1, SMT DEF LineBreaks
  <1>3. ASSUME Len(data) < Len(line) + 2
        PROVE  FindLinebreak(data) = 0
    <2>1. LineBreaks(data) = {}
      BY SMTT(30), <1>1, <1>2, <1>3, SMT DEF LineBreaks
    <2> QED BY <2>1 DEF FindLinebreak
  <1>4. ASSUME Len(data) >= Len(line) + 2
        PROVE  FindLinebreak(data) = at
    <2>1. data[at] = CR /\ data[at + 1] = LF
      BY <1>1, <1>4, SMT
    <2>2. at \in LineBreaks(data)
      BY <1>1, <1>4, <2>1, SMT DEF LineBreaks
    <2>3. \A n \in LineBreaks(data) : n \in Int /\ at \in Int
      BY <1>1, SMT DEF LineBreaks
    <2>4. \A n \in LineBreaks(data) :
            (\A m \in LineBreaks(data) : n <= m) => n = at
      BY <1>2, <2>2, <2>3, SMT
    <2> QED BY <1>2, <2>2, <2>4 DEF FindLinebreak
  <1>5. ASSUME Len(data) >= Len(line) + 2
        PROVE  SubSeq(data, 1, at - 1) = line
    <2>1. \A i \in 1..Len(line) : data[i] = line[i]
      BY <1>1, <1>5, SMT
    <2> QED BY <1>1, <1>5, <2>1, SMT DEF IsSizeLine
  <1>6. at + 1 = Len(line) + 2
    BY <1>1, SMT
  <1> QED BY <1>3, <1>4, <1>5, <1>6 DEF ChunkSize, ChunkStart, IsSizeLine

\* A buffer that begins with a chunk is ready to be parsed, and parseChunk
\* returns the payload and how long the chunk is, whatever follows it.
THEOREM ParseInvertsChunk ==
  ASSUME NEW payload \in Seq(Byte), NEW line, IsSizeLine(line, Len(payload)),
         NEW chunk, chunk = Chunk(line, payload),
         NEW data \in Seq(Byte), StartsWith(data, chunk)
  PROVE  /\ CheckChunk(data) = 2
         /\ ParseChunk(data) = [bytesRead |-> Len(chunk), payload |-> payload]
  <1> DEFINE start == Len(line) + 2
             size == Len(payload)
  <1>1. /\ Len(line) \in Nat /\ size \in Nat /\ start \in Nat
        /\ Len(chunk) = start + size + 2
        /\ \A k \in 1..size : chunk[start + k] = payload[k]
        /\ chunk[start + size + 1] = CR /\ chunk[start + size + 2] = LF
    <2>1. Len(line) \in Nat /\ size \in Nat
      BY ChunkLayout
    <2>2. start \in Nat
      BY <2>1, SMT
    <2> QED BY <2>1, <2>2, ChunkLayout
  <1>2. Len(data) \in Nat /\ Len(data) >= start + size + 2
    BY <1>1, SMT DEF StartsWith
  <1>3. \A i \in 1..start + size + 2 : data[i] = chunk[i]
    BY <1>1 DEF StartsWith
  <1>4. /\ FindLinebreak(data) = start - 1 /\ FindLinebreak(data) # 0
        /\ ChunkSize(data) = size /\ ChunkStart(data) = start
    <2>1. \A i \in 1..Len(data) : i <= start => data[i] = chunk[i]
      BY <1>1, <1>2, <1>3, SMT
    <2>2. Len(data) >= start /\ start - 1 = Len(line) + 1 /\ Len(line) + 1 # 0
      BY <1>1, <1>2, SMT
    <2> QED BY <2>1, <2>2, FirstLinebreak
  <1> HIDE DEF start, size
  <1>5. data[start + size + 1] = CR /\ data[start + size + 2] = LF
    BY <1>1, <1>3, SMT
  <1>6. CheckChunk(data) = 2
    <2>1. size # -1 /\ ~(Len(data) < (start + size) + 2)
      BY <1>1, <1>2, SMT
    <2> QED BY <1>4, <1>5, <2>1 DEF CheckChunk, NotANumber
  <1>7. SubSeq(data, start + 1, start + size) = payload
    <2>1. \A k \in 1..size : data[start + k] = payload[k]
      BY <1>1, <1>3, SMT
    <2> QED BY <1>1, <1>2, <2>1, SMT DEF size
  <1> QED BY <1>1, <1>4, <1>6, <1>7 DEF ParseChunk

\* While only a part of a chunk has arrived, checkChunk reports neither an error
\* nor a chunk, and once it says that it knows the size it does.
THEOREM PartialChunkWaits ==
  ASSUME NEW payload \in Seq(Byte), NEW line, IsSizeLine(line, Len(payload)),
         NEW chunk, chunk = Chunk(line, payload),
         NEW data \in Seq(Byte), StartsWith(chunk, data), Len(data) < Len(chunk)
  PROVE  /\ CheckChunk(data) \in {0, 1}
         /\ CheckChunk(data) = 1 => ChunkSize(data) = Len(payload)
  <1> DEFINE start == Len(line) + 2
             size == Len(payload)
  <1>1. /\ Len(line) \in Nat /\ size \in Nat /\ Len(data) \in Nat
        /\ Len(chunk) = start + size + 2
    BY ChunkLayout, SMT
  <1>2. \A i \in 1..Len(data) : i <= start => data[i] = chunk[i]
    BY DEF StartsWith
  <1>3. CASE Len(data) < start
    <2>1. FindLinebreak(data) = 0
      BY <1>2, <1>3, FirstLinebreak
    <2> QED BY <2>1, SMT DEF CheckChunk
  <1>4. CASE Len(data) >= start
    <2>1. /\ FindLinebreak(data) = Len(line) + 1
          /\ ChunkSize(data) = size /\ ChunkStart(data) = start
      BY <1>2, <1>4, FirstLinebreak
    <2>2. Len(data) < (start + size) + 2 /\ Len(line) + 1 # 0 /\ size # -1
      BY <1>1, SMT
    <2> HIDE DEF start, size
    <2>3. CheckChunk(data) = 1
      BY <2>1, <2>2, SMT DEF CheckChunk, NotANumber
    <2> QED BY <2>1, <2>3 DEF size
  <1> QED BY <1>1, <1>3, <1>4, SMT

=============================================================================
