---------------------------- MODULE FramingProofs ---------------------------
(* Proofs about Framing, for every byte base, read size, set of senders and *)
(* set of messages that satisfy the assumptions.                            *)
EXTENDS Framing, TLAPS, SequenceTheorems

\* Division with remainder, the way PutUint32 uses it.
LEMMA DivMod ==
  ASSUME NEW n \in Nat
  PROVE  /\ n \div Base \in Nat
         /\ n % Base \in Byte
         /\ n = (n \div Base) * Base + (n % Base)
BY BaseAssumption DEF Byte

\* Dividing a number below c * Base by Base leaves one below c.
LEMMA DivBound ==
  ASSUME NEW n \in Nat, NEW c \in Nat, n < c * Base
  PROVE  n \div Base < c
<1> DEFINE q == n \div Base
<1>1. q \in Nat /\ q * Base <= n
  <2>1. q \in Nat /\ n % Base \in Byte /\ n = q * Base + (n % Base)
    BY DivMod
  <2>2. q * Base \in Nat /\ n % Base \in Nat
    BY <2>1, BaseAssumption DEF Byte
  <2> HIDE DEF q
  <2> QED BY <2>1, <2>2
<1>2. SUFFICES ASSUME c <= q PROVE FALSE
  BY <1>1
<1>3. c * Base <= q * Base
  BY <1>1, <1>2, BaseAssumption
<1> QED
  BY <1>1, <1>3, BaseAssumption

\* Reading back what PutUint32 wrote gives the number, if it is a uint32.
LEMMA Uint32Put ==
  ASSUME NEW n \in 0 .. (Word - 1), NEW b, NEW i \in Nat,
         \A k \in 1 .. 4 : b[i+k] = PutUint32(n)[k]
  PROVE  Uint32(b, i) = n
<1> DEFINE n1 == n \div Base
           n2 == n1 \div Base
           n3 == n2 \div Base
<1>1. /\ Base \in Nat /\ Base * Base \in Nat /\ Base * Base * Base \in Nat
      /\ Word = (Base * Base * Base) * Base
  BY BaseAssumption DEF Word
<1>2. n \in Nat /\ n < (Base * Base * Base) * Base
  BY <1>1
<1>3. n1 \in Nat /\ n1 < (Base * Base) * Base
  BY <1>1, <1>2, DivMod, DivBound
<1>4. n2 \in Nat /\ n2 < Base * Base
  BY <1>1, <1>3, DivMod, DivBound
<1>5. n3 \in Nat /\ n3 < Base
  BY <1>1, <1>4, DivMod, DivBound
<1>6. n3 % Base = n3
  BY <1>5, BaseAssumption
<1>7. /\ n = n1 * Base + (n % Base)
      /\ n1 = n2 * Base + (n1 % Base)
      /\ n2 = n3 * Base + (n2 % Base)
  BY <1>2, <1>3, <1>4, DivMod
<1>8. /\ b[i+1] = n3 % Base
      /\ b[i+2] = n2 % Base
      /\ b[i+3] = n1 % Base
      /\ b[i+4] = n % Base
  <2>1. PutUint32(n) = <<n3 % Base, n2 % Base, n1 % Base, n % Base>>
    BY DEF PutUint32
  <2> HIDE DEF n1, n2, n3
  <2> QED BY <2>1
<1> HIDE DEF n1, n2, n3
<1> QED
  BY <1>6, <1>7, <1>8 DEF Uint32

LEMMA PutUint32Type ==
  ASSUME NEW n \in Nat
  PROVE  PutUint32(n) \in Seq(Byte) /\ Len(PutUint32(n)) = 4
<1> DEFINE n1 == n \div Base
           n2 == n1 \div Base
           n3 == n2 \div Base
<1>1. n1 \in Nat /\ n2 \in Nat /\ n3 \in Nat
  BY DivMod
<1>2. n % Base \in Byte /\ n1 % Base \in Byte /\ n2 % Base \in Byte /\ n3 % Base \in Byte
  BY <1>1, DivMod
<1>3. PutUint32(n) = <<n3 % Base, n2 % Base, n1 % Base, n % Base>>
  BY DEF PutUint32
<1> HIDE DEF n1, n2, n3
<1> QED
  BY <1>2, <1>3

\* One digit more.
LEMMA DigitBound ==
  ASSUME NEW x \in Nat, NEW y \in Nat, NEW c \in Nat, x < c, y < Base
  PROVE  x * Base + y \in Nat /\ x * Base + y < c * Base
<1>1. (x + 1) * Base <= c * Base
  BY BaseAssumption
<1>2. (x + 1) * Base = x * Base + Base
  BY BaseAssumption
<1>3. x * Base \in Nat /\ c * Base \in Nat
  BY BaseAssumption
<1> QED BY <1>1, <1>2, <1>3, BaseAssumption

\* Four bytes make a uint32.
LEMMA Uint32Range ==
  ASSUME NEW b \in Seq(Byte), NEW i \in Nat, i + 4 <= Len(b)
  PROVE  Uint32(b, i) \in 0 .. (Word - 1)
<1> DEFINE w2 == b[i+1] * Base + b[i+2]
           w3 == w2 * Base + b[i+3]
           w4 == w3 * Base + b[i+4]
<1>1. \A k \in 1 .. 4 : b[i+k] \in Nat /\ b[i+k] < Base
  BY BaseAssumption DEF Byte
<1>2. /\ b[i+1] \in Nat /\ b[i+1] < Base /\ b[i+2] \in Nat /\ b[i+2] < Base
      /\ b[i+3] \in Nat /\ b[i+3] < Base /\ b[i+4] \in Nat /\ b[i+4] < Base
  BY <1>1
<1>3. Base \in Nat /\ Base * Base \in Nat /\ Base * Base * Base \in Nat
  BY BaseAssumption
<1>4. w2 \in Nat /\ w2 < Base * Base
  BY <1>2, <1>3, DigitBound, Zenon
<1> HIDE DEF w2
<1>5. w3 \in Nat /\ w3 < Base * Base * Base
  BY <1>2, <1>3, <1>4, DigitBound, Zenon
<1> HIDE DEF w3
<1>6. w4 \in Nat /\ w4 < Word
  BY <1>2, <1>3, <1>5, DigitBound, Zenon DEF Word
<1>7. Uint32(b, i) = w4
  BY DEF Uint32, w2, w3
<1> HIDE DEF w4
<1>8. Word \in Nat
  BY BaseAssumption DEF Word
<1> QED
  BY <1>6, <1>7, <1>8

\* Where the bytes of a concatenation come from.
LEMMA ConcatBytes ==
  ASSUME NEW s \in Seq(Byte), NEW t \in Seq(Byte)
  PROVE  /\ s \o t \in Seq(Byte)
         /\ Len(s \o t) = Len(s) + Len(t)
         /\ \A k \in 1 .. Len(s) : (s \o t)[k] = s[k]
         /\ \A k \in 1 .. Len(t) : (s \o t)[Len(s) + k] = t[k]
<1>1. /\ s \o t \in Seq(Byte)
      /\ Len(s \o t) = Len(s) + Len(t)
      /\ \A k \in 1 .. Len(s) + Len(t) :
            (s \o t)[k] = IF k <= Len(s) THEN s[k] ELSE t[k - Len(s)]
  BY ConcatProperties, Zenon
<1>2. ASSUME NEW k \in 1 .. Len(s)
      PROVE  (s \o t)[k] = s[k]
  BY <1>1
<1>3. ASSUME NEW k \in 1 .. Len(t)
      PROVE  (s \o t)[Len(s) + k] = t[k]
  <2> DEFINE j == Len(s) + k
  <2>1. j \in 1 .. Len(s) + Len(t) /\ ~ (j <= Len(s)) /\ j - Len(s) = k
    OBVIOUS
  <2> HIDE DEF j
  <2>2. (s \o t)[j] = t[k]
    BY <1>1, <2>1
  <2> QED BY <2>2 DEF j
<1> QED BY <1>1, <1>2, <1>3

\* The layout of a packet.
LEMMA PacketProps ==
  ASSUME NEW m \in Msgs
  PROVE  /\ Packet(m) \in Seq(Byte)
         /\ Len(Packet(m)) = 8 + Len(m.data)
         /\ \A k \in 1 .. 4 : Packet(m)[k] = PutUint32(Len(m.data))[k]
         /\ \A k \in 1 .. 4 : Packet(m)[4 + k] = PutUint32(m.type)[k]
         /\ \A k \in 1 .. Len(m.data) : Packet(m)[8 + k] = m.data[k]
<1> DEFINE p == PutUint32(Len(m.data))
           q == PutUint32(m.type)
<1>1. m.data \in Seq(Byte) /\ m.type \in Nat /\ Len(m.data) \in Nat
  BY MsgsAssumption
<1>2. p \in Seq(Byte) /\ Len(p) = 4 /\ q \in Seq(Byte) /\ Len(q) = 4
  BY <1>1, PutUint32Type
<1>3. Packet(m) = (p \o q) \o m.data
  BY DEF Packet
<1> HIDE DEF p, q
<1>4. /\ p \o q \in Seq(Byte)
      /\ Len(p \o q) = Len(p) + Len(q)
      /\ \A k \in 1 .. Len(p) : (p \o q)[k] = p[k]
      /\ \A k \in 1 .. Len(q) : (p \o q)[Len(p) + k] = q[k]
  BY <1>2, ConcatBytes, Zenon
<1> DEFINE h == p \o q
<1>5. h \in Seq(Byte) /\ Len(h) = 8
  BY <1>2, <1>4
<1>6. \A k \in 1 .. 4 : h[k] = p[k] /\ h[4 + k] = q[k]
  BY <1>2, <1>4
<1>7. Packet(m) = h \o m.data
  BY <1>3
<1> HIDE DEF h
<1>8. /\ h \o m.data \in Seq(Byte)
      /\ Len(h \o m.data) = Len(h) + Len(m.data)
      /\ \A k \in 1 .. Len(h) : (h \o m.data)[k] = h[k]
      /\ \A k \in 1 .. Len(m.data) : (h \o m.data)[Len(h) + k] = m.data[k]
  BY <1>1, <1>5, ConcatBytes, Zenon
<1>9. ASSUME NEW k \in 1 .. 4
      PROVE  Packet(m)[k] = p[k] /\ Packet(m)[4 + k] = q[k]
  BY <1>5, <1>6, <1>7, <1>8
<1> QED
  BY <1>5, <1>7, <1>8, <1>9 DEF p, q

-----------------------------------------------------------------------------
(* Type correctness. *)

LEMMA WordNat == Word \in Nat
BY BaseAssumption DEF Word

\* What Conn.Read appends to ReadBuf.
LEMMA ReadProps ==
  ASSUME TypeOK, NEW n \in 1 .. ReadChunk, Read(n)
  PROVE  /\ readPos' \in 0 .. Len(stream)
         /\ ReadBuf' \in Seq(Byte)
         /\ Len(ReadBuf') = Len(ReadBuf) + n
         /\ \A k \in 1 .. Len(ReadBuf) : ReadBuf'[k] = ReadBuf[k]
         /\ \A k \in 1 .. n : ReadBuf'[Len(ReadBuf) + k] = stream[readPos + k]
<1> DEFINE t == SubSeq(stream, readPos + 1, readPos + n)
<1>1. /\ n \in Nat /\ n >= 1 /\ readPos \in Nat /\ readPos + n <= Len(stream)
      /\ ReadBuf \in Seq(Byte) /\ stream \in Seq(Byte)
  BY ChunkAssumption DEF TypeOK, Read
<1>2. /\ t \in Seq(Byte)
      /\ Len(t) = n
      /\ \A k \in 1 .. n : t[k] = stream[readPos + k]
  BY <1>1
<1>3. ReadBuf' = ReadBuf \o t
  BY DEF Read
<1> HIDE DEF t
<1>4. /\ ReadBuf \o t \in Seq(Byte)
      /\ Len(ReadBuf \o t) = Len(ReadBuf) + Len(t)
      /\ \A k \in 1 .. Len(ReadBuf) : (ReadBuf \o t)[k] = ReadBuf[k]
      /\ \A k \in 1 .. Len(t) : (ReadBuf \o t)[Len(ReadBuf) + k] = t[k]
  BY <1>1, <1>2, ConcatBytes, Zenon
<1>5. readPos' \in 0 .. Len(stream)
  BY <1>1 DEF Read
<1> QED
  BY <1>2, <1>3, <1>4, <1>5

\* Init => TypeOK.
LEMMA TypeInit == Init => TypeOK
BY WordNat, BaseAssumption DEF Init, TypeOK, Word

\* Every step preserves TypeOK.
LEMMA TypeNext == TypeOK /\ [Next]_vars => TypeOK'
<1> SUFFICES ASSUME TypeOK, [Next]_vars PROVE TypeOK'
  OBVIOUS
<1>1. ASSUME NEW s \in Senders, NEW m \in Msgs, SendMsgLock(s, m)
      PROVE  TypeOK'
  <2>1. Packet(m) \in Seq(Byte)
    BY PacketProps
  <2>2. /\ sent' \in Seq(Msgs) /\ starts' \in Seq(Nat) /\ cut' \in 0 .. Len(sent')
    BY <1>1 DEF SendMsgLock, TypeOK
  <2> QED
    BY <1>1, <2>1, <2>2 DEF SendMsgLock, TypeOK, readerVars
<1>2. ASSUME NEW s \in Senders, WriteByte(s)
      PROVE  TypeOK'
  <2>1. unwritten[s] \in Seq(Byte) /\ unwritten[s] # << >>
    BY <1>2 DEF WriteByte, TypeOK
  <2>2. Head(unwritten[s]) \in Byte /\ Tail(unwritten[s]) \in Seq(Byte)
    BY <2>1
  <2>3. stream' \in Seq(Byte) /\ Len(stream') = Len(stream) + 1
    BY <1>2, <2>2 DEF WriteByte, TypeOK
  <2>4. readPos' \in 0 .. Len(stream')
    BY <1>2, <2>3 DEF WriteByte, TypeOK, readerVars
  <2> QED
    BY <1>2, <2>2, <2>3, <2>4 DEF WriteByte, TypeOK, readerVars
<1>3. ASSUME NEW s \in Senders, SendMsgUnlock(s)
      PROVE  TypeOK'
  BY <1>3 DEF SendMsgUnlock, TypeOK, readerVars
<1>4. ASSUME NEW s \in Senders, WriteFail(s)
      PROVE  TypeOK'
  BY <1>4 DEF WriteFail, TypeOK, readerVars
<1>5. CASE ReadHeader
  <2>1. PICK n \in 1 .. ReadChunk : Read(n)
    BY <1>5 DEF ReadHeader
  <2>2. readPos' \in 0 .. Len(stream) /\ ReadBuf' \in Seq(Byte)
    BY <2>1, ReadProps
  <2>3. ReadMsgPayloadLth' \in 0 .. (Word - 1)
    <3>1. Len(ReadBuf') >= 4 => Uint32(ReadBuf', 0) \in 0 .. (Word - 1)
      BY <2>2, Uint32Range
    <3> QED BY <1>5, <3>1 DEF ReadHeader, TypeOK
  <2> QED
    BY <1>5, <2>2, <2>3 DEF ReadHeader, TypeOK, writerVars
<1>6. CASE ReadBody
  <2>1. PICK n \in 1 .. ReadChunk : Read(n)
    BY <1>6 DEF ReadBody
  <2>2. readPos' \in 0 .. Len(stream) /\ ReadBuf' \in Seq(Byte)
    BY <2>1, ReadProps
  <2> QED
    BY <1>6, <2>2 DEF ReadBody, TypeOK, writerVars
<1>7. CASE ReturnMsg
  <2> DEFINE msgLength == MsgLength(ReadMsgPayloadLth)
             rest == SubSeq(ReadBuf, msgLength + 1, Len(ReadBuf))
             data == SubSeq(ReadBuf, 9, msgLength)
  <2>1. msgLength \in Nat /\ msgLength >= 8 /\ msgLength <= Len(ReadBuf) /\ ReadBuf \in Seq(Byte)
    BY <1>7, BaseAssumption, WordNat DEF ReturnMsg, FrameComplete, MsgLength, TypeOK, Word
  <2>2. /\ ReadBuf' = rest
        /\ ReadMsgPayloadLth' = IF Len(rest) >= 4 THEN Uint32(rest, 0) ELSE 0
        /\ delivered' = Append(delivered, [type |-> Uint32(ReadBuf, 4), data |-> data])
    BY <1>7 DEF ReturnMsg
  <2> HIDE DEF msgLength
  <2>3. rest \in Seq(Byte) /\ data \in Seq(Byte)
    BY <2>1
  <2> HIDE DEF rest, data
  <2>4. Uint32(ReadBuf, 4) \in 0 .. (Word - 1)
    BY <2>1, Uint32Range
  <2>5. Len(rest) >= 4 => Uint32(rest, 0) \in 0 .. (Word - 1)
    BY <2>3, Uint32Range
  <2>6. 0 \in 0 .. (Word - 1)
    BY WordNat, BaseAssumption DEF TypeOK
  <2>7. ReadMsgPayloadLth' \in 0 .. (Word - 1)
    BY <2>2, <2>5, <2>6
  <2>8. [type |-> Uint32(ReadBuf, 4), data |-> data] \in [type : 0 .. (Word - 1), data : Seq(Byte)]
    BY <2>3, <2>4
  <2>9. delivered' \in Seq([type : 0 .. (Word - 1), data : Seq(Byte)])
    BY <2>2, <2>8 DEF TypeOK
  <2> QED
    BY <1>7, <2>2, <2>3, <2>7, <2>9 DEF ReturnMsg, TypeOK, writerVars
<1>8. CASE SlicePanic
  BY <1>8 DEF SlicePanic, TypeOK, writerVars
<1>9. CASE ReadFail
  BY <1>9 DEF ReadFail, TypeOK, writerVars
<1>10. CASE UNCHANGED vars
  BY <1>10 DEF TypeOK, vars
<1> QED
  BY <1>1, <1>2, <1>3, <1>4, <1>5, <1>6, <1>7, <1>8, <1>9, <1>10 DEF Next

\* Spec keeps the types of SendMsg's and GetMsg's state: in particular the
\* receive position never overtakes the stream and ReadMsgPayloadLth stays a
\* uint32.
THEOREM TypeCorrect == Spec => []TypeOK
BY TypeInit, TypeNext, PTL DEF Spec

-----------------------------------------------------------------------------
(* The inductive invariant. *)

\* Every message sent has a length, and its frame a type.
LEMMA SentProps ==
  ASSUME TypeOK, StartsInv, NEW i \in 1 .. Len(sent)
  PROVE  /\ sent[i] \in Msgs
         /\ sent[i].data \in Seq(Byte)
         /\ Len(sent[i].data) \in Nat
         /\ FrameLen(i) \in Nat
         /\ starts[i] \in Nat
         /\ FrameEnd(i) = starts[i] + FrameLen(i)
<1>1. sent[i] \in Msgs
  BY DEF TypeOK
<1>2. sent[i].data \in Seq(Byte)
  BY <1>1, MsgsAssumption
<1>3. starts[i] \in Nat
  BY DEF TypeOK, StartsInv
<1> QED
  BY <1>1, <1>2, <1>3 DEF FrameLen, FrameEnd

\* While no write has failed before it, the frame at the front of ReadBuf is
\* the frame of the next message, and its length field has been read.
LEMMA FrontFrame ==
  ASSUME TypeOK, IInv, Promised(Len(delivered) + 1), Len(ReadBuf) >= 4
  PROVE  LET d == Len(delivered) + 1
         IN  /\ d \in 1 .. Len(sent)
             /\ starts[d] = Consumed
             /\ \A k \in 1 .. Len(ReadBuf) :
                  k <= FrameLen(d) => ReadBuf[k] = Packet(sent[d])[k]
             /\ ReadMsgPayloadLth = Len(sent[d].data)
             /\ MsgLength(ReadMsgPayloadLth) = FrameLen(d)
<1> DEFINE d == Len(delivered) + 1
<1>1. /\ Len(delivered) \in Nat /\ Len(sent) \in Nat /\ Len(stream) \in Nat
      /\ Len(ReadBuf) \in Nat /\ readPos \in Nat /\ readPos <= Len(stream)
      /\ cut \in 0 .. Len(sent) /\ Len(starts) = Len(sent)
      /\ SendLock \in Senders \cup {NoSender}
  BY DEF TypeOK, IInv, StartsInv
<1>2. /\ Len(delivered) <= Len(sent)
      /\ Consumed + Len(ReadBuf) = readPos
      /\ \A k \in 1 .. Len(ReadBuf) : ReadBuf[k] = stream[Consumed + k]
  BY DEF IInv, ReadInv
<1>3. StartsInv /\ WriteInv /\ StreamInv
  BY DEF IInv
<1>4. delivered = << >> => Consumed = 0
  BY DEF Consumed
<1>5. delivered # << >> => Len(delivered) >= 1 /\ Consumed = FrameEnd(Len(delivered))
  BY DEF Consumed, TypeOK
<1>6. Consumed \in Nat
  <2>1. CASE delivered = << >>
    BY <1>4, <2>1
  <2>2. CASE delivered # << >>
    <3> DEFINE e == Len(delivered)
    <3>1. e \in 1 .. Len(sent) /\ Consumed = FrameEnd(e)
      BY <1>1, <1>2, <1>5, <2>2
    <3> HIDE DEF e
    <3>2. starts[e] \in Nat /\ FrameLen(e) \in Nat /\ FrameEnd(e) = starts[e] + FrameLen(e)
      BY <1>3, <3>1, SentProps
    <3> QED BY <3>1, <3>2
  <2> QED BY <2>1, <2>2
<1>7. d \in 1 .. Len(sent)
  <2>1. SUFFICES ASSUME Len(delivered) = Len(sent) PROVE FALSE
    BY <1>1, <1>2
  <2>2. cut = 0
    BY <1>1, <2>1 DEF Promised
  <2>3. Len(stream) >= Consumed + 4
    BY <1>1, <1>2, <1>6
  <2>4. CASE sent = << >>
    <3>1. Len(stream) = 0
      BY <1>3, <2>4 DEF StartsInv
    <3> QED BY <1>6, <2>3, <3>1
  <2>5. CASE sent # << >>
    <3>1. Len(sent) \in 1 .. Len(sent) /\ Consumed = FrameEnd(Len(sent))
      BY <1>1, <1>4, <1>5, <2>1, <2>5 DEF TypeOK
    <3>2. Len(stream) <= FrameEnd(Len(sent))
      <4>1. CASE SendLock = NoSender
        BY <1>1, <1>3, <2>2, <2>5, <4>1 DEF WriteInv
      <4>2. CASE SendLock \in Senders
        <5>1. Len(stream) + Len(unwritten[SendLock]) = FrameEnd(Len(sent))
          BY <1>3, <4>2 DEF WriteInv
        <5>2. Len(unwritten[SendLock]) \in Nat
          BY <4>2 DEF TypeOK
        <5> QED BY <1>1, <5>1, <5>2
      <4> QED BY <1>1, <4>1, <4>2
    <3> QED BY <1>1, <1>6, <2>3, <3>1, <3>2
  <2> QED BY <2>4, <2>5
<1>8. starts[d] = Consumed
  <2>1. CASE delivered = << >>
    BY <1>3, <1>4, <1>7, <2>1 DEF StartsInv
  <2>2. CASE delivered # << >>
    <3>1. Len(delivered) \in 1 .. (Len(sent) - 1) /\ Promised(Len(delivered))
      BY <1>1, <1>5, <1>7, <2>2 DEF Promised
    <3> QED BY <1>3, <1>5, <2>2, <3>1 DEF StartsInv
  <2> QED BY <2>1, <2>2
<1>9. ASSUME NEW k \in 1 .. Len(ReadBuf), k <= FrameLen(d)
      PROVE  ReadBuf[k] = Packet(sent[d])[k]
  <2>1. k \in 1 .. FrameLen(d) /\ starts[d] + k <= Len(stream)
    BY <1>1, <1>2, <1>3, <1>6, <1>7, <1>8, <1>9, SentProps
  <2>2. stream[starts[d] + k] = Packet(sent[d])[k]
    BY <1>3, <1>7, <2>1 DEF StreamInv
  <2> QED BY <1>2, <1>8, <2>2
<1>10. sent[d] \in Msgs /\ FrameLen(d) = 8 + Len(sent[d].data) /\ Len(sent[d].data) \in Nat
  BY <1>3, <1>7, SentProps DEF FrameLen
<1>11. ReadMsgPayloadLth = Len(sent[d].data)
  <2>1. \A k \in 1 .. 4 : ReadBuf[0 + k] = PutUint32(Len(sent[d].data))[k]
    <3> SUFFICES ASSUME NEW k \in 1 .. 4
                 PROVE  ReadBuf[k] = PutUint32(Len(sent[d].data))[k]
      OBVIOUS
    <3>1. k \in 1 .. Len(ReadBuf) /\ k <= FrameLen(d)
      BY <1>1, <1>10
    <3>2. ReadBuf[k] = Packet(sent[d])[k]
      BY <1>9, <3>1
    <3> QED BY <1>10, <3>2, PacketProps
  <2>2. Len(sent[d].data) \in 0 .. (Word - 1)
    BY <1>10, MsgsAssumption, WordNat
  <2>3. Uint32(ReadBuf, 0) = Len(sent[d].data)
    BY <2>1, <2>2, Uint32Put
  <2> QED BY <2>3 DEF IInv, ReadInv
<1>12. MsgLength(ReadMsgPayloadLth) = FrameLen(d)
  <2>1. Len(sent[d].data) + 8 < Word
    BY <1>10, MsgsAssumption
  <2>2. \A x \in Nat : x < Word => x % Word = x
    BY WordNat
  <2>3. MsgLength(ReadMsgPayloadLth) = (Len(sent[d].data) + 8) % Word
    BY <1>11 DEF MsgLength
  <2>4. Len(sent[d].data) + 8 \in Nat /\ FrameLen(d) = Len(sent[d].data) + 8
    BY <1>10
  <2> QED BY <2>1, <2>2, <2>3, <2>4
<1> QED
  BY <1>7, <1>8, <1>9, <1>11, <1>12

\* The start of the front frame is a position of the stream.
LEMMA ConsumedNat ==
  ASSUME TypeOK, StartsInv, Len(delivered) <= Len(sent)
  PROVE  /\ Consumed \in Nat
         /\ delivered # << >> =>
              /\ Len(delivered) \in 1 .. Len(sent)
              /\ Consumed = starts[Len(delivered)] + 8 + Len(sent[Len(delivered)].data)
<1>1. CASE delivered = << >>
  BY <1>1 DEF Consumed
<1>2. CASE delivered # << >>
  <2> DEFINE e == Len(delivered)
  <2>1. e \in 1 .. Len(sent) /\ Consumed = FrameEnd(e)
    BY <1>2 DEF Consumed, TypeOK
  <2> HIDE DEF e
  <2>2. /\ starts[e] \in Nat /\ Len(sent[e].data) \in Nat
        /\ FrameEnd(e) = starts[e] + FrameLen(e) /\ FrameLen(e) = 8 + Len(sent[e].data)
    BY <2>1, SentProps DEF FrameLen
  <2>3. \A x, y \in Nat : x + (8 + y) \in Nat /\ x + (8 + y) = x + 8 + y
    OBVIOUS
  <2>4. Consumed = starts[e] + (8 + Len(sent[e].data))
    BY <2>1, <2>2
  <2>5. Consumed \in Nat /\ Consumed = starts[e] + 8 + Len(sent[e].data)
    BY <2>2, <2>3, <2>4
  <2> QED BY <1>2, <2>1, <2>5 DEF e
<1> QED BY <1>1, <1>2

\* A step that only extends the stream and the history, or ends the promise,
\* does not disturb the reader.
LEMMA ReaderUndisturbed ==
  ASSUME TypeOK, StartsInv, ReadInv, InOrder, UNCHANGED readerVars,
         Len(sent') \in Nat, Len(sent) <= Len(sent'),
         \A i \in 1 .. Len(sent) : sent'[i] = sent[i] /\ starts'[i] = starts[i],
         \A k \in 1 .. Len(stream) : stream'[k] = stream[k],
         \A i \in Nat : Promised(i)' => Promised(i)
  PROVE  ReadInv' /\ InOrder'
<1>1. /\ readPos' = readPos /\ ReadBuf' = ReadBuf /\ delivered' = delivered
      /\ ReadMsgPayloadLth' = ReadMsgPayloadLth
  BY DEF readerVars
<1>2. /\ Len(delivered) \in Nat /\ Len(sent) \in Nat /\ Len(ReadBuf) \in Nat
      /\ readPos \in 0 .. Len(stream) /\ Len(stream) \in Nat
  BY DEF TypeOK
<1>3. InOrder'
  BY <1>1, <1>2 DEF InOrder
<1>4. ASSUME Promised(Len(delivered) + 1)'
      PROVE  /\ Len(delivered) <= Len(sent')
             /\ Consumed' + Len(ReadBuf) = readPos
             /\ \A k \in 1 .. Len(ReadBuf) : ReadBuf[k] = stream'[Consumed' + k]
  <2>1. Promised(Len(delivered) + 1)
    <3> DEFINE d == Len(delivered) + 1
    <3>1. d \in Nat /\ (cut' = 0 \/ d < cut')
      BY <1>1, <1>2, <1>4 DEF Promised
    <3>2. (cut' = 0 \/ d < cut') => (cut = 0 \/ d < cut)
      <4> HIDE DEF d
      <4> QED BY <3>1 DEF Promised
    <3> QED BY <3>1, <3>2 DEF Promised
  <2>2. /\ Len(delivered) <= Len(sent)
        /\ Consumed + Len(ReadBuf) = readPos
        /\ \A k \in 1 .. Len(ReadBuf) : ReadBuf[k] = stream[Consumed + k]
    BY <2>1 DEF ReadInv
  <2>3. Consumed \in Nat
    BY <2>2, ConsumedNat
  <2>4. Consumed' = Consumed
    <3>1. CASE delivered = << >>
      BY <1>1, <3>1 DEF Consumed
    <3>2. CASE delivered # << >>
      <4>1. Len(delivered) \in 1 .. Len(sent)
        BY <2>2, <3>2, ConsumedNat
      <4>2. /\ sent'[Len(delivered)] = sent[Len(delivered)]
            /\ starts'[Len(delivered)] = starts[Len(delivered)]
        BY <4>1
      <4> QED BY <1>1, <3>2, <4>2 DEF Consumed, FrameEnd, FrameLen
    <3> QED BY <3>1, <3>2
  <2>5. ASSUME NEW k \in 1 .. Len(ReadBuf) PROVE ReadBuf[k] = stream'[Consumed + k]
    <3>1. Consumed + k \in 1 .. Len(stream)
      BY <1>2, <2>2, <2>3
    <3> QED BY <2>2, <3>1
  <2> QED BY <1>2, <2>2, <2>4, <2>5
<1> QED
  BY <1>1, <1>3, <1>4 DEF ReadInv, Uint32

\* SendMsg takes the lock: the new frame begins where the stream ends.
LEMMA LockStep ==
  ASSUME TypeOK, IInv, InOrder, NEW s \in Senders, NEW m \in Msgs, SendMsgLock(s, m)
  PROVE  IInv' /\ InOrder'
<1>0. PICK L \in Nat : L = Len(sent)
  BY DEF TypeOK
<1>1. /\ SendLock = NoSender /\ SendLock' = s /\ s # NoSender
      /\ unwritten' = [unwritten EXCEPT ![s] = Packet(m)]
      /\ stream' = stream /\ cut' = cut
      /\ UNCHANGED readerVars
  BY SenderAssumption DEF SendMsgLock
<1>2. /\ L \in Nat /\ Len(stream) \in Nat /\ cut \in 0 .. L
      /\ sent \in Seq(Msgs) /\ starts \in Seq(Nat) /\ Len(sent) = L /\ Len(starts) = L
  BY <1>0 DEF TypeOK, IInv, StartsInv
<1>3. /\ Len(sent') = L + 1 /\ Len(starts') = L + 1
      /\ sent'[L + 1] = m /\ starts'[L + 1] = Len(stream)
      /\ \A i \in 1 .. L : sent'[i] = sent[i] /\ starts'[i] = starts[i]
      /\ sent' # << >>
  <2>1. sent' = Append(sent, m) /\ starts' = Append(starts, Len(stream))
    BY DEF SendMsgLock
  <2>2. /\ Len(sent') = L + 1 /\ sent'[L + 1] = m
        /\ \A i \in 1 .. L : sent'[i] = sent[i]
    BY <1>2, <2>1
  <2>3. /\ Len(starts') = L + 1 /\ starts'[L + 1] = Len(stream)
        /\ \A i \in 1 .. L : starts'[i] = starts[i]
    BY <1>2, <2>1
  <2>4. sent' # << >>
    BY <1>2, <2>2
  <2> QED BY <2>2, <2>3, <2>4
<1>4. LockInv /\ StartsInv /\ WriteInv /\ StreamInv /\ ReadInv
  BY DEF IInv
<1>5. LockInv'
  BY <1>1, <1>4, SenderAssumption DEF LockInv, TypeOK
<1>6. \A i \in 1 .. L : FrameEnd(i)' = FrameEnd(i) /\ FrameLen(i)' = FrameLen(i)
  BY <1>3 DEF FrameEnd, FrameLen
<1>7. \A i : Promised(i)' <=> Promised(i)
  BY <1>1 DEF Promised
<1>8. StartsInv'
  <2>1. starts'[1] = 0
    <3>1. CASE L = 0
      BY <1>2, <1>3, <1>4, <3>1 DEF StartsInv
    <3>2. CASE L >= 1
      BY <1>2, <1>3, <1>4, <3>2 DEF StartsInv
    <3> QED BY <1>2, <3>1, <3>2
  <2>2. ASSUME NEW i \in 1 .. (L + 1) PROVE starts'[i] <= Len(stream)
    BY <1>2, <1>3, <1>4 DEF StartsInv
  <2>3. ASSUME NEW i \in 1 .. L, Promised(i) PROVE starts'[i+1] = FrameEnd(i)'
    <3>1. CASE i = L
      <4>1. cut = 0
        BY <1>2, <2>3, <3>1 DEF Promised
      <4>2. sent # << >>
        BY <1>2, <2>3
      <4>3. Len(stream) = FrameEnd(L)
        BY <1>1, <1>2, <1>4, <4>1, <4>2 DEF WriteInv
      <4> QED BY <1>3, <1>6, <3>1, <4>3
    <3>2. CASE i \in 1 .. (L - 1)
      <4>1. starts[i+1] = FrameEnd(i)
        BY <1>2, <1>4, <2>3, <3>2 DEF StartsInv
      <4>2. i + 1 \in 1 .. L
        BY <1>2, <3>2
      <4> QED BY <1>3, <1>6, <4>1, <4>2
    <3> QED BY <1>2, <3>1, <3>2
  <2> QED BY <1>1, <1>2, <1>3, <1>7, <2>1, <2>2, <2>3 DEF StartsInv
<1>9. WriteInv'
  <2>1. ASSUME NEW t \in Senders, SendLock' = t
        PROVE  /\ Len(stream') + Len(unwritten'[t]) = FrameEnd(L + 1)'
               /\ \A k \in 1 .. Len(unwritten'[t]) :
                    unwritten'[t][k] =
                      Packet(sent'[L + 1])[Len(stream') - starts'[L + 1] + k]
    <3>1. t = s /\ unwritten'[t] = Packet(m)
      BY <1>1, <2>1 DEF TypeOK
    <3>2. Len(Packet(m)) = 8 + Len(m.data) /\ Len(m.data) \in Nat
      BY PacketProps, MsgsAssumption
    <3>3. FrameEnd(L + 1)' = Len(stream) + (8 + Len(m.data))
      BY <1>3 DEF FrameEnd, FrameLen
    <3>4. ASSUME NEW k \in 1 .. Len(Packet(m))
          PROVE  Len(stream') - starts'[L + 1] + k = k
      BY <1>1, <1>2, <1>3, <3>2
    <3> QED BY <1>1, <1>3, <3>1, <3>2, <3>3, <3>4
  <2> QED BY <1>1, <1>3, <2>1 DEF WriteInv
<1>10. StreamInv'
  <2> SUFFICES ASSUME NEW i \in 1 .. (L + 1), Promised(i),
                      NEW k \in 1 .. FrameLen(i)', starts'[i] + k <= Len(stream)
               PROVE  stream[starts'[i] + k] = Packet(sent'[i])[k]
    BY <1>1, <1>3, <1>7 DEF StreamInv
  <2>1. CASE i = L + 1
    <3>1. Len(m.data) \in Nat /\ FrameLen(i)' = 8 + Len(m.data)
      BY <1>3, <2>1, MsgsAssumption DEF FrameLen
    <3> QED BY <1>2, <1>3, <2>1, <3>1
  <2>2. CASE i \in 1 .. L
    BY <1>2, <1>3, <1>4, <1>6, <2>2 DEF StreamInv
  <2> QED BY <1>2, <2>1, <2>2
<1>11. ReadInv' /\ InOrder'
  <2>1. Len(sent') \in Nat /\ Len(sent) <= Len(sent')
    BY <1>2, <1>3
  <2> QED BY <1>1, <1>2, <1>3, <1>4, <1>7, <2>1, ReaderUndisturbed
<1> QED
  BY <1>5, <1>8, <1>9, <1>10, <1>11 DEF IInv

\* One byte is written: it is the next byte of the last frame.
LEMMA WriteStep ==
  ASSUME TypeOK, IInv, InOrder, NEW s \in Senders, WriteByte(s)
  PROVE  IInv' /\ InOrder'
<1>0. PICK L \in Nat : L = Len(sent)
  BY DEF TypeOK
<1>1. /\ sent' = sent /\ starts' = starts /\ cut' = cut /\ SendLock' = SendLock
      /\ unwritten[s] # << >> /\ UNCHANGED readerVars
      /\ stream' = Append(stream, Head(unwritten[s]))
      /\ unwritten' = [unwritten EXCEPT ![s] = Tail(unwritten[s])]
  BY DEF WriteByte
<1>2. LockInv /\ StartsInv /\ WriteInv /\ StreamInv /\ ReadInv
  BY DEF IInv
<1>3. SendLock = s
  BY <1>1, <1>2 DEF LockInv
<1>4. /\ unwritten[s] \in Seq(Byte) /\ stream \in Seq(Byte) /\ unwritten \in [Senders -> Seq(Byte)]
      /\ Len(stream) \in Nat /\ sent \in Seq(Msgs) /\ cut \in 0 .. L
  BY <1>0 DEF TypeOK
<1>5. /\ sent # << >> /\ L >= 1
      /\ Len(stream) + Len(unwritten[s]) = FrameEnd(L)
      /\ \A k \in 1 .. Len(unwritten[s]) :
           unwritten[s][k] = Packet(sent[L])[Len(stream) - starts[L] + k]
  BY <1>0, <1>2, <1>3, <1>4 DEF WriteInv
<1>6. /\ Len(unwritten[s]) \in Nat /\ Len(unwritten[s]) >= 1
      /\ Head(unwritten[s]) = unwritten[s][1]
      /\ Len(Tail(unwritten[s])) = Len(unwritten[s]) - 1
      /\ \A k \in 1 .. Len(unwritten[s]) - 1 : Tail(unwritten[s])[k] = unwritten[s][k + 1]
  BY <1>1, <1>4
<1>7. /\ Len(stream') = Len(stream) + 1
      /\ \A k \in 1 .. Len(stream) : stream'[k] = stream[k]
      /\ stream'[Len(stream) + 1] = Packet(sent[L])[Len(stream) - starts[L] + 1]
  <2>1. unwritten[s][1] = Packet(sent[L])[Len(stream) - starts[L] + 1]
    BY <1>5, <1>6
  <2>2. Head(unwritten[s]) \in Byte
    BY <1>1, <1>4
  <2> QED BY <1>1, <1>4, <1>6, <2>1, <2>2
<1>8. /\ unwritten'[s] = Tail(unwritten[s])
      /\ \A t \in Senders : t # s => unwritten'[t] = unwritten[t]
  BY <1>1, <1>4
<1>9. /\ \A i : FrameEnd(i)' = FrameEnd(i) /\ FrameLen(i)' = FrameLen(i)
      /\ \A i : Promised(i)' <=> Promised(i)
  BY <1>1 DEF FrameEnd, FrameLen, Promised
<1>10. \A i \in 1 .. L : /\ starts[i] \in Nat /\ starts[i] <= Len(stream)
                         /\ FrameLen(i) \in Nat /\ FrameEnd(i) = starts[i] + FrameLen(i)
  BY <1>0, <1>2, SentProps DEF StartsInv
<1>11. starts[L] \in Nat /\ FrameEnd(L) \in Nat
  <2>1. L \in 1 .. L
    BY <1>5
  <2> QED BY <1>10, <2>1
<1>12. Len(stream) \in Nat /\ Len(stream') = Len(stream) + 1
  BY <1>4, <1>7
<1>13. LockInv'
  BY <1>1, <1>2, <1>3, <1>8 DEF LockInv
<1>14. StartsInv'
  <2>1. ASSUME NEW i \in 1 .. L PROVE starts[i] <= Len(stream')
    BY <1>4, <1>7, <1>10
  <2> QED BY <1>0, <1>1, <1>2, <1>5, <1>9, <2>1 DEF StartsInv
<1>15. WriteInv'
  <2>1. Len(stream') + Len(unwritten'[s]) = FrameEnd(L)
    <3>1. Len(unwritten'[s]) = Len(unwritten[s]) - 1
      BY <1>6, <1>8
    <3>2. \A x, y \in Nat : (x + 1) + (y - 1) = x + y
      OBVIOUS
    <3>3. (Len(stream) + 1) + (Len(unwritten[s]) - 1) = FrameEnd(L)
      BY <1>4, <1>5, <1>6, <3>2
    <3> QED BY <1>7, <3>1, <3>3
  <2>2. ASSUME NEW k \in 1 .. Len(unwritten'[s])
        PROVE  unwritten'[s][k] = Packet(sent[L])[Len(stream') - starts[L] + k]
    <3>1. k \in 1 .. Len(unwritten[s]) - 1 /\ k + 1 \in 1 .. Len(unwritten[s])
      BY <1>6, <1>8
    <3>2. unwritten'[s][k] = Packet(sent[L])[Len(stream) - starts[L] + (k + 1)]
      BY <1>5, <1>6, <1>8, <3>1
    <3>3. Len(stream) - starts[L] + (k + 1) = Len(stream') - starts[L] + k
      <4>1. \A x, y, z \in Int : x - y + (z + 1) = (x + 1) - y + z
        OBVIOUS
      <4>2. k \in Int
        OBVIOUS
      <4> QED BY <1>11, <1>12, <4>1, <4>2
    <3> QED BY <3>2, <3>3
  <2> QED BY <1>0, <1>1, <1>3, <1>5, <1>9, <2>1, <2>2, SenderAssumption DEF WriteInv
<1>16. StreamInv'
  <2> SUFFICES ASSUME NEW i \in 1 .. L, Promised(i),
                      NEW k \in 1 .. FrameLen(i), starts[i] + k <= Len(stream) + 1
               PROVE  stream'[starts[i] + k] = Packet(sent[i])[k]
    BY <1>0, <1>1, <1>7, <1>9 DEF StreamInv
  <2>1. CASE starts[i] + k <= Len(stream)
    <3>1. stream[starts[i] + k] = Packet(sent[i])[k]
      BY <1>0, <1>2, <2>1 DEF StreamInv
    <3>2. starts[i] + k \in 1 .. Len(stream)
      BY <1>4, <1>10, <2>1
    <3> QED BY <1>7, <3>1, <3>2
  <2>2. CASE starts[i] + k = Len(stream) + 1
    <3>1. i = L
      <4>1. SUFFICES ASSUME i \in 1 .. (L - 1) PROVE FALSE
        BY <1>0
      <4>2. starts[i + 1] = FrameEnd(i)
        BY <1>0, <1>2, <4>1 DEF StartsInv
      <4>3. FrameEnd(i) <= Len(stream)
        BY <1>10, <4>1, <4>2
      <4> QED BY <1>4, <1>10, <2>2, <4>3
    <3>2. k = Len(stream) - starts[L] + 1
      <4>1. k \in Int /\ starts[L] + k = Len(stream) + 1
        BY <1>10, <2>2, <3>1
      <4>2. \A x, y, z \in Int : x + y = z + 1 => y = z - x + 1
        OBVIOUS
      <4> QED BY <1>11, <1>12, <4>1, <4>2
    <3>3. stream'[starts[i] + k] = Packet(sent[L])[k]
      BY <1>7, <2>2, <3>2
    <3> QED BY <3>1, <3>3
  <2>3. starts[i] + k \in Nat
    BY <1>10
  <2> QED BY <1>12, <2>1, <2>2, <2>3
<1>17. ReadInv' /\ InOrder'
  <2>1. Len(sent') \in Nat /\ Len(sent) <= Len(sent')
    BY <1>0, <1>1
  <2> QED BY <1>1, <1>2, <1>7, <1>9, <2>1, ReaderUndisturbed
<1> QED
  BY <1>13, <1>14, <1>15, <1>16, <1>17 DEF IInv

\* SendMsg releases the lock after a complete write.
LEMMA UnlockStep ==
  ASSUME TypeOK, IInv, InOrder, NEW s \in Senders, SendMsgUnlock(s)
  PROVE  IInv' /\ InOrder'
<1>1. /\ sent' = sent /\ starts' = starts /\ cut' = cut /\ stream' = stream
      /\ SendLock = s /\ SendLock' = NoSender /\ unwritten' = unwritten
      /\ unwritten[s] = << >> /\ UNCHANGED readerVars
  BY DEF SendMsgUnlock
<1>2. LockInv /\ StartsInv /\ WriteInv /\ StreamInv /\ ReadInv
  BY DEF IInv
<1>3. /\ \A i : FrameEnd(i)' = FrameEnd(i) /\ FrameLen(i)' = FrameLen(i)
      /\ \A i : Promised(i)' <=> Promised(i)
  BY <1>1 DEF FrameEnd, FrameLen, Promised
<1>4. LockInv'
  BY <1>1, <1>2 DEF LockInv
<1>5. StartsInv' /\ StreamInv'
  BY <1>1, <1>2, <1>3 DEF StartsInv, StreamInv
<1>6. WriteInv'
  <2>1. Len(stream) + 0 = FrameEnd(Len(sent))
    BY <1>1, <1>2 DEF WriteInv
  <2>2. FrameEnd(Len(sent))' = FrameEnd(Len(sent))
    BY <1>1 DEF FrameEnd, FrameLen
  <2>3. Len(stream') = FrameEnd(Len(sent))'
    BY <1>1, <2>1, <2>2 DEF TypeOK
  <2> QED BY <1>1, <2>3, SenderAssumption DEF WriteInv
<1>7. ReadInv' /\ InOrder'
  <2>1. Len(sent') \in Nat /\ Len(sent) <= Len(sent')
    BY <1>1 DEF TypeOK
  <2> QED BY <1>1, <1>2, <1>3, <2>1, ReaderUndisturbed
<1> QED
  BY <1>4, <1>5, <1>6, <1>7 DEF IInv

\* A write fails: the promise ends at the last frame, if it had not before.
LEMMA FailStep ==
  ASSUME TypeOK, IInv, InOrder, NEW s \in Senders, WriteFail(s)
  PROVE  IInv' /\ InOrder'
<1>1. /\ sent' = sent /\ starts' = starts /\ stream' = stream
      /\ SendLock = s /\ SendLock' = NoSender
      /\ unwritten' = [unwritten EXCEPT ![s] = << >>]
      /\ cut' = IF cut = 0 THEN Len(sent) ELSE cut
      /\ UNCHANGED readerVars
  BY DEF WriteFail
<1>2. LockInv /\ StartsInv /\ WriteInv /\ StreamInv /\ ReadInv
  BY DEF IInv
<1>3. sent # << >> /\ Len(sent) \in Nat /\ cut \in Nat
  BY <1>1, <1>2 DEF WriteInv, TypeOK
<1>4. cut' # 0
  BY <1>1, <1>3 DEF TypeOK
<1>5. \A i \in Nat : Promised(i)' => Promised(i)
  BY <1>1, <1>3, <1>4 DEF Promised
<1>6. \A i : FrameEnd(i)' = FrameEnd(i) /\ FrameLen(i)' = FrameLen(i)
  BY <1>1 DEF FrameEnd, FrameLen
<1>7. LockInv'
  BY <1>1, <1>2 DEF LockInv, TypeOK
<1>8. StartsInv'
  BY <1>1, <1>2, <1>5, <1>6 DEF StartsInv
<1>9. StreamInv'
  BY <1>1, <1>2, <1>5, <1>6 DEF StreamInv
<1>10. WriteInv'
  BY <1>1, <1>4, SenderAssumption DEF WriteInv
<1>11. ReadInv' /\ InOrder'
  <2>1. Len(sent') \in Nat /\ Len(sent) <= Len(sent')
    BY <1>1, <1>3
  <2> QED BY <1>1, <1>2, <1>5, <2>1, ReaderUndisturbed
<1> QED
  BY <1>7, <1>8, <1>9, <1>10, <1>11 DEF IInv

\* A step of the reader leaves the writer's part of the invariant alone.
LEMMA WriterUndisturbed ==
  ASSUME IInv, UNCHANGED writerVars
  PROVE  /\ LockInv' /\ StartsInv' /\ WriteInv' /\ StreamInv'
         /\ \A i : FrameEnd(i)' = FrameEnd(i) /\ FrameLen(i)' = FrameLen(i)
         /\ \A i : Promised(i)' <=> Promised(i)
<1>1. /\ SendLock' = SendLock /\ unwritten' = unwritten /\ stream' = stream
      /\ sent' = sent /\ starts' = starts /\ cut' = cut
  BY DEF writerVars
<1>2. LockInv /\ StartsInv /\ WriteInv /\ StreamInv
  BY DEF IInv
<1>3. /\ \A i : FrameEnd(i)' = FrameEnd(i) /\ FrameLen(i)' = FrameLen(i)
      /\ \A i : Promised(i)' <=> Promised(i)
  BY <1>1 DEF FrameEnd, FrameLen, Promised
<1>4. LockInv' /\ StartsInv' /\ StreamInv'
  BY <1>1, <1>2, <1>3 DEF LockInv, StartsInv, StreamInv
<1>5. WriteInv'
  BY <1>1, <1>2 DEF WriteInv, FrameEnd, FrameLen
<1> QED
  BY <1>3, <1>4, <1>5

\* Conn.Read appends to ReadBuf the bytes that follow in the stream.
LEMMA ReadKeeps ==
  ASSUME TypeOK, IInv, NEW n \in 1 .. ReadChunk, Read(n),
         UNCHANGED writerVars, delivered' = delivered,
         Promised(Len(delivered) + 1)
  PROVE  /\ Len(delivered') <= Len(sent')
         /\ Consumed' + Len(ReadBuf') = readPos'
         /\ \A k \in 1 .. Len(ReadBuf') : ReadBuf'[k] = stream'[Consumed' + k]
<1>1. stream' = stream /\ sent' = sent /\ starts' = starts
  BY DEF writerVars
<1>2. Consumed' = Consumed
  BY <1>1 DEF Consumed, FrameEnd, FrameLen
<1>3. /\ Len(delivered) <= Len(sent)
      /\ Consumed + Len(ReadBuf) = readPos
      /\ \A k \in 1 .. Len(ReadBuf) : ReadBuf[k] = stream[Consumed + k]
  BY DEF IInv, ReadInv
<1>4. Consumed \in Nat
  BY <1>3, ConsumedNat DEF IInv
<1>5. Len(ReadBuf) \in Nat /\ readPos \in Nat /\ readPos' = readPos + n /\ n \in Nat
  BY ChunkAssumption DEF TypeOK, Read
<1>6. /\ Len(ReadBuf') = Len(ReadBuf) + n
      /\ \A k \in 1 .. Len(ReadBuf) : ReadBuf'[k] = ReadBuf[k]
      /\ \A k \in 1 .. n : ReadBuf'[Len(ReadBuf) + k] = stream[readPos + k]
  BY ReadProps
<1>7. ASSUME NEW k \in 1 .. Len(ReadBuf')
      PROVE  ReadBuf'[k] = stream[Consumed + k]
  <2>1. CASE k \in 1 .. Len(ReadBuf)
    BY <1>3, <1>6, <2>1
  <2>2. CASE k \notin 1 .. Len(ReadBuf)
    <3> DEFINE j == k - Len(ReadBuf)
    <3>1. j \in 1 .. n /\ k = Len(ReadBuf) + j
      BY <1>5, <1>6, <2>2
    <3> HIDE DEF j
    <3>2. readPos + j = Consumed + k
      BY <1>3, <1>4, <1>5, <3>1
    <3>3. ReadBuf'[Len(ReadBuf) + j] = stream[readPos + j]
      BY <1>6, <3>1
    <3> QED BY <3>1, <3>2, <3>3
  <2> QED BY <2>1, <2>2
<1>8. Consumed + Len(ReadBuf') = readPos'
  <2>1. Consumed + Len(ReadBuf) = readPos /\ Len(ReadBuf') = Len(ReadBuf) + n
    BY <1>3, <1>6
  <2>2. Consumed + (Len(ReadBuf) + n) = (Consumed + Len(ReadBuf)) + n
    BY <1>4, <1>5
  <2> QED BY <1>5, <2>1, <2>2
<1> QED
  BY <1>1, <1>2, <1>3, <1>7, <1>8

\* The two reading turns of GetMsg's loop.
LEMMA ReadStep ==
  ASSUME TypeOK, IInv, InOrder, NoPanic, ReadHeader \/ ReadBody
  PROVE  IInv' /\ InOrder' /\ NoPanic'
<1>1. PICK n \in 1 .. ReadChunk : Read(n)
  BY DEF ReadHeader, ReadBody
<1>2. UNCHANGED writerVars /\ delivered' = delivered /\ reader' = reader
  BY DEF ReadHeader, ReadBody
<1>3. cut' = cut /\ sent' = sent
  BY <1>2 DEF writerVars
<1>4. NoPanic' /\ InOrder'
  BY <1>2, <1>3 DEF NoPanic, InOrder, Promised
<1>5. /\ ReadBuf' \in Seq(Byte) /\ Len(ReadBuf') = Len(ReadBuf) + n
      /\ \A k \in 1 .. Len(ReadBuf) : ReadBuf'[k] = ReadBuf[k]
  BY <1>1, ReadProps
<1>6. Len(ReadBuf') >= 4 => ReadMsgPayloadLth' = Uint32(ReadBuf', 0)
  <2>1. CASE ReadHeader
    BY <2>1 DEF ReadHeader
  <2>2. CASE ReadBody
    <3>1. Len(ReadBuf) \in Nat /\ Len(ReadBuf) >= 4 /\ ReadMsgPayloadLth' = ReadMsgPayloadLth
      BY <2>2 DEF ReadBody, TypeOK
    <3>2. ReadMsgPayloadLth = Uint32(ReadBuf, 0)
      BY <3>1 DEF IInv, ReadInv
    <3>3. \A k \in 1 .. 4 : ReadBuf'[0 + k] = ReadBuf[0 + k]
      BY <1>5, <3>1
    <3>4. Uint32(ReadBuf', 0) = Uint32(ReadBuf, 0)
      BY <3>3 DEF Uint32
    <3> QED BY <3>1, <3>2, <3>4
  <2> QED BY <2>1, <2>2
<1>7. Promised(Len(delivered) + 1)' => Promised(Len(delivered) + 1)
  BY <1>2, <1>3 DEF Promised
<1>8. ReadInv'
  <2>1. ASSUME Promised(Len(delivered) + 1)'
        PROVE  /\ Len(delivered') <= Len(sent')
               /\ Consumed' + Len(ReadBuf') = readPos'
               /\ \A k \in 1 .. Len(ReadBuf') : ReadBuf'[k] = stream'[Consumed' + k]
    BY <1>1, <1>2, <1>7, <2>1, ReadKeeps
  <2> QED BY <1>6, <2>1 DEF ReadInv
<1> QED
  BY <1>2, <1>4, <1>8, WriterUndisturbed DEF IInv

\* GetMsg returns a message: the next one sent, while the promise holds.
LEMMA ReturnStep ==
  ASSUME TypeOK, IInv, InOrder, ReturnMsg
  PROVE  /\ Len(delivered') = Len(delivered) + 1
         /\ \A i \in 1 .. Len(delivered) : delivered'[i] = delivered[i]
         /\ Promised(Len(delivered) + 1) =>
              /\ Len(delivered) + 1 \in 1 .. Len(sent)
              /\ delivered'[Len(delivered) + 1] = sent[Len(delivered) + 1]
         /\ IInv' /\ InOrder'
<1>0. PICK d \in Nat : d = Len(delivered) + 1 /\ d >= 1
  BY DEF TypeOK
<1> DEFINE msgLength == MsgLength(ReadMsgPayloadLth)
           rest == SubSeq(ReadBuf, msgLength + 1, Len(ReadBuf))
           data == SubSeq(ReadBuf, 9, msgLength)
           new == [type |-> Uint32(ReadBuf, 4), data |-> data]
<1>1. /\ msgLength \in Nat /\ msgLength >= 8 /\ msgLength <= Len(ReadBuf)
      /\ Len(ReadBuf) \in Nat /\ ReadBuf \in Seq(Byte) /\ Len(ReadBuf) >= 4
  BY BaseAssumption, WordNat DEF ReturnMsg, FrameComplete, MsgLength, TypeOK, Word
<1>2. /\ ReadBuf' = rest
      /\ ReadMsgPayloadLth' = IF Len(rest) >= 4 THEN Uint32(rest, 0) ELSE 0
      /\ delivered' = Append(delivered, new)
      /\ readPos' = readPos
      /\ UNCHANGED writerVars
  BY DEF ReturnMsg
<1>3. stream' = stream /\ sent' = sent /\ starts' = starts /\ cut' = cut
  BY <1>2 DEF writerVars
<1> HIDE DEF msgLength
<1>4. /\ Len(rest) = Len(ReadBuf) - msgLength
      /\ \A k \in 1 .. Len(rest) : rest[k] = ReadBuf[msgLength + k]
  BY <1>1
<1>5. /\ data \in Seq(Byte) /\ Len(data) = msgLength - 8
      /\ \A k \in 1 .. (msgLength - 8) : data[k] = ReadBuf[8 + k]
  BY <1>1
<1> HIDE DEF rest, data
<1>6. /\ Len(delivered') = d
      /\ \A i \in 1 .. Len(delivered) : delivered'[i] = delivered[i]
      /\ delivered'[d] = new
      /\ delivered' # << >>
  <2> HIDE DEF new
  <2>1. delivered \in Seq([type : 0 .. (Word - 1), data : Seq(Byte)])
    BY DEF TypeOK
  <2>2. /\ Len(delivered') = d
        /\ \A i \in 1 .. Len(delivered) : delivered'[i] = delivered[i]
        /\ delivered'[d] = new
    BY <1>0, <1>2, <2>1
  <2> QED BY <1>0, <2>2
<1>7. ASSUME Promised(d)
      PROVE  /\ d \in 1 .. Len(sent)
             /\ new = sent[d]
             /\ msgLength = FrameLen(d)
             /\ starts[d] = Consumed
  <2>1. /\ d \in 1 .. Len(sent)
        /\ starts[d] = Consumed
        /\ \A k \in 1 .. Len(ReadBuf) :
             k <= FrameLen(d) => ReadBuf[k] = Packet(sent[d])[k]
        /\ msgLength = FrameLen(d)
    <3>1. Promised(Len(delivered) + 1)
      BY <1>0, <1>7
    <3> QED BY <1>0, <1>1, <3>1, FrontFrame DEF msgLength
  <2>2. PICK m \in Msgs : m = sent[d]
    BY <2>1 DEF TypeOK
  <2>3. /\ m \in [type : 0 .. (Word - 1), data : Seq(Byte)]
        /\ Len(m.data) \in Nat /\ msgLength = 8 + Len(m.data)
    BY <2>1, <2>2, MsgsAssumption DEF FrameLen
  <2>4. \A k \in 1 .. msgLength : ReadBuf[k] = Packet(m)[k]
    BY <1>1, <2>1, <2>2
  <2>5. Uint32(ReadBuf, 4) = m.type
    <3>1. \A k \in 1 .. 4 : ReadBuf[4 + k] = PutUint32(m.type)[k]
      <4> SUFFICES ASSUME NEW k \in 1 .. 4 PROVE ReadBuf[4 + k] = PutUint32(m.type)[k]
        OBVIOUS
      <4>1. 4 + k \in 1 .. msgLength
        BY <1>1
      <4>2. ReadBuf[4 + k] = Packet(m)[4 + k]
        BY <2>4, <4>1
      <4> QED BY <4>2, PacketProps
    <3>2. m.type \in 0 .. (Word - 1)
      BY <2>3
    <3> QED BY <3>1, <3>2, Uint32Put
  <2>6. data = m.data
    <3>1. m.data \in Seq(Byte) /\ Len(data) = Len(m.data)
      BY <1>1, <1>5, <2>3
    <3>2. ASSUME NEW k \in 1 .. Len(data) PROVE data[k] = m.data[k]
      <4>1. k \in 1 .. (msgLength - 8) /\ k \in 1 .. Len(m.data) /\ 8 + k \in 1 .. msgLength
        BY <1>1, <1>5, <3>1
      <4>2. data[k] = Packet(m)[8 + k]
        BY <1>5, <2>4, <4>1
      <4> QED BY <4>1, <4>2, PacketProps
    <3> QED BY <1>5, <3>1, <3>2, SeqEqual
  <2>7. m = [type |-> m.type, data |-> m.data]
    BY <2>3
  <2> QED BY <2>1, <2>2, <2>5, <2>6, <2>7
<1> HIDE DEF new
<1>8. \A i : Promised(i)' <=> Promised(i)
  BY <1>3 DEF Promised
<1>9. InOrder'
  <2> SUFFICES ASSUME NEW i \in 1 .. d, Promised(i)
               PROVE  i <= Len(sent) /\ delivered'[i] = sent[i]
    BY <1>3, <1>6, <1>8 DEF InOrder
  <2>1. CASE i = d
    BY <1>6, <1>7, <2>1
  <2>2. CASE i \in 1 .. Len(delivered)
    BY <1>6, <2>2 DEF InOrder
  <2> QED BY <1>0, <2>1, <2>2
<1>10. Len(ReadBuf') >= 4 => ReadMsgPayloadLth' = Uint32(ReadBuf', 0)
  BY <1>2
<1>11. ASSUME Promised(d + 1)
       PROVE  /\ d <= Len(sent)
              /\ Consumed' + Len(ReadBuf') = readPos'
              /\ \A k \in 1 .. Len(ReadBuf') : ReadBuf'[k] = stream[Consumed' + k]
  <2>1. Promised(d) /\ Promised(Len(delivered) + 1)
    BY <1>0, <1>11 DEF Promised, TypeOK
  <2>2. d \in 1 .. Len(sent) /\ msgLength = FrameLen(d) /\ starts[d] = Consumed
    BY <1>7, <2>1
  <2>3. /\ Consumed + Len(ReadBuf) = readPos
        /\ \A k \in 1 .. Len(ReadBuf) : ReadBuf[k] = stream[Consumed + k]
        /\ Consumed \in Nat
    BY <2>1, ConsumedNat DEF IInv, ReadInv
  <2>4. Consumed' = Consumed + msgLength
    BY <1>3, <1>6, <2>2 DEF Consumed, FrameEnd, FrameLen
  <2>5. Consumed' + Len(ReadBuf') = readPos'
    <3>1. \A x, y, z \in Nat : (x + y) + (z - y) = x + z
      OBVIOUS
    <3> QED BY <1>1, <1>2, <1>4, <2>3, <2>4, <3>1
  <2>6. ASSUME NEW k \in 1 .. Len(ReadBuf') PROVE ReadBuf'[k] = stream[Consumed' + k]
    <3>1. k \in Nat /\ msgLength + k \in 1 .. Len(ReadBuf) /\ k \in 1 .. Len(rest)
      BY <1>1, <1>2, <1>4
    <3>2. ReadBuf'[k] = stream[Consumed + (msgLength + k)]
      BY <1>2, <1>4, <2>3, <3>1
    <3>3. Consumed + (msgLength + k) = Consumed' + k
      BY <1>1, <2>3, <2>4, <3>1
    <3> QED BY <3>2, <3>3
  <2> QED BY <2>2, <2>5, <2>6
<1>12. ReadInv'
  <2>1. Promised(Len(delivered) + 1)' => Promised(d + 1)
    BY <1>3, <1>6 DEF Promised
  <2> QED BY <1>3, <1>6, <1>10, <1>11, <2>1 DEF ReadInv
<1>13. IInv'
  BY <1>2, <1>12, WriterUndisturbed DEF IInv
<1> QED
  BY <1>0, <1>6, <1>7, <1>9, <1>13

\* The reader panics only after a failed write.
LEMMA PanicStep ==
  ASSUME TypeOK, IInv, InOrder, SlicePanic
  PROVE  IInv' /\ InOrder' /\ NoPanic'
<1>1. UNCHANGED <<writerVars, readPos, ReadBuf, ReadMsgPayloadLth, delivered>>
  BY DEF SlicePanic
<1>2. /\ stream' = stream /\ sent' = sent /\ starts' = starts /\ cut' = cut
      /\ readPos' = readPos /\ ReadBuf' = ReadBuf /\ delivered' = delivered
      /\ ReadMsgPayloadLth' = ReadMsgPayloadLth
  BY <1>1 DEF writerVars
<1>3. ReadInv' /\ InOrder'
  BY <1>2 DEF IInv, ReadInv, InOrder, Consumed, FrameEnd, FrameLen, Promised, Uint32
<1>4. cut # 0
  <2>1. SUFFICES ASSUME cut = 0 PROVE FALSE
    OBVIOUS
  <2> DEFINE d == Len(delivered) + 1
  <2>2. Promised(d) /\ Len(ReadBuf) >= 4 /\ MsgLength(ReadMsgPayloadLth) < 8
    BY <2>1 DEF Promised, SlicePanic, FrameComplete
  <2>3. d \in 1 .. Len(sent) /\ MsgLength(ReadMsgPayloadLth) = FrameLen(d)
    BY <2>2, FrontFrame
  <2>4. FrameLen(d) = 8 + Len(sent[d].data) /\ Len(sent[d].data) \in Nat
    BY <2>3, SentProps DEF IInv, FrameLen
  <2> HIDE DEF d
  <2> QED BY <2>2, <2>3, <2>4
<1> QED
  BY <1>1, <1>2, <1>3, <1>4, WriterUndisturbed DEF IInv, NoPanic

\* The invariant holds initially.
LEMMA InvInit == Init => IInv /\ InOrder /\ NoPanic
<1> SUFFICES ASSUME Init PROVE IInv /\ InOrder /\ NoPanic
  OBVIOUS
<1>1. /\ SendLock = NoSender /\ unwritten = [s \in Senders |-> << >>] /\ stream = << >>
      /\ readPos = 0 /\ ReadBuf = << >> /\ reader = "reading" /\ sent = << >>
      /\ starts = << >> /\ delivered = << >> /\ cut = 0
  BY DEF Init
<1>2. LockInv /\ StartsInv /\ StreamInv
  BY <1>1 DEF LockInv, StartsInv, StreamInv
<1>3. WriteInv
  BY <1>1, SenderAssumption DEF WriteInv
<1>4. ReadInv
  BY <1>1 DEF ReadInv, Consumed
<1>5. InOrder /\ NoPanic
  BY <1>1 DEF InOrder, NoPanic
<1> QED BY <1>2, <1>3, <1>4, <1>5 DEF IInv

\* Every step preserves it.
LEMMA InvNext ==
  TypeOK /\ IInv /\ InOrder /\ NoPanic /\ [Next]_vars => IInv' /\ InOrder' /\ NoPanic'
<1> SUFFICES ASSUME TypeOK, IInv, InOrder, NoPanic, [Next]_vars
             PROVE  IInv' /\ InOrder' /\ NoPanic'
  OBVIOUS
<1>1. ASSUME NEW s \in Senders, NEW m \in Msgs, SendMsgLock(s, m)
      PROVE  IInv' /\ InOrder' /\ NoPanic'
  <2>1. NoPanic'
    BY <1>1 DEF SendMsgLock, NoPanic, readerVars
  <2> QED BY <1>1, <2>1, LockStep
<1>2. ASSUME NEW s \in Senders, WriteByte(s)
      PROVE  IInv' /\ InOrder' /\ NoPanic'
  <2>1. NoPanic'
    BY <1>2 DEF WriteByte, NoPanic, readerVars
  <2> QED BY <1>2, <2>1, WriteStep
<1>3. ASSUME NEW s \in Senders, SendMsgUnlock(s)
      PROVE  IInv' /\ InOrder' /\ NoPanic'
  <2>1. NoPanic'
    BY <1>3 DEF SendMsgUnlock, NoPanic, readerVars
  <2> QED BY <1>3, <2>1, UnlockStep
<1>4. ASSUME NEW s \in Senders, WriteFail(s)
      PROVE  IInv' /\ InOrder' /\ NoPanic'
  <2>1. NoPanic'
    BY <1>4 DEF WriteFail, NoPanic, readerVars
  <2> QED BY <1>4, <2>1, FailStep
<1>5. CASE ReadHeader \/ ReadBody
  BY <1>5, ReadStep
<1>6. CASE ReturnMsg
  <2>1. NoPanic'
    BY <1>6 DEF ReturnMsg, NoPanic, writerVars
  <2> QED BY <1>6, <2>1, ReturnStep
<1>7. CASE SlicePanic
  BY <1>7, PanicStep
<1>8. CASE ReadFail
  <2>1. UNCHANGED <<writerVars, readPos, ReadBuf, ReadMsgPayloadLth, delivered>> /\ reader' = "failed"
    BY <1>8 DEF ReadFail
  <2>2. /\ stream' = stream /\ sent' = sent /\ starts' = starts /\ cut' = cut
        /\ readPos' = readPos /\ ReadBuf' = ReadBuf /\ delivered' = delivered
        /\ ReadMsgPayloadLth' = ReadMsgPayloadLth
    BY <2>1 DEF writerVars
  <2>3. ReadInv' /\ InOrder' /\ NoPanic'
    BY <2>1, <2>2
    DEF IInv, ReadInv, InOrder, NoPanic, Consumed, FrameEnd, FrameLen, Promised, Uint32
  <2> QED BY <2>1, <2>3, WriterUndisturbed DEF IInv
<1>9. CASE UNCHANGED vars
  <2>1. UNCHANGED writerVars
    BY <1>9 DEF vars, writerVars
  <2>2. /\ stream' = stream /\ sent' = sent /\ starts' = starts /\ cut' = cut
        /\ readPos' = readPos /\ ReadBuf' = ReadBuf /\ delivered' = delivered
        /\ ReadMsgPayloadLth' = ReadMsgPayloadLth /\ reader' = reader
    BY <1>9 DEF vars
  <2>3. ReadInv'
    BY <2>2 DEF IInv, ReadInv, Consumed, FrameEnd, FrameLen, Promised, Uint32
  <2>4. InOrder' /\ NoPanic'
    BY <2>2 DEF InOrder, NoPanic, Promised
  <2> QED BY <2>1, <2>3, <2>4, WriterUndisturbed DEF IInv
<1> QED
  BY <1>1, <1>2, <1>3, <1>4, <1>5, <1>6, <1>7, <1>8, <1>9 DEF Next

\* The framing code delivers the messages of SendMsg in order, each once,
\* up to the first write that failed, and until then GetMsg does not panic.
THEOREM FramingCorrect == Spec => [](InOrder /\ NoPanic)
<1>1. Init => TypeOK /\ IInv /\ InOrder /\ NoPanic
  BY TypeInit, InvInit
<1>2. TypeOK /\ IInv /\ InOrder /\ NoPanic /\ [Next]_vars
        => (TypeOK /\ IInv /\ InOrder /\ NoPanic)'
  BY TypeNext, InvNext
<1> QED BY <1>1, <1>2, PTL DEF Spec

\* GetMsg does not panic on a stream in which no write has failed.
THEOREM FramingNoPanic == Spec => []NoPanic
<1> QED BY FramingCorrect, PTL

\* The inductive invariant itself.
THEOREM FramingInvariant == Spec => []IInv
<1>1. Init => TypeOK /\ IInv /\ InOrder /\ NoPanic
  BY TypeInit, InvInit
<1>2. TypeOK /\ IInv /\ InOrder /\ NoPanic /\ [Next]_vars
        => (TypeOK /\ IInv /\ InOrder /\ NoPanic)'
  BY TypeNext, InvNext
<1> QED BY <1>1, <1>2, PTL DEF Spec

-----------------------------------------------------------------------------
(* Refinement of the abstract channel. *)

\* A step of the connection is a step of the channel or a stutter.
LEMMA ChannelStep ==
  TypeOK /\ IInv /\ InOrder /\ [Next]_vars => [Channel!Next]_(Channel!chanVars)
<1> USE DEF Channel!chanVars
<1> SUFFICES ASSUME TypeOK, IInv, InOrder, [Next]_vars
             PROVE  [Channel!Next]_(Channel!chanVars)
  OBVIOUS
<1>1. ASSUME NEW s \in Senders, NEW m \in Msgs, SendMsgLock(s, m)
      PROVE  Channel!Send
  BY <1>1 DEF SendMsgLock, readerVars, Channel!Send
<1>2. ASSUME NEW s \in Senders, WriteByte(s) \/ SendMsgUnlock(s)
      PROVE  UNCHANGED Channel!chanVars
  BY <1>2 DEF WriteByte, SendMsgUnlock, readerVars
<1>3. ASSUME NEW s \in Senders, WriteFail(s)
      PROVE  Channel!Break \/ UNCHANGED Channel!chanVars
  <2>1. sent # << >>
    BY <1>3 DEF WriteFail, IInv, WriteInv
  <2> QED BY <1>3, <2>1 DEF WriteFail, readerVars, Channel!Break
<1>4. CASE ReadHeader \/ ReadBody \/ SlicePanic \/ ReadFail
  BY <1>4 DEF ReadHeader, ReadBody, SlicePanic, ReadFail, writerVars
<1>5. CASE ReturnMsg
  <2>1. PICK d \in Nat : d = Len(delivered)
    BY DEF TypeOK
  <2>2. /\ Len(delivered') = d + 1
        /\ \A i \in 1 .. d : delivered'[i] = delivered[i]
        /\ Promised(d + 1) => d + 1 \in 1 .. Len(sent) /\ delivered'[d + 1] = sent[d + 1]
    BY <1>5, <2>1, ReturnStep
  <2>3. delivered' \in Seq([type : 0 .. (Word - 1), data : Seq(Byte)])
    BY TypeNext DEF TypeOK
  <2>4. SubSeq(delivered', 1, d) = delivered
    <3> DEFINE S == [type : 0 .. (Word - 1), data : Seq(Byte)]
    <3>1. delivered \in Seq(S) /\ delivered' \in Seq(S)
      BY <2>3 DEF TypeOK
    <3> HIDE DEF S
    <3> QED BY <2>1, <2>2, <3>1
  <2>5. sent' = sent /\ cut' = cut
    BY <1>5 DEF ReturnMsg, writerVars
  <2>6. (d + 1) - 1 = d
    OBVIOUS
  <2>7. Channel!Receive
    BY <2>1, <2>2, <2>4, <2>5, <2>6 DEF Channel!Receive, Channel!Promised, Promised
  <2> QED BY <2>7 DEF Channel!Next
<1>6. CASE UNCHANGED vars
  BY <1>6 DEF vars
<1> QED
  BY <1>1, <1>2, <1>3, <1>4, <1>5, <1>6 DEF Next, Channel!Next

\* One direction of a connection implements the abstract message channel.
THEOREM FramingRefinesChannel == Spec => ChannelSpec
<1>1. Init => TypeOK /\ IInv /\ InOrder /\ NoPanic
  BY TypeInit, InvInit
<1>2. TypeOK /\ IInv /\ InOrder /\ NoPanic /\ [Next]_vars
        => (TypeOK /\ IInv /\ InOrder /\ NoPanic)'
  BY TypeNext, InvNext
<1>3. Init => Channel!Init
  BY DEF Init, Channel!Init
<1> QED
  BY <1>1, <1>2, <1>3, ChannelStep, PTL DEF Spec, ChannelSpec, Channel!Spec
=============================================================================
