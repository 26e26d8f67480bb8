------------------------------ MODULE Framing -------------------------------
(***************************************************************************)
(* One direction of one TCP connection between an agent and the server:    *)
(* SendMsg turns a message into a frame and writes it under SendLock, the  *)
(* bytes travel as a stream, and GetMsg cuts the stream back into          *)
(* messages.  A frame is                                                   *)
(*                                                                         *)
(*    4 bytes payload length | 4 bytes message type | payload              *)
(*                                                                         *)
(* Agent and TcpClient hold the same code for both ends.  The writer here  *)
(* is translated from Agent.SendMsg, the reader from TcpClient.GetMsg.     *)
(* Payload bytes are what proto.Marshal returned; they are opaque.         *)
(***************************************************************************)
EXTENDS Integers, Sequences

CONSTANTS
  Base,       \* number of values of a byte (256 in the code)
  ReadChunk,  \* size of the buffer given to Conn.Read (256 in the code)
  Senders,    \* goroutines that call SendMsg on this connection
  NoSender,   \* SendLock is free
  Msgs,       \* messages SendMsg may be given: records of type and data
  MaxSends    \* bound on the calls of SendMsg

Byte == 0 .. (Base - 1)

\* Number of values of a uint32.
Word == Base * Base * Base * Base

ASSUME BaseAssumption  == Base \in Nat /\ Base >= 2
ASSUME ChunkAssumption == ReadChunk \in Nat \ {0}
ASSUME SenderAssumption == NoSender \notin Senders
ASSUME SendsAssumption == MaxSends \in Nat

\* Every payload fits a frame whose total length is still a uint32: the
\* length that GetMsg computes as ReadMsgPayloadLth + 8 does not wrap.  Nothing in
\* the program sees to that: RemoteFileSend puts a file of any size in a message.
ASSUME MsgsAssumption ==
  \A m \in Msgs : /\ m \in [type : 0 .. (Word - 1), data : Seq(Byte)]
                  /\ Len(m.data) + 8 < Word

VARIABLES
  SendLock,           \* the sender that holds Agent.SendLock, or NoSender
  unwritten,          \* per sender: the bytes of its packet still to be written
  stream,             \* every byte the connection accepted, in order
  readPos,            \* how many bytes of stream Conn.Read has returned
  ReadBuf,            \* TcpClient.ReadBuf
  ReadMsgPayloadLth,  \* TcpClient.ReadMsgPayloadLth
  reader,             \* "reading", "failed" (GetMsg returned an error) or "panicked"
  sent,               \* history: messages handed to Conn.Write, in order
  starts,             \* history: length of stream when the write of sent[i] began
  delivered,          \* history: messages GetMsg returned, in order
  cut                 \* position in sent of the first failed write, 0 when none

writerVars == <<SendLock, unwritten, stream, sent, starts, cut>>
readerVars == <<readPos, ReadBuf, ReadMsgPayloadLth, reader, delivered>>
vars       == <<SendLock, unwritten, stream, sent, starts, cut,
                readPos, ReadBuf, ReadMsgPayloadLth, reader, delivered>>

-----------------------------------------------------------------------------
(* The frame format. *)

\* binary.BigEndian.PutUint32
PutUint32(n) ==
  LET n1 == n \div Base
      n2 == n1 \div Base
      n3 == n2 \div Base
  IN  <<n3 % Base, n2 % Base, n1 % Base, n % Base>>

\* Mutant: little-endian.
Uint32Little(b, i) == ((b[i+4] * Base + b[i+3]) * Base + b[i+2]) * Base + b[i+1]

\* binary.BigEndian.Uint32 of the four bytes of b that follow position i
Uint32(b, i) == ((b[i+1] * Base + b[i+2]) * Base + b[i+3]) * Base + b[i+4]

\* The bytes of packetBuf in SendMsg.
Packet(m) == PutUint32(Len(m.data)) \o PutUint32(m.type) \o m.data

\* msgLength, a uint32.
MsgLength(lth) == (lth + 8) % Word

-----------------------------------------------------------------------------
Init ==
  /\ SendLock = NoSender
  /\ unwritten = [s \in Senders |-> << >>]
  /\ stream = << >>
  /\ readPos = 0
  /\ ReadBuf = << >>
  /\ ReadMsgPayloadLth = 0
  /\ reader = "reading"
  /\ sent = << >>
  /\ starts = << >>
  /\ delivered = << >>
  /\ cut = 0

(***************************************************************************)
(* SendMsg: lock, write, unlock.  The lock is held while Conn.Write feeds  *)
(* the packet to the kernel piece by piece.  Nothing looks at Valid once   *)
(* SendMsg is entered, so a message may follow a write that failed.        *)
(***************************************************************************)
\* Mutant: the packet is written without waiting for SendLock.
SendMsgNoLock(s, m) ==
  /\ Len(sent) < MaxSends
  /\ unwritten[s] = << >>
  /\ SendLock' = s
  /\ unwritten' = [unwritten EXCEPT ![s] = Packet(m)]
  /\ sent' = Append(sent, m)
  /\ starts' = Append(starts, Len(stream))
  /\ UNCHANGED <<stream, cut>>
  /\ UNCHANGED readerVars

\* SendMsg up to and including SendLock.Lock.  The callers that return when their
\* own write failed (Heartbeat) are free to send again here.
SendMsgLock(s, m) ==
  /\ Len(sent) < MaxSends
  /\ SendLock = NoSender
  /\ SendLock' = s
  /\ unwritten' = [unwritten EXCEPT ![s] = Packet(m)]
  /\ sent' = Append(sent, m)
  /\ starts' = Append(starts, Len(stream))
  /\ UNCHANGED <<stream, cut>>
  /\ UNCHANGED readerVars

\* The kernel accepts one byte more of the packet.
WriteByte(s) ==
  /\ unwritten[s] # << >>
  /\ stream' = Append(stream, Head(unwritten[s]))
  /\ unwritten' = [unwritten EXCEPT ![s] = Tail(@)]
  /\ UNCHANGED <<SendLock, sent, starts, cut>>
  /\ UNCHANGED readerVars

\* Conn.Write returned without error.
SendMsgUnlock(s) ==
  /\ SendLock = s
  /\ unwritten[s] = << >>
  /\ SendLock' = NoSender
  /\ UNCHANGED <<unwritten, stream, sent, starts, cut>>
  /\ UNCHANGED readerVars

\* Conn.Write returned an error (write deadline, reset): part of the packet
\* may be on the wire.  SendMsg sets Valid to false, which is cut # 0 here,
\* and unlocks; the connection stays open.
WriteFail(s) ==
  /\ SendLock = s
  /\ unwritten[s] # << >>
  /\ unwritten' = [unwritten EXCEPT ![s] = << >>]
  /\ SendLock' = NoSender
  /\ cut' = IF cut = 0 THEN Len(sent) ELSE cut
  /\ UNCHANGED <<stream, sent, starts>>
  /\ UNCHANGED readerVars

(***************************************************************************)
(* GetMsg: one action per turn of its loop.                                *)
(***************************************************************************)

\* Conn.Read returns n bytes, which are appended to ReadBuf.
Read(n) ==
  /\ readPos + n <= Len(stream)
  /\ readPos' = readPos + n
  /\ ReadBuf' = ReadBuf \o SubSeq(stream, readPos + 1, readPos + n)

\* The length field is not complete yet.
ReadHeader ==
  /\ reader = "reading"
  /\ Len(ReadBuf) < 4
  /\ \E n \in 1 .. ReadChunk : Read(n)
  /\ ReadMsgPayloadLth' = IF Len(ReadBuf') >= 4 THEN Uint32(ReadBuf', 0)
                                                ELSE ReadMsgPayloadLth
  /\ UNCHANGED <<reader, delivered>>
  /\ UNCHANGED writerVars

\* The length is known, the frame is not complete.
ReadBody ==
  /\ reader = "reading"
  /\ Len(ReadBuf) >= 4
  /\ MsgLength(ReadMsgPayloadLth) > Len(ReadBuf)
  /\ \E n \in 1 .. ReadChunk : Read(n)
  /\ UNCHANGED <<ReadMsgPayloadLth, reader, delivered>>
  /\ UNCHANGED writerVars

\* Mutant: a frame that ends where ReadBuf ends is not seen as complete.
FrameCompleteStrict ==
  /\ reader = "reading"
  /\ Len(ReadBuf) >= 4
  /\ MsgLength(ReadMsgPayloadLth) < Len(ReadBuf)

\* Neither of the two branches that read is taken.
FrameComplete ==
  /\ reader = "reading"
  /\ Len(ReadBuf) >= 4
  /\ MsgLength(ReadMsgPayloadLth) <= Len(ReadBuf)

\* Mutant: the length field of a frame that is already in ReadBuf is not read.
ReturnMsgStaleLength ==
  /\ FrameComplete
  /\ LET msgLength == MsgLength(ReadMsgPayloadLth)
         rest == SubSeq(ReadBuf, msgLength + 1, Len(ReadBuf))
     IN  /\ msgLength >= 8
         /\ delivered' = Append(delivered,
                           [type |-> Uint32(ReadBuf, 4),
                            data |-> SubSeq(ReadBuf, 9, msgLength)])
         /\ ReadBuf' = rest
         /\ ReadMsgPayloadLth' = 0
  /\ UNCHANGED <<readPos, reader>>
  /\ UNCHANGED writerVars

\* A complete frame is cut off the front of ReadBuf and returned; what is
\* left may already hold the length field of the next frame.
ReturnMsg ==
  /\ FrameComplete
  /\ LET msgLength == MsgLength(ReadMsgPayloadLth)
         rest == SubSeq(ReadBuf, msgLength + 1, Len(ReadBuf))
     IN  /\ msgLength >= 8
         /\ delivered' = Append(delivered,
                           [type |-> Uint32(ReadBuf, 4),
                            data |-> SubSeq(ReadBuf, 9, msgLength)])
         /\ ReadBuf' = rest
         /\ ReadMsgPayloadLth' = IF Len(rest) >= 4 THEN Uint32(rest, 0) ELSE 0
  /\ UNCHANGED <<readPos, reader>>
  /\ UNCHANGED writerVars

\* The uint32 sum has wrapped: ReadBuf[8:msgLength] has its bounds reversed,
\* and the goroutine panics.
SlicePanic ==
  /\ FrameComplete
  /\ MsgLength(ReadMsgPayloadLth) < 8
  /\ reader' = "panicked"
  /\ UNCHANGED <<readPos, ReadBuf, ReadMsgPayloadLth, delivered>>
  /\ UNCHANGED writerVars

\* GetMsg returns an error: the peer was judged invalid, Conn.Read timed out,
\* or the connection is closed.  The caller stops reading.
ReadFail ==
  /\ reader = "reading"
  /\ reader' = "failed"
  /\ UNCHANGED <<readPos, ReadBuf, ReadMsgPayloadLth, delivered>>
  /\ UNCHANGED writerVars

Next ==
  \/ \E s \in Senders, m \in Msgs : SendMsgLock(s, m)
  \/ \E s \in Senders : WriteByte(s) \/ SendMsgUnlock(s) \/ WriteFail(s)
  \/ ReadHeader \/ ReadBody \/ ReturnMsg \/ SlicePanic \/ ReadFail

Spec == Init /\ [][Next]_vars

\* A write in progress goes on or fails (SetWriteDeadline), and the reading
\* goroutine keeps running; nothing obliges anyone to send.
Fairness ==
  /\ \A s \in Senders : WF_vars(WriteByte(s) \/ SendMsgUnlock(s) \/ WriteFail(s))
  /\ WF_vars(ReadHeader \/ ReadBody \/ ReturnMsg)

FairSpec == Spec /\ Fairness
-----------------------------------------------------------------------------
(* Properties. *)

TypeOK ==
  /\ SendLock \in Senders \cup {NoSender}
  /\ unwritten \in [Senders -> Seq(Byte)]
  /\ stream \in Seq(Byte)
  /\ readPos \in 0 .. Len(stream)
  /\ ReadBuf \in Seq(Byte)
  /\ ReadMsgPayloadLth \in 0 .. (Word - 1)
  /\ reader \in {"reading", "failed", "panicked"}
  /\ sent \in Seq(Msgs)
  /\ starts \in Seq(Nat)
  /\ delivered \in Seq([type : 0 .. (Word - 1), data : Seq(Byte)])
  /\ cut \in 0 .. Len(sent)

\* Stream position i comes before any failed write.
Promised(i) == cut = 0 \/ i < cut

\* The messages GetMsg returns are the messages SendMsg was given, in order
\* and each once, however the stream was split into reads and whichever
\* goroutines were sending, up to the first write that failed.
InOrder ==
  \A i \in 1 .. Len(delivered) :
    Promised(i) => /\ i <= Len(sent)
                   /\ delivered[i] = sent[i]

\* GetMsg does not panic on a stream in which no write has failed, with payloads
\* whose frame length is a uint32 (MsgsAssumption).
NoPanic == cut = 0 => reader # "panicked"

(***************************************************************************)
(* The inductive invariant behind InOrder and NoPanic.                     *)
(***************************************************************************)

\* Length of the frame of sent[i], and the position where it ends in stream.
FrameLen(i) == 8 + Len(sent[i].data)
FrameEnd(i) == starts[i] + FrameLen(i)

\* Only the holder of SendLock has bytes to write.
LockInv == \A s \in Senders : SendLock # s => unwritten[s] = << >>

\* The frames before the first failed write follow each other without gaps.
StartsInv ==
  /\ Len(starts) = Len(sent)
  /\ sent = << >> => stream = << >>
  /\ sent # << >> => starts[1] = 0
  /\ \A i \in 1 .. Len(sent) : starts[i] <= Len(stream)
  /\ \A i \in 1 .. (Len(sent) - 1) : Promised(i) => starts[i+1] = FrameEnd(i)

\* What the holder of SendLock has yet to write completes the last frame,
\* and when the lock is free the last frame is complete.
WriteInv ==
  /\ \A s \in Senders : SendLock = s =>
       /\ sent # << >>
       /\ Len(stream) + Len(unwritten[s]) = FrameEnd(Len(sent))
       /\ \A k \in 1 .. Len(unwritten[s]) :
            unwritten[s][k] =
              Packet(sent[Len(sent)])[Len(stream) - starts[Len(sent)] + k]
  /\ SendLock = NoSender /\ sent # << >> /\ cut = 0 =>
       Len(stream) = FrameEnd(Len(sent))

\* The stream holds the bytes of the frames before the first failed write.
StreamInv ==
  \A i \in 1 .. Len(sent) : Promised(i) =>
    \A k \in 1 .. FrameLen(i) : starts[i] + k <= Len(stream) =>
      stream[starts[i] + k] = Packet(sent[i])[k]

\* Where the frame after the last one delivered begins.
Consumed == IF delivered = << >> THEN 0 ELSE FrameEnd(Len(delivered))

\* ReadBuf holds what was read after the last frame delivered, and
\* ReadMsgPayloadLth is the length field at its front.
ReadInv ==
  /\ Len(ReadBuf) >= 4 => ReadMsgPayloadLth = Uint32(ReadBuf, 0)
  /\ Promised(Len(delivered) + 1) =>
       /\ Len(delivered) <= Len(sent)
       /\ Consumed + Len(ReadBuf) = readPos
       /\ \A k \in 1 .. Len(ReadBuf) : ReadBuf[k] = stream[Consumed + k]

IInv == /\ LockInv
        /\ StartsInv
        /\ WriteInv
        /\ StreamInv
        /\ ReadInv

\* No frame gets stuck in ReadBuf: what was sent is received, unless a write
\* fails or the reader gives up.
AllDelivered ==
  \A k \in 1 .. MaxSends :
    Len(sent) >= k ~> \/ Len(delivered) >= k
                      \/ cut # 0
                      \/ reader # "reading"

\* The connection implements the abstract channel.
Channel == INSTANCE MsgChannel WITH Msgs <- Msgs, sent <- sent, delivered <- delivered, cut <- cut
ChannelSpec == Channel!Spec

\* "the frame is read completely, but ReadBuf may hold a part of the next
\* one": what follows a complete frame is a frame, so every message returned
\* is one that was sent.
ReceivedWasSent ==
  \A i \in 1 .. Len(delivered) :
    \E j \in 1 .. Len(sent) : delivered[i] = sent[j]
=============================================================================
