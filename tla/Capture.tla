------------------------------ MODULE Capture -------------------------------
(***************************************************************************)
(* Packet capture on the agent: PcapDump turns it on, CaptureStart sends   *)
(* packets to the dump server, and for each handle that was opened a       *)
(* reader goroutine of gopacket moves packets from libpcap to a channel.   *)
(*                                                                         *)
(* Packets are counted, not told apart.  A handle that was left behind     *)
(* stays in use; one that is closed and whose reader has ended is free.    *)
(* That the channel ends while CaptureStart ranges over it is not an       *)
(* action: RangedIsOpen shows that it does not happen.                     *)
(***************************************************************************)
EXTENDS Integers

CONSTANTS
  Handles,   \* pcap handles that can be open at the same time
  NoHandle,  \* Capdump.Handle is nil
  Cap        \* capacity of the channel of packets

VARIABLES
  pcapswitch,  \* what etcd holds under pcapswitch (owned by module Host)
  etcdok,      \* a read from etcd succeeds (owned by module Host)
  pc,          \* where PcapDump and CaptureStart are
  Handle,      \* Capdump.Handle
  conn,        \* the connection to the dump server is there, or nil
  handle       \* per handle: open, stop, its reader and the channel's length

Unused == [open |-> FALSE, stop |-> FALSE, reader |-> "done", queue |-> 0]

CaptureInitial ==
  /\ pc = "top"
  /\ Handle = NoHandle
  /\ conn = FALSE
  /\ handle = [h \in Handles |-> Unused]

\* The process ends, and everything it had open with it.
CaptureEnds ==
  /\ pc' = "top"
  /\ Handle' = NoHandle
  /\ conn' = FALSE
  /\ handle' = [h \in Handles |-> Unused]

\* GetSingleCfg(pcapswitch) = "OFF"; a read that fails returns "".
IsOff == pcapswitch = "OFF" /\ etcdok

-----------------------------------------------------------------------------
(* PcapDump and CaptureStart. *)

\* PcapDump finds that the switch is not OFF.
PcapDump ==
  /\ pc = "top"
  /\ ~ IsOff
  /\ pc' = "init"
  /\ UNCHANGED <<Handle, conn, handle>>

\* OpenLive returns a handle.
CaptureInit(h) ==
  /\ pc = "init"
  /\ ~ handle[h].open /\ handle[h].reader = "done"
  /\ Handle' = h
  /\ handle' = [handle EXCEPT ![h] = [Unused EXCEPT !.open = TRUE]]
  /\ pc' = "start"
  /\ UNCHANGED conn

\* OpenLive fails, which is logged.
CaptureInitError ==
  /\ pc = "init"
  /\ Handle' = NoHandle
  /\ pc' = "start"
  /\ UNCHANGED <<conn, handle>>

\* CaptureStart dials the dump server, which may fail and is logged, and starts
\* the reader.
CaptureStart ==
  /\ pc = "start"
  /\ Handle # NoHandle
  /\ conn' \in BOOLEAN
  /\ handle' = [handle EXCEPT ![Handle].reader = "idle"]
  /\ pc' = "range"
  /\ UNCHANGED Handle

\* SetBPFFilter on a nil handle: the process dies.
CaptureStartPanic ==
  /\ pc = "start"
  /\ Handle = NoHandle
  /\ CaptureEnds

\* A packet is received.  Without a connection the capture is left behind.
Receive ==
  /\ pc = "range"
  /\ handle[Handle].queue > 0
  /\ handle' = [handle EXCEPT ![Handle].queue = @ - 1]
  /\ pc' = IF conn THEN "check" ELSE "top"
  /\ UNCHANGED <<Handle, conn>>

\* The switch is OFF: Close sets stop and waits for the mutex of the handle.
CheckOff ==
  /\ pc = "check"
  /\ IsOff
  /\ handle' = [handle EXCEPT ![Handle].stop = TRUE]
  /\ pc' = "close"
  /\ UNCHANGED <<Handle, conn>>

\* It is not: the packet is written in three parts.
CheckOn ==
  /\ pc = "check"
  /\ ~ IsOff
  /\ pc' = "write"
  /\ UNCHANGED <<Handle, conn, handle>>

Write ==
  /\ pc = "write"
  /\ pc' = "range"
  /\ UNCHANGED <<Handle, conn, handle>>

\* One of the writes fails, and the capture is left behind.
WriteError ==
  /\ pc = "write"
  /\ pc' = "top"
  /\ conn' = FALSE
  /\ UNCHANGED <<Handle, handle>>

\* Handle r after pcapClose.
Closed(r) == IF r.reader = "done" THEN Unused ELSE [r EXCEPT !.open = FALSE]

\* Mutant: Close does not wait for the reader.
CloseCaptureNow ==
  /\ pc = "close"
  /\ handle' = [handle EXCEPT ![Handle] = Closed(@)]
  /\ conn' = FALSE
  /\ pc' = "top"
  /\ UNCHANGED Handle

\* Mutant: the reader keeps the mutex while it sends.
CloseCaptureHeld ==
  /\ pc = "close"
  /\ handle[Handle].reader \notin {"read", "send"}
  /\ handle' = [handle EXCEPT ![Handle] = Closed(@)]
  /\ conn' = FALSE
  /\ pc' = "top"
  /\ UNCHANGED Handle

\* Mutant: the loop is not left after Close.
CloseCaptureStays ==
  /\ pc = "close"
  /\ handle[Handle].reader # "read"
  /\ handle' = [handle EXCEPT ![Handle] = Closed(@)]
  /\ conn' = FALSE
  /\ pc' = "range"
  /\ UNCHANGED Handle

\* Close has the mutex and closes the handle; the connection is closed too.
CloseCapture ==
  /\ pc = "close"
  /\ handle[Handle].reader # "read"
  /\ handle' = [handle EXCEPT ![Handle] = Closed(@)]
  /\ conn' = FALSE
  /\ pc' = "top"
  /\ UNCHANGED Handle

-----------------------------------------------------------------------------
(* The reader of a handle: packetsToChannel. *)

\* ReadPacketData takes the mutex.  On a handle that is closed or being closed
\* it returns EOF, which ends the reader; otherwise libpcap is called.
ReadPacketData(h) ==
  /\ handle[h].reader = "idle"
  /\ handle' = [handle EXCEPT ![h] =
       IF ~ handle[h].open THEN Unused
       ELSE [@ EXCEPT !.reader = IF handle[h].stop THEN "done" ELSE "read"]]
  /\ UNCHANGED <<pc, Handle, conn>>

\* A packet comes, and the mutex is released.
Packet(h) ==
  /\ handle[h].reader = "read"
  /\ handle' = [handle EXCEPT ![h].reader = "send"]
  /\ UNCHANGED <<pc, Handle, conn>>

\* libpcap fails: the reader sleeps for 5 ms and tries again.
PacketError(h) ==
  /\ handle[h].reader = "read"
  /\ handle' = [handle EXCEPT ![h].reader = "idle"]
  /\ UNCHANGED <<pc, Handle, conn>>

\* Mutant: a packet is dropped when the channel is full.
SendDrops(h) ==
  /\ handle[h].reader = "send"
  /\ handle' = [handle EXCEPT ![h].reader = "idle",
                              ![h].queue = IF @ < Cap THEN @ + 1 ELSE @]
  /\ UNCHANGED <<pc, Handle, conn>>

\* The packet is sent as soon as the channel has room.
Send(h) ==
  /\ handle[h].reader = "send"
  /\ handle[h].queue < Cap
  /\ handle' = [handle EXCEPT ![h].reader = "idle", ![h].queue = @ + 1]
  /\ UNCHANGED <<pc, Handle, conn>>

-----------------------------------------------------------------------------
Capturing ==
  \/ PcapDump \/ (\E h \in Handles : CaptureInit(h)) \/ CaptureInitError \/ CaptureStart
  \/ Receive \/ CheckOff \/ CheckOn \/ Write \/ WriteError \/ CloseCapture

Reading(h) == ReadPacketData(h) \/ Packet(h) \/ PacketError(h) \/ Send(h)

\* CaptureStart uses its handle.
InUse == pc \in {"range", "check", "write", "close"}

\* Handle h was left open by a capture that ended.
LeftBehind(h) == handle[h].open /\ (~ InUse \/ h # Handle) /\ ~ (pc = "start" /\ h = Handle)

\* The reader of h waits for room in a full channel.
Stalled(h) == handle[h].reader = "send" /\ handle[h].queue = Cap
=============================================================================
