-------------------------------- MODULE Host --------------------------------
(***************************************************************************)
(* One host: an agent process that is announced in etcd (module Discovery) *)
(* and captures packets as the switch announced there says (module         *)
(* Capture).  A panic of either ends the process, which may be started     *)
(* again.                                                                  *)
(***************************************************************************)
EXTENDS Discovery

CONSTANTS Handles, NoHandle, Cap

VARIABLES
  pc, Handle, conn, handle,  \* module Capture
  asked                      \* the switch may have changed since main put OFF

vars == <<discoveryVars, pc, Handle, conn, handle, asked>>

C == INSTANCE Capture WITH pcapswitch <- store["pcapswitch"].val

ASSUME HostAssumption ==
  "pcapswitch" \in Keys /\ Cap \in Nat \ {0} /\ NoHandle \notin Handles

Init ==
  /\ DiscoveryInitial
  /\ C!CaptureInitial
  /\ asked = FALSE

\* The process ends while it may be capturing.
Panic ==
  \/ /\ \/ ColInitPanic \/ ClientInitPanic \/ AgentInitLogPanic
        \/ ClientDiscoveryPanic \/ KeepAliveLost
        \/ \E k \in Items : MannualCollectPanic(k)
     /\ C!CaptureEnds
     /\ UNCHANGED asked
  \/ /\ C!CaptureStartPanic
     /\ ProcessEnds
     /\ UNCHANGED <<live, store, etcdok, asked>>

\* main, up to RunAgent.
Main ==
  /\ \/ /\ Start \/ ColInit \/ (\E l \in Leases : ClientInit(l)) \/ AgentInitLog
        /\ UNCHANGED asked
     \/ ClientDiscovery /\ asked' = (asked /\ Infos[next] # "pcapswitch")
  /\ UNCHANGED <<pc, Handle, conn, handle>>

DataCollect == (\E k \in Items : MannualCollect(k)) /\ UNCHANGED <<pc, Handle, conn, handle, asked>>

\* What others do: leases expire, the switch is set, etcd is out of reach.
Environment ==
  /\ \/ \E l \in Leases : Expire(l) /\ asked' = (asked \/ l = lease)
     \/ \E v \in {"ON", "OFF"} : SetSwitch(v) /\ asked' = (asked \/ v = "ON")
     \/ Cut /\ UNCHANGED asked
  /\ UNCHANGED <<pc, Handle, conn, handle>>

Capturing == proc = "up" /\ C!Capturing /\ UNCHANGED <<discoveryVars, asked>>

Reading(h) == C!Reading(h) /\ UNCHANGED <<discoveryVars, asked>>

Next == Panic \/ Main \/ DataCollect \/ Environment \/ Capturing \/ \E h \in Handles : Reading(h)

Spec == Init /\ [][Next]_vars

\* Goroutines run, leases that are not kept alive expire, and packets that match
\* the filter keep coming.  Nothing is assumed of writes to the dump server: they
\* have no deadline, and one to a server that does not read need not return.
FairSpec ==
  /\ Spec
  /\ WF_vars(Panic) /\ WF_vars(Main /\ proc # "down")
  /\ WF_vars(Capturing /\ pc # "write")
  /\ \A l \in Leases : WF_vars(Environment /\ Expire(l))
  /\ \A h \in Handles :
       WF_vars(Reading(h)) /\ SF_vars(C!Packet(h) /\ UNCHANGED <<discoveryVars, asked>>)

-----------------------------------------------------------------------------
(* Properties. *)

TypeOK ==
  /\ proc \in {"down", "start", "init", "log", "register", "up"}
  /\ next \in 1 .. Len(Infos) + 1
  /\ lease \in Leases \cup {NoLease} /\ live \subseteq Leases
  /\ store \in [Keys -> [val : {"", "ON", "OFF", "info"}, lease : live \cup {NoLease}]]
  /\ etcdok \in BOOLEAN /\ asked \in BOOLEAN /\ conn \in BOOLEAN
  /\ pc \in {"top", "init", "start", "range", "check", "write", "close"}
  /\ Handle \in Handles \cup {NoHandle}
  /\ handle \in [Handles -> [open : BOOLEAN, stop : BOOLEAN, queue : 0 .. Cap,
                             reader : {"idle", "read", "send", "done"}]]

\* While the lease of a running agent lives, everything it announced is there:
\* the lease of an earlier process takes nothing with it when it expires.
KeysKept == proc = "up" /\ lease \in live => Listed

\* libpcap is called on open handles only: Close waits for the reader.
NoUseAfterClose == \A h \in Handles : handle[h].reader = "read" => handle[h].open

\* The channel CaptureStart ranges over does not end: only CaptureStart closes
\* the handle, and it leaves the loop then.
RangedIsOpen ==
  pc \in {"range", "check", "write"} =>
    handle[Handle].open /\ ~ handle[Handle].stop /\ handle[Handle].reader # "done"

\* A new process does not capture because of a switch that was on before: a
\* capture starts only when the switch was set to ON or the lease expired after
\* main had put OFF, or when this very read of the switch fails, which PcapDump
\* takes for ON.
QuietStart == [][pc = "top" /\ pc' = "init" => asked \/ ~ etcdok]_vars

\* How far main is.
Progress ==
  /\ proc \in {"down", "start", "init", "log"} => next = 1
  /\ proc = "register" => next <= Len(Infos)
  /\ proc = "up" => next = Len(Infos) + 1

\* What is announced so far hangs on the current lease, or on none.
Announced ==
  lease \in live => \A i \in 1 .. next - 1 :
       store[Infos[i]].val # "" /\ store[Infos[i]].lease \in {lease, NoLease}

\* What QuietStart rests on: as long as nobody changed it, what main put stands.
SwitchStands ==
  ~ asked /\ (\E i \in 1 .. next - 1 : Infos[i] = "pcapswitch") =>
    store["pcapswitch"].val = "OFF" /\ lease \in live

\* The handle of a capture is open from CaptureInit until it is closed.
HandleOpen ==
  /\ C!InUse => Handle \in Handles /\ handle[Handle].open
  /\ pc = "start" /\ Handle # NoHandle => handle[Handle].open /\ ~ handle[Handle].stop
  /\ pc # "top" => proc = "up"

\* The inductive invariant.
HostInv ==
  /\ TypeOK /\ Progress /\ Announced /\ SwitchStands
  /\ HandleOpen /\ RangedIsOpen /\ NoUseAfterClose

\* When etcd is in reach for good, starts fail only so often, and the process is
\* started again each time it ended, it is announced again and again.
Reregisters ==
  <>[]etcdok /\ <>[][~ StartFails]_vars /\ []<>(proc # "down") => []<>(proc = "up" /\ Listed)

\* A host whose agent is gone for good is no longer listed: of what the agent
\* put nothing is left but a switch that an operator set after it.
GoneIsUnlisted ==
  <>[](proc = "down") => <>[](\A k \in Keys \ {"pcapswitch"} : store[k] = Absent)

\* Once the switch stays OFF and etcd in reach, a capture ends, also when it
\* waits for the reader to give the mutex up, as long as the dump server reads
\* what is written to it.
OffEnds ==
  <>[](store["pcapswitch"].val = "OFF" /\ etcdok) /\ []<>(pc # "write") => <>[](~ C!InUse)

\* A capture that was left behind is not closed any more, but what it holds is
\* bounded: its reader stalls for good once the channel is full, unless the
\* process ends.
LeftBehindStalls ==
  \A h \in Handles : C!LeftBehind(h) ~> ([]C!Stalled(h) \/ ~ handle[h].open)
=============================================================================
