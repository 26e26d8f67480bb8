------------------------------- MODULE Agent --------------------------------
(***************************************************************************)
(* The agent process: RunAgent dials the server, StartAgent runs six       *)
(* goroutines over the connection and waits for all of them, ResetAgent    *)
(* clears the session, and the loop begins again.  The goroutines share    *)
(* the Agent record; the only signal between them is the flag Valid.       *)
(*                                                                         *)
(* ReadBuf stands for ReadBuf with ReadMsgPayloadLth and is abstracted to  *)
(* whether bytes are left over (module Framing has the bytes).  Sleeping   *)
(* is not a station: a goroutine that sleeps is one that has not moved.    *)
(***************************************************************************)
EXTENDS Integers, FiniteSets, Sequences

CONSTANTS
  Goroutines,  \* what StartAgent starts, in its order
  NoOne        \* SendLock is free

Detectors == {"PingDetct", "TcpDetct"}
Switched  == Detectors \cup {"PcapDump"}
Names     == {"Heartbeat", "Listen", "DataCollect"} \cup Switched

ASSUME GoroutinesAssumption ==
  /\ Goroutines \in Seq(Names)
  /\ \A i, j \in 1 .. Len(Goroutines) : Goroutines[i] = Goroutines[j] => i = j
ASSUME NoOneAssumption == NoOne \notin Names

VARIABLES
  main,      \* where RunAgent is
  next,      \* index of the goroutine StartAgent starts next
  wg,        \* the counter of StartAgent's WaitGroup
  Conn,      \* Agent.Conn: nil, open or closed
  Valid,     \* Agent.Valid
  SendLock,  \* Agent.SendLock: the goroutine that holds it, or NoOne
  ReadBuf,   \* Agent.ReadBuf: empty or partial
  Switch,    \* Agent.PingSwitch, TcpSwitch, PcapSwitch, by their reader
  pc         \* where each goroutine is; "off": not started or returned

\* The places at which a goroutine can be.
Stations == {"off", "top", "lock", "write", "check", "collect", "get", "handle", "exec",
             "probe", "open", "capture", "packet"}

session == <<main, next, Conn>>
vars == <<main, next, wg, Conn, Valid, SendLock, ReadBuf, Switch, pc>>

\* What ResetAgent leaves.
Fresh ==
  /\ Conn = "nil"
  /\ Valid = TRUE
  /\ SendLock = NoOne
  /\ ReadBuf = "empty"
  /\ Switch = [g \in Switched |-> "OFF"]

\* NewAgent.
Init ==
  /\ Fresh
  /\ main = "dial"
  /\ next = 1
  /\ wg = 0
  /\ pc = [g \in Names |-> "off"]

-----------------------------------------------------------------------------
(* RunAgent and StartAgent. *)

DialFail ==
  /\ main = "dial"
  /\ main' = "reset"
  /\ UNCHANGED <<next, wg, Conn, Valid, SendLock, ReadBuf, Switch, pc>>

Dial ==
  /\ main = "dial"
  /\ main' = "start"
  /\ next' = 1
  /\ wg' = 0
  /\ Conn' = "open"
  /\ UNCHANGED <<Valid, SendLock, ReadBuf, Switch, pc>>

\* Mutant: wg.Add is forgotten.
StartGoroutineNoAdd ==
  /\ main = "start"
  /\ next <= Len(Goroutines)
  /\ pc' = [pc EXCEPT ![Goroutines[next]] = "top"]
  /\ next' = next + 1
  /\ UNCHANGED <<main, wg, Conn, Valid, SendLock, ReadBuf, Switch>>

\* wg.Add(1), go: the goroutines already started run meanwhile.
StartGoroutine ==
  /\ main = "start"
  /\ next <= Len(Goroutines)
  /\ wg' = wg + 1
  /\ pc' = [pc EXCEPT ![Goroutines[next]] = "top"]
  /\ next' = next + 1
  /\ UNCHANGED <<main, Conn, Valid, SendLock, ReadBuf, Switch>>

\* wg.Wait returns, then the deferred conn.Close.
Wait ==
  /\ main = "start"
  /\ next > Len(Goroutines)
  /\ wg = 0
  /\ main' = "reset"
  /\ Conn' = "closed"
  /\ UNCHANGED <<next, wg, Valid, SendLock, ReadBuf, Switch, pc>>

\* Mutant: the bytes of the old connection stay.
ResetAgentKeepsBuf ==
  /\ main = "reset"
  /\ main' = "dial"
  /\ Conn' = "nil" /\ Valid' = TRUE /\ SendLock' = NoOne
  /\ Switch' = [g \in Switched |-> "OFF"]
  /\ UNCHANGED <<next, wg, ReadBuf, pc>>

ResetAgent ==
  /\ main = "reset"
  /\ main' = "dial"
  /\ Conn' = "nil" /\ Valid' = TRUE /\ SendLock' = NoOne /\ ReadBuf' = "empty"
  /\ Switch' = [g \in Switched |-> "OFF"]
  /\ UNCHANGED <<next, wg, pc>>

-----------------------------------------------------------------------------
(* What the goroutines have in common. *)

Goto(g, station) == pc' = [pc EXCEPT ![g] = station] /\ wg' = wg

\* break out of the loop, wg.Done.
Return(g) == pc' = [pc EXCEPT ![g] = "off"] /\ wg' = wg - 1

\* A loop finds Valid false: at its top, or after a heartbeat or a collection.
Quit(g) ==
  /\ pc[g] \in {"top", "check"}
  /\ ~ Valid
  /\ Return(g)
  /\ UNCHANGED <<session, Valid, SendLock, ReadBuf, Switch>>

\* From station to the next one, nothing else happening.
Move(g, from, to) ==
  /\ pc[g] = from
  /\ Goto(g, to)
  /\ UNCHANGED <<session, Valid, SendLock, ReadBuf, Switch>>

SendMsgLock(g) ==
  /\ pc[g] = "lock"
  /\ SendLock = NoOne
  /\ SendLock' = g
  /\ Goto(g, "write")
  /\ UNCHANGED <<session, Valid, ReadBuf, Switch>>

AfterSend(g) == IF g = "Heartbeat" THEN "check" ELSE "top"

\* Mutant: Valid becomes the outcome of the last write.
SendMsgWriteSetsValid(g) ==
  /\ pc[g] = "write"
  /\ Valid' \in BOOLEAN
  /\ SendLock' = NoOne
  /\ Goto(g, AfterSend(g))
  /\ UNCHANGED <<session, ReadBuf, Switch>>

\* Mutant: the error path returns without unlocking.
SendMsgWriteLeak(g) ==
  /\ pc[g] = "write"
  /\ \/ Valid' = Valid /\ SendLock' = NoOne
     \/ Valid' = FALSE /\ SendLock' = SendLock
  /\ Goto(g, AfterSend(g))
  /\ UNCHANGED <<session, ReadBuf, Switch>>

\* The write succeeds or fails (a write deadline of zero seconds, when etcd
\* does not answer, included), and the lock is released.
SendMsgWrite(g) ==
  /\ pc[g] = "write"
  /\ Valid' \in {Valid, FALSE}
  /\ SendLock' = NoOne
  /\ Goto(g, AfterSend(g))
  /\ UNCHANGED <<session, ReadBuf, Switch>>

-----------------------------------------------------------------------------
(* Heartbeat and DataCollect. *)

HeartbeatTop == Valid /\ Move("Heartbeat", "top", "lock")
DataCollectTop == Valid /\ Move("DataCollect", "top", "collect")
MannualCollectEnd == Move("DataCollect", "collect", "check")

\* Valid is looked at a second time, then the goroutine sleeps.
CheckValid(g) == Valid /\ Move(g, "check", "top")

-----------------------------------------------------------------------------
(* Listen. *)

ListenTop == Valid /\ Move("Listen", "top", "get")

\* Mutant: Listen leaves without telling the others.
GetMsgErrorSilent ==
  /\ pc["Listen"] = "get"
  /\ Return("Listen")
  /\ UNCHANGED <<session, Valid, SendLock, ReadBuf, Switch>>

\* GetMsg finds Valid false, or its read fails or times out.
GetMsgError ==
  /\ pc["Listen"] = "get"
  /\ Valid' = FALSE
  /\ Return("Listen")
  /\ UNCHANGED <<session, SendLock, ReadBuf, Switch>>

\* A read that does not complete a frame: the loop of GetMsg goes on, and
\* begins by looking at Valid.
GetMsgPart ==
  /\ pc["Listen"] = "get"
  /\ ReadBuf' = "partial"
  /\ IF Valid THEN Goto("Listen", "get") ELSE Return("Listen")
  /\ UNCHANGED <<session, Valid, SendLock, Switch>>

\* A message; a part of the next one may be left in ReadBuf.
GetMsgReturn(buf) ==
  /\ pc["Listen"] = "get"
  /\ ReadBuf' = buf
  /\ Goto("Listen", "handle")
  /\ UNCHANGED <<session, Valid, SendLock, Switch>>

\* HandleMsg, in the same goroutine: a command is run, or the handler returns
\* with nothing sent (a response, a file, an unknown or malformed message).
HandleMsg(station) == Move("Listen", "handle", station)

\* ExecShell or ScriptExec ends: with an error, or with a result to send.
ExecError  == Move("Listen", "exec", "top")
ExecResult == Move("Listen", "exec", "lock")

-----------------------------------------------------------------------------
(* PingDetct, TcpDetct and PcapDump: a switch in etcd turns them on. *)

\* Where g goes when its switch is not OFF.
Busy(g) == IF g \in Detectors THEN "probe" ELSE "open"

\* The switch is read at the top of the loop; the error of GetSingleCfg is
\* dropped and leaves the empty string.
ReadSwitch(g, value) ==
  /\ pc[g] = "top"
  /\ Valid
  /\ Switch' = [Switch EXCEPT ![g] = value]
  /\ Goto(g, IF value = "OFF" THEN "top" ELSE Busy(g))
  /\ UNCHANGED <<session, Valid, SendLock, ReadBuf>>

\* StartPing or StartTcp returns.
ProbeEnd(g) == Move(g, "probe", "top")

\* CaptureInit, and CaptureStart up to its loop.
CaptureStart == Move("PcapDump", "open", "capture")

\* A packet arrives (the handle blocks until one does).
CapturePacket == Move("PcapDump", "capture", "packet")

\* It is sent to the dump server.  The loop does not look at Valid.
CaptureSend == Move("PcapDump", "packet", "capture")

\* There is no connection to the dump server, the switch reads OFF, or a
\* write fails.
CaptureEnd == Move("PcapDump", "packet", "top")

\* The process dies: TcpDetct by a domain without a port (an empty list, say),
\* PcapDump by the nil Handle of a failed OpenLive, DataCollect by a failed grant
\* or put, ScriptExec by a name without a dot, and at any time the goroutine that
\* keeps the lease alive.  Nothing in the repository starts the process again.
Panic ==
  /\ main # "dead"
  /\ main' = "dead"
  /\ Conn' = "closed"
  /\ wg' = 0
  /\ pc' = [h \in Names |-> "off"]
  /\ SendLock' = NoOne
  /\ UNCHANGED <<next, Valid, ReadBuf, Switch>>

-----------------------------------------------------------------------------
RunAgent == Dial \/ DialFail \/ StartGoroutine \/ Wait \/ ResetAgent

Goroutine(g) ==
  \/ Quit(g) \/ SendMsgLock(g) \/ SendMsgWrite(g) \/ CheckValid(g)

Listen ==
  \/ ListenTop \/ GetMsgError \/ GetMsgPart
  \/ \E buf \in {"empty", "partial"} : GetMsgReturn(buf)
  \/ \E station \in {"top", "exec"} : HandleMsg(station)
  \/ ExecError \/ ExecResult

Next ==
  \/ RunAgent
  \/ \E g \in Names : Goroutine(g)
  \/ HeartbeatTop \/ DataCollectTop \/ MannualCollectEnd
  \/ Listen
  \/ \E g \in Switched, value \in {"ON", "OFF", ""} : ReadSwitch(g, value)
  \/ \E g \in Detectors : ProbeEnd(g)
  \/ CaptureStart \/ CapturePacket \/ CaptureSend \/ CaptureEnd
  \/ Panic

Spec == Init /\ [][Next]_vars

\* Goroutines run, Dial and the detectors come to an end, reads and writes
\* end by their deadlines, etcd answers or fails, and a waiter for SendLock
\* gets it.  Packets arrive at a capture.
Fairness ==
  /\ WF_vars(RunAgent)
  /\ \A g \in Names : /\ WF_vars(Quit(g) \/ SendMsgWrite(g) \/ CheckValid(g))
                      /\ SF_vars(SendMsgLock(g))
  /\ WF_vars(HeartbeatTop) /\ WF_vars(DataCollectTop)
  /\ WF_vars(Listen /\ pc["Listen"] # "exec")
  /\ \A g \in Switched : WF_vars(\E value \in {"ON", "OFF", ""} : ReadSwitch(g, value))
  /\ \A g \in Detectors : WF_vars(ProbeEnd(g))
  /\ WF_vars(CaptureStart) /\ WF_vars(CapturePacket)
  /\ WF_vars(CaptureSend \/ CaptureEnd)

\* The processes run by ExecShell, ScriptExec and MannualCollect end.
CommandsEnd == WF_vars(ExecError \/ ExecResult) /\ WF_vars(MannualCollectEnd)

\* A capture meets a packet at which it ends.
CapturesEnd == SF_vars(CaptureEnd)

CommandsEndSpec == Spec /\ Fairness /\ CommandsEnd
FairSpec        == CommandsEndSpec /\ CapturesEnd

-----------------------------------------------------------------------------
(* Properties. *)

TypeOK ==
  /\ main \in {"dial", "start", "reset", "dead"}
  /\ next \in 1 .. Len(Goroutines) + 1
  /\ wg \in Nat
  /\ Conn \in {"nil", "open", "closed"}
  /\ Valid \in BOOLEAN
  /\ SendLock \in Names \cup {NoOne}
  /\ ReadBuf \in {"empty", "partial"}
  /\ Switch \in [Switched -> {"ON", "OFF", ""}]
  /\ pc \in [Names -> Stations]

Running == {g \in Names : pc[g] # "off"}

\* No goroutine outlives its session: whenever one is running, its connection
\* is the one StartAgent dialled and is open.  So none uses a nil or closed
\* Conn, or writes to the next connection, and ResetAgent is alone with the
\* fields it overwrites.
SessionIsolation == Running # {} => main = "start" /\ Conn = "open"

\* Every dial starts from what NewAgent made: Valid, no bytes of the previous
\* stream in ReadBuf, SendLock free, the switches off.
FreshSession == main = "dial" => Fresh

\* Once Valid is false it stays false until ResetAgent, at which time every
\* goroutine has returned: no late success of another goroutine revives a
\* session that some have left.
InvalidIsFinal == [][~ Valid /\ Valid' => main = "reset" /\ Running = {}]_vars

\* A goroutine of the current session that has returned left Valid false.
QuitInvalid ==
  main = "start" => \A i \in 1 .. next - 1 : pc[Goroutines[i]] = "off" => ~ Valid

\* The inductive invariant behind the properties above.
AgentInv ==
  /\ wg = Cardinality(Running)
  /\ SessionIsolation
  /\ FreshSession
  /\ main = "start" => Conn = "open"
  /\ \A i \in next .. Len(Goroutines) : main = "start" => pc[Goroutines[i]] = "off"
  /\ \A g \in Names : SendLock = g <=> pc[g] = "write"
  /\ QuitInvalid

\* A session that one goroutine has given up is taken down and the server is
\* dialled again (or a panic ends the process): the other five notice.  With
\* QuitInvalid, no session goes on without its Heartbeat or its Listen.
Reconnects == main = "start" /\ ~ Valid ~> main \in {"dial", "dead"}
=============================================================================
