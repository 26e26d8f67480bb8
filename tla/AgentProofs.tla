---------------------------- MODULE AgentProofs -----------------------------
(* Proofs about Agent, for any list of the six goroutines in any order.     *)
EXTENDS Agent, FiniteSetTheorems, TLAPS

\* The list names goroutines.
LEMMA ListProps ==
  /\ Len(Goroutines) \in Nat
  /\ \A i \in 1 .. Len(Goroutines) : Goroutines[i] \in Names
BY GoroutinesAssumption

LEMMA ListIndex ==
  ASSUME TypeOK
  PROVE  /\ \A i \in next .. Len(Goroutines) : Goroutines[i] \in Names
         /\ \A i \in 1 .. next - 1 : Goroutines[i] \in Names
<1>1. next \in 1 .. Len(Goroutines) + 1
  BY DEF TypeOK
<1> QED BY <1>1, ListProps

\* The set of names is finite, so the running goroutines can be counted.
LEMMA RunningFinite ==
  /\ IsFiniteSet(Names)
  /\ IsFiniteSet(Running) /\ Cardinality(Running) \in Nat
  /\ IsFiniteSet(Running') /\ Cardinality(Running') \in Nat
<1>1. IsFiniteSet({})
  BY FS_EmptySet
<1>2. IsFiniteSet({"Heartbeat"})
  BY FS_Singleton
<1>3. \A S, x : IsFiniteSet(S) => IsFiniteSet(S \cup {x})
  BY FS_AddElement
<1>4. IsFiniteSet((((({"Heartbeat"} \cup {"Listen"}) \cup {"DataCollect"}) \cup {"PingDetct"})
                      \cup {"TcpDetct"}) \cup {"PcapDump"})
  BY <1>2, <1>3
<1>5. Names = (((({"Heartbeat"} \cup {"Listen"}) \cup {"DataCollect"}) \cup {"PingDetct"})
                 \cup {"TcpDetct"}) \cup {"PcapDump"}
  BY DEF Names, Switched, Detectors
<1>6. IsFiniteSet(Names)
  BY <1>4, <1>5
<1>7. Running \subseteq Names /\ Running' \subseteq Names
  BY DEF Running
<1> QED BY <1>6, <1>7, FS_Subset, FS_CardinalityType

\* Nothing running: the count is zero, and the other way round.
LEMMA NothingRunning ==
  /\ Cardinality(Running) = 0 <=> Running = {}
  /\ Cardinality(Running') = 0 <=> Running' = {}
BY RunningFinite, FS_EmptySet

\* The initial state.
LEMMA InvInit == Init => TypeOK /\ AgentInv
<1> SUFFICES ASSUME Init PROVE TypeOK /\ AgentInv
  OBVIOUS
<1>1. TypeOK
  BY ListProps DEF Init, Fresh, TypeOK, Stations
<1>2. Running = {}
  BY DEF Init, Running
<1>3. wg = Cardinality(Running)
  BY <1>2, NothingRunning DEF Init
<1>4. SessionIsolation /\ FreshSession /\ QuitInvalid
  BY <1>2 DEF Init, SessionIsolation, FreshSession, QuitInvalid
<1>5. \A g \in Names : SendLock = g <=> pc[g] = "write"
  BY NoOneAssumption DEF Init, Fresh
<1> QED BY <1>1, <1>3, <1>4, <1>5 DEF AgentInv, Init

\* A step of one running goroutine: it moves or returns, it may clear Valid
\* and does so before it returns, and the lock follows its station.
LEMMA GoroutineStep ==
  ASSUME TypeOK, AgentInv, UNCHANGED session,
         NEW g \in Names, pc[g] # "off",
         NEW st \in Stations, pc' = [pc EXCEPT ![g] = st],
         wg' = IF st = "off" THEN wg - 1 ELSE wg,
         Valid' \in BOOLEAN, Valid' => Valid, st = "off" => ~ Valid',
         SendLock' \in Names \cup {NoOne},
         \A h \in Names : SendLock' = h <=> pc'[h] = "write",
         ReadBuf' \in {"empty", "partial"},
         Switch' \in [Switched -> {"ON", "OFF", ""}]
  PROVE  TypeOK' /\ AgentInv'
<1>1. pc \in [Names -> Stations] /\ pc' \in [Names -> Stations]
  BY DEF TypeOK, Stations
<1>2. g \in Running
  BY DEF Running
<1>3. main = "start" /\ Conn = "open"
  BY <1>2 DEF AgentInv, SessionIsolation
<1>4. main' = "start" /\ Conn' = "open" /\ next' = next
  BY <1>3 DEF session
<1>5. wg' = Cardinality(Running') /\ wg' \in Nat
  <2>1. CASE st = "off"
    <3>1. Running' = Running \ {g}
      BY <1>1, <2>1 DEF Running
    <3>2. Cardinality(Running') = Cardinality(Running) - 1
      BY <1>2, <3>1, RunningFinite, FS_RemoveElement
    <3> QED BY <2>1, <3>2, RunningFinite DEF AgentInv
  <2>2. CASE st # "off"
    <3>1. Running' = Running
      BY <1>1, <2>2 DEF Running
    <3> QED BY <2>2, <3>1, RunningFinite DEF AgentInv
  <2> QED BY <2>1, <2>2
<1>6. TypeOK'
  BY <1>1, <1>4, <1>5 DEF TypeOK, Stations
<1>7. SessionIsolation' /\ FreshSession'
  BY <1>4 DEF SessionIsolation, FreshSession
<1>8. \A i \in next .. Len(Goroutines) : pc'[Goroutines[i]] = "off"
  <2> SUFFICES ASSUME NEW i \in next .. Len(Goroutines) PROVE pc'[Goroutines[i]] = "off"
    OBVIOUS
  <2>1. pc[Goroutines[i]] = "off"
    BY <1>3 DEF AgentInv
  <2>2. Goroutines[i] \in Names
    BY ListIndex
  <2> QED BY <1>1, <2>1, <2>2
<1>9. \A i \in 1 .. next - 1 : pc'[Goroutines[i]] = "off" => ~ Valid'
  <2> SUFFICES ASSUME NEW i \in 1 .. next - 1, pc'[Goroutines[i]] = "off" PROVE ~ Valid'
    OBVIOUS
  <2>1. Goroutines[i] \in Names
    BY ListIndex
  <2>2. CASE Goroutines[i] = g
    BY <1>1, <2>1, <2>2
  <2>3. CASE Goroutines[i] # g
    BY <1>1, <1>3, <2>1, <2>3 DEF AgentInv, QuitInvalid
  <2> QED BY <2>2, <2>3
<1>10. QuitInvalid'
  BY <1>4, <1>9 DEF QuitInvalid
<1> QED BY <1>4, <1>5, <1>6, <1>7, <1>8, <1>10 DEF AgentInv

\* Moving without touching anything else.
LEMMA MoveKeeps ==
  ASSUME TypeOK, AgentInv, NEW g \in Names, NEW from \in Stations, NEW to \in Stations,
         from \notin {"off", "write"}, to \notin {"off", "write"},
         Move(g, from, to)
  PROVE  TypeOK' /\ AgentInv'
<1>1. pc' = [pc EXCEPT ![g] = to] /\ wg' = wg /\ UNCHANGED session
  BY DEF Move, Goto
<1>2. SendLock' = SendLock /\ Valid' = Valid /\ ReadBuf' = ReadBuf /\ Switch' = Switch
  BY DEF Move
<1>3. pc \in [Names -> Stations] /\ pc[g] = from
  BY DEF TypeOK, Stations, Move
<1>4. \A h \in Names : SendLock' = h <=> pc'[h] = "write"
  BY <1>1, <1>2, <1>3 DEF AgentInv
<1>5. /\ Valid' \in BOOLEAN /\ SendLock' \in Names \cup {NoOne}
      /\ ReadBuf' \in {"empty", "partial"} /\ Switch' \in [Switched -> {"ON", "OFF", ""}]
  BY <1>2 DEF TypeOK
<1> QED BY <1>1, <1>2, <1>3, <1>4, <1>5, GoroutineStep

\* The steps every goroutine may take.
LEMMA CommonStep ==
  ASSUME TypeOK, AgentInv, NEW g \in Names, Goroutine(g)
  PROVE  TypeOK' /\ AgentInv'
<1>1. pc \in [Names -> Stations]
  BY DEF TypeOK, Stations
<1>2. /\ Valid \in BOOLEAN /\ SendLock \in Names \cup {NoOne}
      /\ ReadBuf \in {"empty", "partial"} /\ Switch \in [Switched -> {"ON", "OFF", ""}]
  BY DEF TypeOK
<1>3. \A h \in Names : SendLock = h <=> pc[h] = "write"
  BY DEF AgentInv
<1>4. CASE Quit(g)
  <2>1. /\ pc' = [pc EXCEPT ![g] = "off"] /\ wg' = wg - 1 /\ pc[g] \in {"top", "check"}
        /\ UNCHANGED <<session, Valid, SendLock, ReadBuf, Switch>> /\ ~ Valid
    BY <1>4 DEF Quit, Return
  <2>2. \A h \in Names : SendLock' = h <=> pc'[h] = "write"
    BY <1>1, <1>3, <2>1
  <2>3. "off" \in Stations
    BY DEF Stations
  <2> QED BY <1>2, <2>1, <2>2, <2>3, GoroutineStep
<1>5. CASE SendMsgLock(g)
  <2>1. /\ pc' = [pc EXCEPT ![g] = "write"] /\ wg' = wg /\ pc[g] = "lock"
        /\ UNCHANGED <<session, Valid, ReadBuf, Switch>>
        /\ SendLock = NoOne /\ SendLock' = g
    BY <1>5 DEF SendMsgLock, Goto
  <2>2. \A h \in Names : SendLock' = h <=> pc'[h] = "write"
    BY <1>1, <1>3, <2>1, NoOneAssumption
  <2>3. "write" \in Stations
    BY DEF Stations
  <2> QED BY <1>2, <2>1, <2>2, <2>3, GoroutineStep
<1>6. CASE SendMsgWrite(g)
  <2>1. /\ pc' = [pc EXCEPT ![g] = AfterSend(g)] /\ wg' = wg /\ pc[g] = "write"
        /\ UNCHANGED <<session, ReadBuf, Switch>> /\ SendLock' = NoOne
        /\ Valid' \in {Valid, FALSE}
    BY <1>6 DEF SendMsgWrite, Goto
  <2>2. AfterSend(g) \in {"check", "top"}
    BY DEF AfterSend
  <2>3. \A h \in Names : SendLock' = h <=> pc'[h] = "write"
    BY <1>1, <1>3, <2>1, <2>2, NoOneAssumption
  <2>4. AfterSend(g) \in Stations /\ AfterSend(g) # "off"
    BY <2>2 DEF Stations
  <2>5. Valid' \in BOOLEAN /\ (Valid' => Valid)
    <3>1. CASE Valid' = Valid
      BY <1>2, <3>1
    <3>2. CASE Valid' = FALSE
      BY <3>2
    <3> QED BY <2>1, <3>1, <3>2
  <2> QED BY <1>2, <2>1, <2>3, <2>4, <2>5, GoroutineStep
<1>7. CASE CheckValid(g)
  BY <1>7, MoveKeeps DEF CheckValid, Stations
<1> QED BY <1>4, <1>5, <1>6, <1>7 DEF Goroutine

\* The steps of Listen.
LEMMA ListenStep ==
  ASSUME TypeOK, AgentInv, Listen
  PROVE  TypeOK' /\ AgentInv'
<1> "Listen" \in Names
  BY DEF Names
<1>1. pc \in [Names -> Stations]
  BY DEF TypeOK, Stations
<1>2. /\ Valid \in BOOLEAN /\ SendLock \in Names \cup {NoOne}
      /\ ReadBuf \in {"empty", "partial"} /\ Switch \in [Switched -> {"ON", "OFF", ""}]
  BY DEF TypeOK
<1>3. \A h \in Names : SendLock = h <=> pc[h] = "write"
  BY DEF AgentInv
<1>4. {"off", "get", "handle"} \subseteq Stations
  BY DEF Stations
<1>5. CASE GetMsgError
  <2>1. /\ pc' = [pc EXCEPT !["Listen"] = "off"] /\ wg' = wg - 1 /\ pc["Listen"] = "get"
        /\ UNCHANGED <<session, SendLock, ReadBuf, Switch>> /\ Valid' = FALSE
    BY <1>5 DEF GetMsgError, Return
  <2>2. \A h \in Names : SendLock' = h <=> pc'[h] = "write"
    BY <1>1, <1>3, <2>1
  <2> QED BY <1>2, <1>4, <2>1, <2>2, GoroutineStep
<1>6. CASE GetMsgPart
  <2>1. PICK st \in {"off", "get"} :
          /\ pc' = [pc EXCEPT !["Listen"] = st] /\ wg' = IF st = "off" THEN wg - 1 ELSE wg
          /\ st = "off" => ~ Valid
    BY <1>6 DEF GetMsgPart, Goto, Return
  <2>2. /\ pc["Listen"] = "get" /\ UNCHANGED <<session, Valid, SendLock, Switch>>
        /\ ReadBuf' = "partial"
    BY <1>6 DEF GetMsgPart
  <2>3. \A h \in Names : SendLock' = h <=> pc'[h] = "write"
    BY <1>1, <1>3, <2>1, <2>2
  <2> QED BY <1>2, <1>4, <2>1, <2>2, <2>3, GoroutineStep
<1>7. ASSUME NEW buf \in {"empty", "partial"}, GetMsgReturn(buf)
      PROVE  TypeOK' /\ AgentInv'
  <2>1. /\ pc' = [pc EXCEPT !["Listen"] = "handle"] /\ wg' = wg /\ pc["Listen"] = "get"
        /\ UNCHANGED <<session, Valid, SendLock, Switch>> /\ ReadBuf' = buf
    BY <1>7 DEF GetMsgReturn, Goto
  <2>2. \A h \in Names : SendLock' = h <=> pc'[h] = "write"
    BY <1>1, <1>3, <2>1
  <2> QED BY <1>2, <1>4, <2>1, <2>2, GoroutineStep
<1>8. CASE ListenTop \/ ExecError \/ ExecResult
  BY <1>8, MoveKeeps DEF ListenTop, ExecError, ExecResult, Stations
<1>9. CASE \E st \in {"top", "exec"} : HandleMsg(st)
  BY <1>9, MoveKeeps DEF HandleMsg, Stations
<1> QED BY <1>5, <1>6, <1>7, <1>8, <1>9 DEF Listen

\* The steps of the detectors, the capture, the heartbeat and the collection
\* that are theirs alone.
LEMMA OwnStep ==
  ASSUME TypeOK, AgentInv,
         \/ HeartbeatTop \/ DataCollectTop \/ MannualCollectEnd
         \/ \E g \in Switched, value \in {"ON", "OFF", ""} : ReadSwitch(g, value)
         \/ \E g \in Detectors : ProbeEnd(g)
         \/ CaptureStart \/ CapturePacket \/ CaptureSend \/ CaptureEnd
  PROVE  TypeOK' /\ AgentInv'
<1>1. CASE HeartbeatTop \/ DataCollectTop \/ MannualCollectEnd
  BY <1>1, MoveKeeps DEF HeartbeatTop, DataCollectTop, MannualCollectEnd, Stations, Names
<1>2. CASE CaptureStart \/ CapturePacket \/ CaptureSend \/ CaptureEnd
  <2>1. "PcapDump" \in Names
    BY DEF Names, Switched
  <2>2. {"open", "capture", "packet", "top"} \subseteq Stations
    BY DEF Stations
  <2> QED BY <1>2, <2>1, <2>2, MoveKeeps
       DEF CaptureStart, CapturePacket, CaptureSend, CaptureEnd
<1>3. CASE \E g \in Detectors : ProbeEnd(g)
  BY <1>3, MoveKeeps DEF ProbeEnd, Stations, Names, Switched
<1>4. ASSUME NEW g \in Switched, NEW value \in {"ON", "OFF", ""}, ReadSwitch(g, value)
      PROVE  TypeOK' /\ AgentInv'
  <2>1. PICK st \in {"top", "probe", "open"} : pc' = [pc EXCEPT ![g] = st]
    BY <1>4 DEF ReadSwitch, Goto, Busy
  <2>2. /\ wg' = wg /\ pc[g] = "top" /\ UNCHANGED <<session, Valid, SendLock, ReadBuf>>
        /\ Switch' = [Switch EXCEPT ![g] = value]
    BY <1>4 DEF ReadSwitch, Goto
  <2>3. pc \in [Names -> Stations] /\ g \in Names /\ st \in Stations
    BY DEF TypeOK, Stations, Names
  <2>4. \A h \in Names : SendLock' = h <=> pc'[h] = "write"
    BY <2>1, <2>2, <2>3 DEF AgentInv
  <2>5. /\ Valid' \in BOOLEAN /\ SendLock' \in Names \cup {NoOne}
        /\ ReadBuf' \in {"empty", "partial"} /\ Switch' \in [Switched -> {"ON", "OFF", ""}]
    BY <2>2 DEF TypeOK
  <2> QED BY <2>1, <2>2, <2>3, <2>4, <2>5, GoroutineStep
<1> QED BY <1>1, <1>2, <1>3, <1>4

\* Dialling, waiting and resetting, while no goroutine is running, and dying,
\* after which none is.
LEMMA QuietStep ==
  ASSUME TypeOK, AgentInv,
         Dial \/ DialFail \/ Wait \/ ResetAgent \/ Panic
  PROVE  TypeOK' /\ AgentInv'
<1>1. pc' = [g \in Names |-> "off"] /\ wg' = 0
  <2>1. CASE Dial \/ DialFail \/ Wait \/ ResetAgent
    <3>1. pc' = pc /\ wg' = wg
      BY <2>1, NothingRunning DEF Dial, DialFail, Wait, ResetAgent, AgentInv, SessionIsolation
    <3>2. Running = {}
      BY <2>1, NothingRunning
         DEF Dial, DialFail, Wait, ResetAgent, AgentInv, SessionIsolation
    <3>3. pc \in [Names -> Stations] /\ \A g \in Names : pc[g] = "off"
      BY <3>2 DEF Running, TypeOK, Stations
    <3>4. wg = 0
      BY <3>2, NothingRunning DEF AgentInv
    <3> QED BY <3>1, <3>3, <3>4
  <2>2. CASE Panic
    BY <2>2 DEF Panic
  <2> QED BY <2>1, <2>2
<1>2. Running' = {}
  BY <1>1 DEF Running
<1>3. SendLock = NoOne \/ SendLock' = NoOne
  <2>1. CASE Panic
    BY <2>1 DEF Panic
  <2>2. CASE ~ Panic
    <3>1. pc' = pc
      BY <2>2 DEF Dial, DialFail, Wait, ResetAgent
    <3>2. \A g \in Names : SendLock # g
      BY <1>1, <3>1 DEF AgentInv
    <3> QED BY <3>2 DEF TypeOK
  <2> QED BY <2>1, <2>2
<1>4. SendLock' = NoOne
  BY <1>3 DEF Dial, DialFail, Wait, ResetAgent, Panic
<1>5. next' \in 1 .. Len(Goroutines) + 1
  <2>1. next \in 1 .. Len(Goroutines) + 1
    BY DEF TypeOK
  <2> QED BY <2>1, ListProps DEF Dial, DialFail, Wait, ResetAgent, Panic
<1>6. /\ main' \in {"dial", "start", "reset", "dead"} /\ Conn' \in {"nil", "open", "closed"}
      /\ Valid' \in BOOLEAN /\ ReadBuf' \in {"empty", "partial"}
      /\ Switch' \in [Switched -> {"ON", "OFF", ""}]
  BY DEF Dial, DialFail, Wait, ResetAgent, Panic, TypeOK
<1>7. TypeOK'
  BY <1>1, <1>4, <1>5, <1>6 DEF TypeOK, Stations
<1>8. wg' = Cardinality(Running')
  BY <1>1, <1>2, NothingRunning
<1>9. SessionIsolation'
  BY <1>2 DEF SessionIsolation
<1>10. FreshSession'
  BY DEF Dial, DialFail, Wait, ResetAgent, Panic, FreshSession, Fresh
<1>11. main' = "start" => Conn' = "open" /\ next' = 1
  BY DEF Dial, DialFail, Wait, ResetAgent, Panic
<1>12. QuitInvalid'
  BY <1>11 DEF QuitInvalid
<1>13. \A i \in next' .. Len(Goroutines) : main' = "start" => pc'[Goroutines[i]] = "off"
  BY <1>1, <1>11, ListProps
<1>14. \A g \in Names : SendLock' = g <=> pc'[g] = "write"
  BY <1>1, <1>4, NoOneAssumption
<1> QED BY <1>7, <1>8, <1>9, <1>10, <1>11, <1>12, <1>13, <1>14 DEF AgentInv

\* StartAgent starts the next goroutine, which is not one that runs already.
LEMMA StartStep ==
  ASSUME TypeOK, AgentInv, StartGoroutine
  PROVE  TypeOK' /\ AgentInv'
<1>1. PICK L \in Nat : L = Len(Goroutines)
  BY ListProps
<1>2. next \in Nat /\ next >= 1 /\ next <= L
  <2>1. next \in 1 .. Len(Goroutines) + 1
    BY DEF TypeOK
  <2>2. next <= Len(Goroutines)
    BY DEF StartGoroutine
  <2> QED BY <1>1, <2>1, <2>2
<1>3. PICK g \in Names : g = Goroutines[next]
  BY <1>1, <1>2, ListProps
<1>4. /\ main = "start" /\ wg' = wg + 1 /\ pc' = [pc EXCEPT ![g] = "top"]
      /\ next' = next + 1 /\ UNCHANGED <<main, Conn, Valid, SendLock, ReadBuf, Switch>>
  BY <1>3 DEF StartGoroutine
<1>5. pc \in [Names -> Stations]
  BY DEF TypeOK, Stations
<1>6. \A i \in 1 .. L : Goroutines[i] \in Names /\ (Goroutines[i] = g => i = next)
  BY <1>1, <1>2, <1>3, ListProps, GoroutinesAssumption
<1>7. \A i \in next .. L : pc[Goroutines[i]] = "off"
  BY <1>1, <1>4 DEF AgentInv
<1>8. pc[g] = "off"
  BY <1>2, <1>3, <1>7
<1>9. wg' = Cardinality(Running') /\ wg' \in Nat
  <2>1. Running' = Running \cup {g} /\ g \notin Running
    BY <1>4, <1>5, <1>8 DEF Running
  <2>2. Cardinality(Running') = Cardinality(Running) + 1
    BY <2>1, RunningFinite, FS_AddElement
  <2> QED BY <1>4, <2>2, RunningFinite DEF AgentInv
<1>10. next' \in 1 .. Len(Goroutines) + 1
  BY <1>1, <1>2, <1>4
<1>11. pc' \in [Names -> Stations]
  BY <1>4, <1>5 DEF Stations
<1>12. TypeOK'
  BY <1>4, <1>9, <1>10, <1>11 DEF TypeOK, Stations
<1>13. Conn = "open"
  BY <1>4 DEF AgentInv
<1>14. SessionIsolation' /\ FreshSession'
  BY <1>4, <1>13 DEF SessionIsolation, FreshSession
<1>15. \A i \in next' .. Len(Goroutines) : main' = "start" => pc'[Goroutines[i]] = "off"
  <2> SUFFICES ASSUME NEW i \in next' .. Len(Goroutines) PROVE pc'[Goroutines[i]] = "off"
    OBVIOUS
  <2>1. i \in next .. L /\ i \in 1 .. L /\ i # next
    BY <1>1, <1>2, <1>4
  <2> QED BY <1>4, <1>5, <1>6, <1>7, <2>1
<1>16. \A h \in Names : SendLock' = h <=> pc'[h] = "write"
  BY <1>4, <1>5, <1>8 DEF AgentInv
<1>17. \A i \in 1 .. next' - 1 : pc'[Goroutines[i]] = "off" => ~ Valid'
  <2> SUFFICES ASSUME NEW i \in 1 .. next' - 1, pc'[Goroutines[i]] = "off" PROVE ~ Valid'
    OBVIOUS
  <2>1. i \in 1 .. L /\ (i # next => i \in 1 .. next - 1)
    BY <1>2, <1>4
  <2>2. Goroutines[i] # g
    BY <1>4, <1>5
  <2>3. i \in 1 .. next - 1
    BY <1>3, <2>1, <2>2
  <2>4. pc[Goroutines[i]] = "off"
    BY <1>4, <1>5, <1>6, <2>1, <2>2
  <2> QED BY <1>4, <2>3, <2>4 DEF AgentInv, QuitInvalid
<1>18. QuitInvalid'
  BY <1>17 DEF QuitInvalid
<1> QED BY <1>4, <1>9, <1>12, <1>13, <1>14, <1>15, <1>16, <1>18 DEF AgentInv

\* Every step keeps the invariant.
LEMMA InvNext == TypeOK /\ AgentInv /\ [Next]_vars => TypeOK' /\ AgentInv'
<1> SUFFICES ASSUME TypeOK, AgentInv, [Next]_vars PROVE TypeOK' /\ AgentInv'
  OBVIOUS
<1>1. CASE RunAgent
  BY <1>1, StartStep, QuietStep DEF RunAgent
<1>2. CASE \E g \in Names : Goroutine(g)
  BY <1>2, CommonStep
<1>3. CASE Listen
  BY <1>3, ListenStep
<1>4. CASE Panic
  BY <1>4, QuietStep
<1>5. CASE UNCHANGED vars
  <2>1. TypeOK'
    BY <1>5 DEF TypeOK, vars
  <2>2. Running' = Running
    BY <1>5 DEF Running, vars
  <2> QED BY <1>5, <2>1, <2>2
       DEF vars, AgentInv, SessionIsolation, FreshSession, Fresh, QuitInvalid
<1> QED BY <1>1, <1>2, <1>3, <1>4, <1>5, OwnStep DEF Next

\* The types and the inductive invariant hold in every reachable state of the
\* agent, whatever the list of goroutines.
THEOREM AgentInvariant == Spec => [](TypeOK /\ AgentInv)
BY InvInit, InvNext, PTL DEF Spec

\* The agent's fields, its connection and its goroutines keep their types.
THEOREM AgentTypes == Spec => []TypeOK
<1> QED BY AgentInvariant, PTL

\* No goroutine outlives its session: StartAgent closes the connection and
\* ResetAgent overwrites the fields only when all have returned.
THEOREM SessionsIsolated == Spec => []SessionIsolation
<1>1. AgentInv => SessionIsolation
  BY DEF AgentInv
<1> QED BY <1>1, AgentInvariant, PTL

\* Every dial, after any history of failures, starts from a fresh Agent.
THEOREM SessionsFresh == Spec => []FreshSession
<1>1. AgentInv => FreshSession
  BY DEF AgentInv
<1> QED BY <1>1, AgentInvariant, PTL

\* Valid becomes true again only in ResetAgent, with no goroutine running.
THEOREM InvalidStays == Spec => InvalidIsFinal
<1>1. TypeOK /\ AgentInv /\ [Next]_vars
        => [~ Valid /\ Valid' => main = "reset" /\ Running = {}]_vars
  <2> SUFFICES ASSUME TypeOK, AgentInv, Next, ~ Valid, Valid'
               PROVE  main = "reset" /\ Running = {}
    BY DEF vars
  <2>1. Valid' # Valid
    OBVIOUS
  <2>2. ~ \E g \in Names : Goroutine(g)
    BY <2>1 DEF Goroutine, Quit, SendMsgLock, SendMsgWrite, CheckValid, Move
  <2>3. ~ Listen
    BY <2>1 DEF Listen, ListenTop, GetMsgError, GetMsgPart, GetMsgReturn, HandleMsg,
                ExecError, ExecResult, Move
  <2>4. ResetAgent
    BY <2>1, <2>2, <2>3
       DEF Next, RunAgent, Dial, DialFail, StartGoroutine, Wait, HeartbeatTop,
           DataCollectTop, MannualCollectEnd, ReadSwitch, ProbeEnd, CaptureStart,
           CapturePacket, CaptureSend, CaptureEnd, Panic, Move
  <2> QED BY <2>4 DEF ResetAgent, AgentInv, SessionIsolation
<1> QED BY <1>1, AgentInvariant, PTL DEF Spec, InvalidIsFinal
=============================================================================
