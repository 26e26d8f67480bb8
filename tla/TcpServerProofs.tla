-------------------------- MODULE TcpServerProofs ---------------------------
(* Proofs about TcpServer, for any connections, ids, workers and callers.   *)
EXTENDS TcpServer, FiniteSetTheorems, TLAPS

\* A count of occurrences is a number.
LEMMA OccurrencesNat ==
  ASSUME NEW id, NEW iplist \in Seq(Ids)
  PROVE  Occurrences(id, iplist) \in Nat
<1> DEFINE S == {i \in 1 .. Len(iplist) : iplist[i] = id}
<1>1. Len(iplist) \in Nat
  OBVIOUS
<1>2. IsFiniteSet(1 .. Len(iplist))
  BY <1>1, FS_Interval
<1>3. S \subseteq 1 .. Len(iplist)
  OBVIOUS
<1>4. IsFiniteSet(S)
  BY <1>2, <1>3, FS_Subset
<1>5. Cardinality(S) \in Nat
  BY <1>4, FS_CardinalityType
<1> QED BY <1>5 DEF Occurrences

LEMMA NoCallType ==
  NoCall \in [at : {"idle", "wait", "range", "write"},
              iplist : Seq(Ids), cur : Conns \cup {NoConn}, left : Nat,
              todo : SUBSET Conns, got : [Conns -> Nat]]
BY DEF NoCall

\* The initial state.
LEMMA InvInit == Init => TypeOK /\ ServerInv
<1> SUFFICES ASSUME Init PROVE TypeOK /\ ServerInv
  OBVIOUS
<1>1. TypeOK
  BY NoCallType DEF Init, TypeOK, Idle
<1>2. \A k \in Callers : call[k].at = "idle"
  BY DEF Init, NoCall
<1>3. \A w \in Workers : work[w].at = "idle"
  BY DEF Init, Idle
<1>4. RegistryMatchesHandlers /\ IdInv
  BY IdAssumption DEF Init, RegistryMatchesHandlers, IdInv, Served
<1>5. ClientLockInv
  BY <1>2, ThreadAssumption DEF Init, ClientLockInv, Sending
<1>6. SendLockInv /\ CallInv
  BY <1>2, <1>3 DEF SendLockInv, CallInv, Sending
<1> QED BY <1>1, <1>4, <1>5, <1>6 DEF ServerInv

\* A call that does not move is not disturbed while the same connections are
\* registered.
LEMMA CallKept ==
  ASSUME TypeOK, NEW k \in Callers, call'[k] = call[k],
         \A d \in Conns : pc'[d] \in Served <=> pc[d] \in Served
  PROVE  /\ Sending(k)' <=> Sending(k)
         /\ RangeOK(k)' <=> RangeOK(k)
         /\ WaitOK(k)' <=> WaitOK(k)
<1>1. \A d \in Conns : GotSoFar(k, d)' = GotSoFar(k, d)
  BY DEF GotSoFar
<1>2. call[k].todo \subseteq Conns /\ call[k].cur \in Conns \cup {NoConn}
  BY DEF TypeOK
<1>3. RangeOK(k)' <=> RangeOK(k)
  BY <1>1, <1>2 DEF RangeOK
<1> QED BY <1>3 DEF Sending, WaitOK

LEMMA CallsKept ==
  ASSUME TypeOK, CallInv, call' = call,
         \A d \in Conns : pc'[d] \in Served <=> pc[d] \in Served
  PROVE  CallInv'
BY CallKept DEF CallInv

\* The steps of HandleConn that move a connection between stations without
\* registering or removing it, and leave everything but pc and Valid alone.
LEMMA MoveStep ==
  ASSUME TypeOK, ServerInv, NEW c \in Conns, NEW station,
         Goto(c, station), station \in {"none", "accepted", "removed", "closed"} \cup Served,
         pc[c] \in Served <=> station \in Served,
         Valid' \in [Conns -> BOOLEAN], beat' = beat,
         UNCHANGED <<ClientLock, Clients, SendLock, work, call>>
  PROVE  TypeOK' /\ ServerInv'
<1>1. /\ ClientLock' = ClientLock /\ Clients' = Clients /\ SendLock' = SendLock
      /\ work' = work /\ call' = call /\ beat' = beat
  OBVIOUS
<1>2. pc' \in [Conns -> {"none", "accepted", "removed", "closed"} \cup Served]
  BY DEF Goto, TypeOK
<1>3. \A d \in Conns : pc'[d] \in Served <=> pc[d] \in Served
  BY DEF Goto, TypeOK
<1>4. TypeOK'
  BY <1>1, <1>2 DEF TypeOK
<1>5. RegistryMatchesHandlers' /\ IdInv'
  BY <1>1, <1>3 DEF RegistryMatchesHandlers, IdInv, ServerInv
<1>6. ClientLockInv' /\ SendLockInv'
  BY <1>1 DEF ServerInv, ClientLockInv, SendLockInv, Sending
<1>7. CallInv'
  BY <1>1, <1>3, CallsKept DEF ServerInv
<1> QED BY <1>4, <1>5, <1>6, <1>7 DEF ServerInv

\* RegisterConn and RemoveClient: they change the map, but only while no
\* Multicast is sending.
LEMMA MapStep ==
  ASSUME TypeOK, ServerInv, NEW c \in Conns, RegisterConn(c) \/ RemoveClient(c)
  PROVE  TypeOK' /\ ServerInv'
<1>1. /\ ClientLock = NoOne /\ ClientLock' = NoOne /\ SendLock' = SendLock
      /\ work' = work /\ call' = call /\ beat' = beat /\ Valid' = Valid
  BY DEF RegisterConn, RemoveClient
<1>2. pc' \in [Conns -> {"none", "accepted", "removed", "closed"} \cup Served]
  BY DEF RegisterConn, RemoveClient, Goto, TypeOK, Served
<1>3. Clients' \in [Ids -> Conns \cup {NoConn}]
  BY DEF RegisterConn, RemoveClient, TypeOK
<1>4. TypeOK'
  BY <1>1, <1>2, <1>3 DEF TypeOK
<1>5. RegistryMatchesHandlers' /\ IdInv'
  <2>1. RegistryMatchesHandlers /\ IdInv
    BY DEF ServerInv
  <2>2. CASE RegisterConn(c)
    <3>1. /\ IdOf[c] \in Ids /\ Clients[IdOf[c]] = NoConn
          /\ Clients' = [Clients EXCEPT ![IdOf[c]] = c]
          /\ pc' = [pc EXCEPT ![c] = "judge"] /\ pc[c] = "accepted"
      BY <2>2, IdAssumption DEF RegisterConn, Goto
    <3> QED BY <2>1, <3>1, IdAssumption DEF RegistryMatchesHandlers, IdInv, TypeOK, Served
  <2>3. CASE RemoveClient(c)
    <3>1. /\ Clients' = [Clients EXCEPT ![IdOf[c]] = NoConn]
          /\ pc' = [pc EXCEPT ![c] = "removed"] /\ pc[c] = "remove"
      BY <2>3 DEF RemoveClient, Goto
    <3>2. \A d \in Conns : d # c /\ IdOf[d] = IdOf[c] /\ IdOf[d] \in Ids => pc[d] \notin Served
      BY <2>1, <3>1 DEF RegistryMatchesHandlers, Served
    <3> QED BY <2>1, <3>1, <3>2, IdAssumption DEF RegistryMatchesHandlers, IdInv, TypeOK, Served
  <2> QED BY <2>2, <2>3
<1>6. \A k \in Callers : ~ Sending(k)
  BY <1>1, ThreadAssumption DEF ServerInv, ClientLockInv
<1>7. ClientLockInv' /\ SendLockInv'
  BY <1>1 DEF ServerInv, ClientLockInv, SendLockInv, Sending
<1>8. CallInv'
  BY <1>1, <1>6 DEF ServerInv, CallInv, Sending, WaitOK
<1> QED BY <1>4, <1>5, <1>7, <1>8 DEF ServerInv

\* HandleConn preserves the invariant.
LEMMA HandlerStep ==
  ASSUME TypeOK, ServerInv, NEW c \in Conns, Handler(c)
  PROVE  TypeOK' /\ ServerInv'
<1>1. CASE Accept(c)
  BY <1>1, MoveStep DEF Accept, Served, TypeOK
<1>2. CASE ConnIdError(c)
  BY <1>2, MoveStep DEF ConnIdError, Served, TypeOK
<1>3. CASE RefuseConn(c)
  BY <1>3, MoveStep DEF RefuseConn, Served, TypeOK
<1>4. CASE RegisterConn(c) \/ RemoveClient(c)
  BY <1>4, MapStep
<1>5. CASE JudgeValid(c)
  BY <1>5, MoveStep DEF JudgeValid, Served, TypeOK
<1>6. CASE JudgeInvalid(c) \/ ReadError(c)
  <2>1. /\ pc[c] \in Served /\ Goto(c, "remove") /\ Valid' \in [Conns -> BOOLEAN]
        /\ beat' = beat /\ UNCHANGED <<ClientLock, Clients, SendLock, work, call>>
    BY <1>6 DEF JudgeInvalid, ReadError, Fail, Served, TypeOK
  <2> QED BY <2>1, MoveStep DEF Served
<1>7. CASE ReadPart(c)
  BY <1>7, MoveStep DEF ReadPart, Served, TypeOK
<1>8. ASSUME NEW w \in Workers, NEW type \in MsgTypes, ReadMsg(c, w, type)
      PROVE  TypeOK' /\ ServerInv'
  <2>1. /\ ClientLock' = ClientLock /\ Clients' = Clients /\ SendLock' = SendLock
        /\ call' = call /\ beat' = beat /\ Valid' = Valid
        /\ work' = [work EXCEPT ![w] = [at |-> "start", conn |-> c, type |-> type]]
        /\ pc' = [pc EXCEPT ![c] = "judge"] /\ pc[c] = "read"
    BY <1>8 DEF ReadMsg, Goto
  <2>2. TypeOK'
    BY <2>1 DEF TypeOK, Served
  <2>3. \A d \in Conns : pc'[d] \in Served <=> pc[d] \in Served
    BY <2>1 DEF TypeOK, Served
  <2>4. RegistryMatchesHandlers' /\ IdInv' /\ ClientLockInv'
    BY <2>1, <2>3 DEF ServerInv, RegistryMatchesHandlers, IdInv, ClientLockInv, Sending
  <2>5. SendLockInv'
    BY <2>1 DEF ServerInv, SendLockInv, TypeOK
  <2>6. CallInv'
    BY <2>1, <2>3, CallsKept DEF ServerInv
  <2> QED BY <2>2, <2>4, <2>5, <2>6 DEF ServerInv
<1>9. CASE CloseConn(c)
  BY <1>9, MoveStep DEF CloseConn, Served, TypeOK
<1> QED
  BY <1>1, <1>2, <1>3, <1>4, <1>5, <1>6, <1>7, <1>8, <1>9 DEF Handler

\* The parts of the invariant that only read the map, the stations and the
\* calls survive a step that changes none of these.
LEMMA CallsUndisturbed ==
  ASSUME TypeOK, ServerInv, UNCHANGED <<ClientLock, Clients, pc, call>>
  PROVE  RegistryMatchesHandlers' /\ IdInv' /\ ClientLockInv' /\ CallInv'
<1>1. ClientLock' = ClientLock /\ Clients' = Clients /\ pc' = pc /\ call' = call
  OBVIOUS
<1>2. RegistryMatchesHandlers' /\ IdInv' /\ ClientLockInv'
  BY <1>1 DEF ServerInv, RegistryMatchesHandlers, IdInv, ClientLockInv, Sending
<1> QED BY <1>1, <1>2, CallsKept DEF ServerInv

\* HandleMsg preserves the invariant.
LEMMA WorkerStep ==
  ASSUME TypeOK, ServerInv, NEW w \in Workers, Worker(w)
  PROVE  TypeOK' /\ ServerInv'
<1> DEFINE WorkType == [Workers -> [at : {"idle", "start", "lock", "write"},
                                    conn : Conns \cup {NoConn}, type : MsgTypes \cup {"none"}]]
<1>1. /\ work \in WorkType
      /\ SendLock \in [Conns -> Workers \cup Callers \cup {NoOne}]
      /\ SendLockInv /\ w # NoOne /\ \A k \in Callers : k # w
  BY ThreadAssumption DEF TypeOK, ServerInv
<1>2. CASE HeartBeatMsg(w)
  <2>1. /\ work' = [work EXCEPT ![w].at = "lock"] /\ work[w].at = "start"
        /\ beat' = [beat EXCEPT ![work[w].conn] = TRUE]
        /\ UNCHANGED <<ClientLock, Clients, pc, Valid, SendLock, call>>
    BY <1>2 DEF HeartBeatMsg
  <2>2. SendLockInv'
    BY <1>1, <2>1 DEF SendLockInv
  <2>3. work' \in WorkType /\ beat' \in [Conns -> BOOLEAN]
    <3>1. work' \in WorkType
      BY <1>1, <2>1
    <3>2. beat \in [Conns -> BOOLEAN]
      BY DEF TypeOK
    <3>3. beat' \in [Conns -> BOOLEAN]
      BY <2>1, <3>2
    <3> QED BY <3>1, <3>3
  <2>4. TypeOK'
    BY <2>1, <2>3 DEF TypeOK
  <2> QED BY <2>1, <2>2, <2>4, CallsUndisturbed DEF ServerInv
<1>3. CASE HeartBeatRspLock(w)
  <2>1. /\ work' = [work EXCEPT ![w].at = "write"] /\ work[w].at = "lock"
        /\ SendLock[work[w].conn] = NoOne
        /\ SendLock' = [SendLock EXCEPT ![work[w].conn] = w]
        /\ UNCHANGED <<ClientLock, Clients, pc, Valid, beat, call>>
    BY <1>3 DEF HeartBeatRspLock, SendMsgLock
  <2>2. SendLockInv'
    BY <1>1, <2>1, ThreadAssumption DEF SendLockInv
  <2>3. work' \in WorkType /\ SendLock' \in [Conns -> Workers \cup Callers \cup {NoOne}]
    BY <1>1, <2>1
  <2>4. TypeOK'
    BY <2>1, <2>3 DEF TypeOK
  <2> QED BY <2>1, <2>2, <2>4, CallsUndisturbed DEF ServerInv
<1>4. CASE HeartBeatRspWrite(w)
  <2>1. /\ work' = [work EXCEPT ![w] = Idle] /\ work[w].at = "write"
        /\ SendLock[work[w].conn] = w
        /\ SendLock' = [SendLock EXCEPT ![work[w].conn] = NoOne]
        /\ UNCHANGED <<ClientLock, Clients, pc, beat, call>>
    BY <1>4 DEF HeartBeatRspWrite, SendMsgWrite
  <2>2. Valid' \in [Conns -> BOOLEAN]
    BY <1>4 DEF HeartBeatRspWrite, SendMsgWrite, TypeOK
  <2>3. SendLockInv'
    BY <1>1, <2>1, ThreadAssumption DEF SendLockInv, Idle
  <2>4. TypeOK'
    BY <2>1, <2>2 DEF TypeOK, Idle
  <2> QED BY <2>1, <2>3, <2>4, CallsUndisturbed DEF ServerInv
<1>5. CASE OtherMsg(w)
  <2>1. /\ work' = [work EXCEPT ![w] = Idle]
        /\ UNCHANGED <<ClientLock, Clients, pc, Valid, beat, SendLock, call>>
    BY <1>5 DEF OtherMsg
  <2>2. SendLockInv'
    BY <1>1, <2>1 DEF SendLockInv, Idle
  <2>3. TypeOK'
    BY <2>1 DEF TypeOK, Idle
  <2> QED BY <2>1, <2>2, <2>3, CallsUndisturbed DEF ServerInv
<1> QED BY <1>2, <1>3, <1>4, <1>5 DEF Worker

\* Multicast preserves the invariant.
LEMMA CallerStep ==
  ASSUME TypeOK, ServerInv, NEW k \in Callers, Caller(k)
  PROVE  TypeOK' /\ ServerInv'
<1> DEFINE CallType == [at : {"idle", "wait", "range", "write"},
                        iplist : Seq(Ids), cur : Conns \cup {NoConn}, left : Nat,
                        todo : SUBSET Conns, got : [Conns -> Nat]]
<1>1. /\ call \in [Callers -> CallType] /\ call[k] \in CallType
      /\ SendLock \in [Conns -> Workers \cup Callers \cup {NoOne}]
      /\ k # NoOne /\ \A w \in Workers : k # w
  BY ThreadAssumption DEF TypeOK
<1>2. /\ RegistryMatchesHandlers /\ IdInv /\ ClientLockInv /\ SendLockInv /\ CallInv
  BY DEF ServerInv
<1> HIDE DEF CallType
\* What has to be shown once the call's own new state is known to be right.
<1>3. ASSUME UNCHANGED <<Clients, pc, beat, work>>,
             Valid' \in [Conns -> BOOLEAN],
             ClientLock' \in Callers \cup {NoOne},
             SendLock' \in [Conns -> Workers \cup Callers \cup {NoOne}],
             call' \in [Callers -> CallType],
             \A j \in Callers : j # k => call'[j] = call[j],
             Sending(k)' => RangeOK(k)', call'[k].at = "wait" => WaitOK(k)',
             ClientLockInv', SendLockInv'
      PROVE  TypeOK' /\ ServerInv'
  <2>1. TypeOK'
    BY <1>3 DEF TypeOK, CallType
  <2>2. RegistryMatchesHandlers' /\ IdInv'
    BY <1>2, <1>3 DEF RegistryMatchesHandlers, IdInv
  <2>3. CallInv'
    <3> SUFFICES ASSUME NEW j \in Callers
                 PROVE  /\ Sending(j)' => RangeOK(j)'
                        /\ call'[j].at = "wait" => WaitOK(j)'
      BY DEF CallInv
    <3>1. CASE j = k
      BY <1>3, <3>1
    <3>2. CASE j # k
      <4>1. call'[j] = call[j] /\ \A d \in Conns : pc'[d] \in Served <=> pc[d] \in Served
        BY <1>3, <3>2
      <4> QED BY <1>2, <4>1, CallKept DEF CallInv
    <3> QED BY <3>1, <3>2
  <2> QED BY <1>3, <2>1, <2>2, <2>3 DEF ServerInv
<1>4. ASSUME NEW iplist \in IpLists, MulticastCall(k, iplist)
      PROVE  TypeOK' /\ ServerInv'
  <2> DEFINE new == [NoCall EXCEPT !.at = "wait", !.iplist = iplist]
  <2>1. /\ call[k].at = "idle" /\ call' = [call EXCEPT ![k] = new]
        /\ UNCHANGED <<ClientLock, Clients, pc, Valid, beat, SendLock, work>>
    BY <1>4 DEF MulticastCall, NoCall
  <2>2. /\ new \in CallType /\ new.at = "wait" /\ new.cur = NoConn /\ new.left = 0
        /\ \A c \in Conns : new.got[c] = 0
    BY ListAssumption DEF NoCall, CallType
  <2> HIDE DEF new
  <2>3. /\ call'[k] = new /\ \A j \in Callers : j # k => call'[j] = call[j]
        /\ call' \in [Callers -> CallType]
    BY <1>1, <2>1, <2>2
  <2>4. ClientLockInv' /\ SendLockInv'
    BY <1>2, <2>1, <2>2, <2>3 DEF ClientLockInv, SendLockInv, Sending
  <2>5. ~ Sending(k)' /\ WaitOK(k)'
    BY <2>2, <2>3 DEF Sending, WaitOK
  <2>6. Valid' \in [Conns -> BOOLEAN] /\ ClientLock' \in Callers \cup {NoOne}
    BY <2>1 DEF TypeOK
  <2> QED BY <1>1, <1>3, <2>1, <2>3, <2>4, <2>5, <2>6
<1>5. CASE MulticastLock(k)
  <2>1. /\ call[k].at = "wait" /\ ClientLock = NoOne /\ ClientLock' = k
        /\ call' = [call EXCEPT ![k].at = "range",
                                ![k].todo = {c \in Conns : \E id \in Ids : Clients[id] = c}]
        /\ UNCHANGED <<Clients, pc, Valid, beat, SendLock, work>>
    BY <1>5 DEF MulticastLock
  <2>2. /\ call'[k].at = "range" /\ call'[k].cur = call[k].cur /\ call'[k].left = call[k].left
        /\ call'[k].got = call[k].got /\ call'[k].iplist = call[k].iplist
        /\ call'[k].todo = {c \in Conns : \E id \in Ids : Clients[id] = c}
        /\ \A j \in Callers : j # k => call'[j] = call[j]
        /\ call' \in [Callers -> CallType]
    BY <1>1, <2>1 DEF CallType
  <2>3. WaitOK(k)
    BY <1>2, <2>1 DEF CallInv
  <2>4. \A c \in Conns : c \in call'[k].todo <=> pc[c] \in Served /\ IdOf[c] \in Ids
    BY <1>2, <2>2 DEF RegistryMatchesHandlers
  <2>5. RangeOK(k)'
    <3>1. ASSUME NEW c \in Conns, pc[c] \in Served PROVE c \in call'[k].todo
      BY <1>2, <2>4, <3>1 DEF IdInv
    <3>2. \A c \in Conns : GotSoFar(k, c)' = 0
      BY <2>1, <3>1 DEF GotSoFar
    <3>3. \A c \in call'[k].todo : c \in Conns /\ pc[c] \in Served
      BY <2>2, <2>4
    <3> QED BY <2>1, <2>2, <2>3, <3>2, <3>3 DEF RangeOK, WaitOK
  <2>6. ClientLockInv' /\ SendLockInv'
    <3>1. ClientLockInv'
      BY <1>2, <2>1, <2>2, ThreadAssumption DEF ClientLockInv, Sending
    <3>2. SendLockInv'
      BY <1>2, <2>1, <2>2 DEF SendLockInv
    <3> QED BY <3>1, <3>2
  <2>7. Valid' \in [Conns -> BOOLEAN] /\ ClientLock' \in Callers \cup {NoOne}
    BY <2>1 DEF TypeOK
  <2> QED BY <1>1, <1>3, <2>1, <2>2, <2>5, <2>6, <2>7
<1>6. ASSUME NEW c \in Conns, MulticastNext(k, c)
      PROVE  TypeOK' /\ ServerInv'
  <2>1. /\ call[k].at = "range" /\ call[k].left = 0 /\ c \in call[k].todo
        /\ call' = [call EXCEPT ![k].cur = c, ![k].todo = @ \ {c},
                                ![k].left = Occurrences(IdOf[c], call[k].iplist)]
        /\ UNCHANGED <<ClientLock, Clients, pc, Valid, beat, SendLock, work>>
    BY <1>6 DEF MulticastNext
  <2>2. Occurrences(IdOf[c], call[k].iplist) \in Nat
    BY <1>1, OccurrencesNat DEF CallType
  <2>3. /\ call'[k].at = "range" /\ call'[k].cur = c /\ call'[k].todo = call[k].todo \ {c}
        /\ call'[k].left = Occurrences(IdOf[c], call[k].iplist)
        /\ call'[k].got = call[k].got /\ call'[k].iplist = call[k].iplist
        /\ \A j \in Callers : j # k => call'[j] = call[j]
        /\ call' \in [Callers -> CallType]
    BY <1>1, <2>1, <2>2 DEF CallType
  <2>4. RangeOK(k) /\ c # NoConn
    BY <1>2, <2>1, IdAssumption DEF CallInv, Sending
  <2>5. RangeOK(k)'
    <3>1. ASSUME NEW d \in Conns PROVE GotSoFar(k, d)' = GotSoFar(k, d)
      <4>1. CASE d = c
        BY <2>1, <2>2, <2>3, <4>1 DEF GotSoFar
      <4>2. CASE d # c
        <5>1. Occurrences(IdOf[d], call[k].iplist) \in Nat
          BY <1>1, OccurrencesNat DEF CallType
        <5> QED BY <2>1, <2>3, <4>2, <5>1 DEF GotSoFar
      <4> QED BY <4>1, <4>2
    <3> QED BY <2>1, <2>2, <2>3, <2>4, <3>1 DEF RangeOK
  <2>6. ClientLockInv' /\ SendLockInv'
    <3>1. ClientLockInv'
      BY <1>2, <2>1, <2>3 DEF ClientLockInv, Sending
    <3>2. SendLockInv'
      BY <1>2, <2>1, <2>3 DEF SendLockInv
    <3> QED BY <3>1, <3>2
  <2>7. Valid' \in [Conns -> BOOLEAN] /\ ClientLock' \in Callers \cup {NoOne}
    BY <2>1 DEF TypeOK
  <2> QED BY <1>1, <1>3, <2>1, <2>3, <2>5, <2>6, <2>7
<1>7. CASE MulticastSendLock(k)
  <2>1. /\ call[k].at = "range" /\ call[k].left > 0
        /\ call' = [call EXCEPT ![k].at = "write"]
        /\ SendLock[call[k].cur] = NoOne
        /\ SendLock' = [SendLock EXCEPT ![call[k].cur] = k]
        /\ UNCHANGED <<ClientLock, Clients, pc, Valid, beat, work>>
    BY <1>7 DEF MulticastSendLock, SendMsgLock
  <2>2. /\ call'[k].at = "write" /\ call'[k].cur = call[k].cur /\ call'[k].todo = call[k].todo
        /\ call'[k].left = call[k].left
        /\ call'[k].got = call[k].got /\ call'[k].iplist = call[k].iplist
        /\ \A j \in Callers : j # k => call'[j] = call[j]
        /\ call' \in [Callers -> CallType]
    BY <1>1, <2>1 DEF CallType
  <2>3. RangeOK(k) /\ call[k].left \in Nat /\ call[k].cur \in Conns \cup {NoConn}
    BY <1>1, <1>2, <2>1 DEF CallInv, Sending, CallType
  <2>4. call[k].cur \in Conns
    BY <2>1, <2>3 DEF RangeOK
  <2>5. RangeOK(k)'
    <3>1. \A d \in Conns : GotSoFar(k, d)' = GotSoFar(k, d)
      BY <2>1, <2>2 DEF GotSoFar
    <3> QED BY <2>1, <2>2, <2>3, <3>1 DEF RangeOK
  <2>6. SendLock' \in [Conns -> Workers \cup Callers \cup {NoOne}]
    BY <1>1, <2>1
  <2>7. ClientLockInv' /\ SendLockInv'
    <3>1. ClientLockInv'
      BY <1>2, <2>1, <2>2 DEF ClientLockInv, Sending
    <3>2. SendLockInv'
      BY <1>1, <1>2, <2>1, <2>2, <2>4, ThreadAssumption DEF SendLockInv
    <3> QED BY <3>1, <3>2
  <2>8. Valid' \in [Conns -> BOOLEAN] /\ ClientLock' \in Callers \cup {NoOne}
    BY <2>1 DEF TypeOK
  <2> QED BY <1>3, <2>1, <2>2, <2>5, <2>6, <2>7, <2>8
<1>8. CASE MulticastSendWrite(k)
  <2>1. /\ call[k].at = "write"
        /\ call' = [call EXCEPT ![k].at = "range", ![k].left = @ - 1,
                                ![k].got[call[k].cur] = @ + 1]
        /\ SendLock[call[k].cur] = k
        /\ SendLock' = [SendLock EXCEPT ![call[k].cur] = NoOne]
        /\ UNCHANGED <<ClientLock, Clients, pc, beat, work>>
    BY <1>8 DEF MulticastSendWrite, SendMsgWrite
  <2>2. Valid' \in [Conns -> BOOLEAN]
    BY <1>8 DEF MulticastSendWrite, SendMsgWrite, TypeOK
  <2>3. /\ RangeOK(k) /\ call[k].left \in Nat /\ call[k].left > 0 /\ call[k].cur \in Conns
        /\ call[k].got \in [Conns -> Nat]
    BY <1>1, <1>2, <2>1 DEF CallInv, SendLockInv, Sending, CallType, RangeOK
  <2>4. /\ call'[k].at = "range" /\ call'[k].cur = call[k].cur /\ call'[k].todo = call[k].todo
        /\ call'[k].left = call[k].left - 1 /\ call'[k].iplist = call[k].iplist
        /\ call'[k].got = [call[k].got EXCEPT ![call[k].cur] = @ + 1]
        /\ \A j \in Callers : j # k => call'[j] = call[j]
    BY <1>1, <2>1 DEF CallType
  <2>5. call' \in [Callers -> CallType]
    <3>1. call[k].left - 1 \in Nat /\ [call[k].got EXCEPT ![call[k].cur] = @ + 1] \in [Conns -> Nat]
      BY <2>3
    <3> QED BY <1>1, <2>1, <3>1 DEF CallType
  <2>6. RangeOK(k)'
    <3>1. /\ call[k].cur # NoConn /\ call[k].cur \notin call[k].todo
          /\ pc[call[k].cur] \in Served
          /\ Occurrences(IdOf[call[k].cur], call[k].iplist) \in Nat
          /\ call[k].left <= Occurrences(IdOf[call[k].cur], call[k].iplist)
      <4>1. call[k].cur # NoConn
        BY <2>3, IdAssumption
      <4>2. Occurrences(IdOf[call[k].cur], call[k].iplist) \in Nat
        BY <1>1, OccurrencesNat DEF CallType
      <4> QED BY <2>3, <4>1, <4>2 DEF RangeOK
    <3>2. ASSUME NEW d \in Conns PROVE call'[k].got[d] = GotSoFar(k, d)'
      <4>1. call[k].got[d] = GotSoFar(k, d)
        BY <2>3 DEF RangeOK
      <4>2. CASE d = call[k].cur
        <5>1. GotSoFar(k, d) = Occurrences(IdOf[d], call[k].iplist) - call[k].left
          BY <3>1, <4>2 DEF GotSoFar
        <5>2. GotSoFar(k, d)' = Occurrences(IdOf[d], call[k].iplist) - (call[k].left - 1)
          BY <2>1, <2>4, <3>1, <4>2 DEF GotSoFar
        <5>3. call'[k].got[d] = call[k].got[d] + 1
          BY <2>3, <2>4, <4>2
        <5>4. \A x, y \in Int : (x - y) + 1 = x - (y - 1)
          OBVIOUS
        <5> QED BY <2>3, <3>1, <4>1, <4>2, <5>1, <5>2, <5>3, <5>4
      <4>3. CASE d # call[k].cur
        BY <2>1, <2>3, <2>4, <4>1, <4>3 DEF GotSoFar
      <4> QED BY <4>2, <4>3
    <3>3. call[k].left - 1 <= Occurrences(IdOf[call[k].cur], call[k].iplist)
      BY <2>3, <3>1
    <3>4. \A d \in call[k].todo : pc[d] \in Served
      BY <2>3 DEF RangeOK
    <3> QED BY <2>1, <2>4, <3>1, <3>2, <3>3, <3>4 DEF RangeOK
  <2>7. SendLock' \in [Conns -> Workers \cup Callers \cup {NoOne}]
    BY <1>1, <2>1
  <2>8. ClientLockInv' /\ SendLockInv'
    <3>1. ClientLockInv'
      BY <1>2, <2>1, <2>4 DEF ClientLockInv, Sending
    <3>2. SendLockInv'
      BY <1>1, <1>2, <2>1, <2>3, <2>4 DEF SendLockInv
    <3> QED BY <3>1, <3>2
  <2>9. ClientLock' \in Callers \cup {NoOne}
    BY <2>1 DEF TypeOK
  <2> QED BY <1>3, <2>1, <2>2, <2>4, <2>5, <2>6, <2>7, <2>8, <2>9
<1>9. CASE MulticastUnlock(k)
  <2>1. /\ call[k].at = "range" /\ ClientLock' = NoOne /\ call' = [call EXCEPT ![k] = NoCall]
        /\ UNCHANGED <<Clients, pc, Valid, beat, SendLock, work>>
    BY <1>9 DEF MulticastUnlock, RangeDone
  <2>2. NoCall \in CallType /\ NoCall.at = "idle"
    BY NoCallType DEF CallType, NoCall
  <2>3. /\ call'[k] = NoCall /\ \A j \in Callers : j # k => call'[j] = call[j]
        /\ call' \in [Callers -> CallType]
    BY <1>1, <2>1, <2>2
  <2>4. ClientLock = k
    BY <1>2, <2>1 DEF ClientLockInv, Sending
  <2>5. ClientLockInv' /\ SendLockInv'
    <3>1. ClientLockInv'
      BY <1>2, <2>1, <2>2, <2>3, <2>4, ThreadAssumption DEF ClientLockInv, Sending
    <3>2. SendLockInv'
      BY <1>2, <2>1, <2>2, <2>3 DEF SendLockInv
    <3> QED BY <3>1, <3>2
  <2>6. ~ Sending(k)' /\ call'[k].at # "wait"
    BY <2>2, <2>3 DEF Sending
  <2>7. Valid' \in [Conns -> BOOLEAN] /\ ClientLock' \in Callers \cup {NoOne}
    BY <2>1 DEF TypeOK
  <2> QED BY <1>1, <1>3, <2>1, <2>3, <2>5, <2>6, <2>7
<1> QED
  BY <1>4, <1>5, <1>6, <1>7, <1>8, <1>9 DEF Caller

\* Every step preserves the invariant.
LEMMA InvNext == TypeOK /\ ServerInv /\ [Next]_vars => TypeOK' /\ ServerInv'
<1> SUFFICES ASSUME TypeOK, ServerInv, [Next]_vars PROVE TypeOK' /\ ServerInv'
  OBVIOUS
<1>1. CASE Next
  BY <1>1, HandlerStep, WorkerStep, CallerStep DEF Next
<1>2. CASE UNCHANGED vars
  <2>1. /\ UNCHANGED <<ClientLock, Clients, pc, call>>
        /\ Valid' = Valid /\ beat' = beat /\ SendLock' = SendLock /\ work' = work
    BY <1>2 DEF vars
  <2>2. TypeOK'
    BY <2>1 DEF TypeOK
  <2>3. SendLockInv'
    BY <2>1 DEF ServerInv, SendLockInv
  <2> QED BY <2>1, <2>2, <2>3, CallsUndisturbed DEF ServerInv
<1> QED BY <1>1, <1>2

\* The state of the registry, of its locks and of its goroutines keeps its
\* types and satisfies the inductive invariant.
THEOREM ServerInvariant == Spec => [](TypeOK /\ ServerInv)
BY InvInit, InvNext, PTL DEF Spec

\* The registry, the sockets and the three kinds of goroutine keep their types.
THEOREM ServerTypes == Spec => []TypeOK
<1> QED BY ServerInvariant, PTL

\* The Clients map holds exactly the connections being served, although
\* InValidClient deletes by id without looking whose entry it deletes.
THEOREM RegistryCorrect == Spec => []RegistryMatchesHandlers
<1>1. ServerInv => RegistryMatchesHandlers
  BY DEF ServerInv
<1> QED BY <1>1, ServerInvariant, PTL

\* SendLock keeps two goroutines from writing to one connection at a time.
THEOREM WritesExclusive == Spec => []ExclusiveWrite
<1>1. TypeOK /\ ServerInv => ExclusiveWrite
  BY DEF ServerInv, SendLockInv, ExclusiveWrite
<1> QED BY <1>1, ServerInvariant, PTL

\* Multicast sends to registered connections only, and to each as often as
\* its id occurs in iplist.
THEOREM MulticastCorrect == Spec => []MulticastExact
<1>1. TypeOK /\ ServerInv => MulticastExact
  <2> SUFFICES ASSUME TypeOK, ServerInv, NEW k \in Callers
               PROVE /\ call[k].at = "write" => pc[call[k].cur] \in Served
                     /\ RangeDone(k) =>
                          \A c \in Conns : call[k].got[c] =
                            IF pc[c] \in Served THEN Occurrences(IdOf[c], call[k].iplist) ELSE 0
    BY DEF MulticastExact
  <2>1. Sending(k) => RangeOK(k)
    BY DEF ServerInv, CallInv
  <2>2. call[k].at = "write" => pc[call[k].cur] \in Served
    BY <2>1, IdAssumption DEF Sending, RangeOK, ServerInv, SendLockInv
  <2>3. ASSUME RangeDone(k), NEW c \in Conns
        PROVE  call[k].got[c] =
                 IF pc[c] \in Served THEN Occurrences(IdOf[c], call[k].iplist) ELSE 0
    <3>1. call[k].left = 0 /\ call[k].todo = {} /\ call[k].got[c] = GotSoFar(k, c)
      BY <2>1, <2>3 DEF RangeDone, Sending, RangeOK
    <3>2. Occurrences(IdOf[c], call[k].iplist) \in Nat
      BY OccurrencesNat DEF TypeOK
    <3>3. Occurrences(IdOf[c], call[k].iplist) - 0 = Occurrences(IdOf[c], call[k].iplist)
      BY <3>2
    <3> QED BY <3>1, <3>3 DEF GotSoFar
  <2> QED BY <2>2, <2>3
<1> QED BY <1>1, ServerInvariant, PTL

\* A client's entry leaves the map only by the hand of its own handler.
THEOREM OwnerRemoves == Spec => EntryRemovedByOwner
<1> DEFINE Owned == \A id \in Ids : Clients[id] # NoConn /\ Clients'[id] # Clients[id] =>
                      /\ Clients'[id] = NoConn
                      /\ pc[Clients[id]] = "remove" /\ pc'[Clients[id]] = "removed"
<1>1. TypeOK /\ ServerInv /\ [Next]_vars => [Owned]_vars
  <2> SUFFICES ASSUME TypeOK, ServerInv, Next PROVE Owned
    BY DEF vars
  <2>1. CASE Clients' = Clients
    BY <2>1
  <2>2. ASSUME NEW c \in Conns, RegisterConn(c) PROVE Owned
    BY <2>2 DEF RegisterConn, TypeOK
  <2>3. ASSUME NEW c \in Conns, RemoveClient(c) PROVE Owned
    <3>1. /\ Clients' = [Clients EXCEPT ![IdOf[c]] = NoConn] /\ pc[c] = "remove"
          /\ pc' = [pc EXCEPT ![c] = "removed"]
      BY <2>3 DEF RemoveClient, Goto
    <3>2. IdOf[c] \in Ids => Clients[IdOf[c]] = c
      BY <3>1 DEF ServerInv, RegistryMatchesHandlers, Served
    <3> QED BY <3>1, <3>2 DEF TypeOK
  <2>4. Clients' = Clients \/ \E c \in Conns : RegisterConn(c) \/ RemoveClient(c)
    <3>1. CASE \E c \in Conns : Handler(c)
      BY <3>1 DEF Handler, Accept, ConnIdError, RefuseConn, JudgeValid, JudgeInvalid, ReadError,
                  Fail, ReadPart, ReadMsg, CloseConn
    <3>2. CASE \E w \in Workers : Worker(w)
      BY <3>2 DEF Worker, HeartBeatMsg, HeartBeatRspLock, HeartBeatRspWrite, OtherMsg
    <3>3. CASE \E k \in Callers : Caller(k)
      BY <3>3 DEF Caller, MulticastCall, MulticastLock, MulticastNext, MulticastSendLock,
                  MulticastSendWrite, MulticastUnlock
    <3> QED BY <3>1, <3>2, <3>3 DEF Next
  <2> QED BY <2>1, <2>2, <2>3, <2>4
<1> QED BY <1>1, InvInit, InvNext, PTL DEF Spec, EntryRemovedByOwner

-----------------------------------------------------------------------------
(* Waiting for locks. *)

\* A step that takes and releases no SendLock, and moves nobody who writes.
LEMMA HolderKept ==
  ASSUME HolderInv, SendLock' = SendLock,
         \A w \in Workers : work[w].at = "write" => work'[w] = work[w],
         \A k \in Callers : call[k].at = "write" => call'[k] = call[k]
  PROVE  HolderInv'
BY DEF HolderInv

LEMMA HolderStep == TypeOK /\ ServerInv /\ HolderInv /\ [Next]_vars => HolderInv'
<1> SUFFICES ASSUME TypeOK, ServerInv, HolderInv, [Next]_vars PROVE HolderInv'
  OBVIOUS
<1>1. ASSUME NEW c \in Conns, Handler(c) PROVE HolderInv'
  <2>1. SendLock' = SendLock /\ call' = call
    BY <1>1 DEF Handler, Accept, ConnIdError, RefuseConn, RegisterConn, JudgeValid, JudgeInvalid,
                ReadError, Fail, ReadPart, ReadMsg, RemoveClient, CloseConn
  <2>2. work' = work \/ \E w \in Workers, type \in MsgTypes : ReadMsg(c, w, type)
    BY <1>1 DEF Handler, Accept, ConnIdError, RefuseConn, RegisterConn, JudgeValid, JudgeInvalid,
                ReadError, Fail, ReadPart, RemoveClient, CloseConn
  <2>3. ASSUME NEW w \in Workers, NEW type \in MsgTypes, ReadMsg(c, w, type)
        PROVE  \A v \in Workers : work[v].at = "write" => work'[v] = work[v]
    <3>1. work[w].at # "write"
      BY <2>3 DEF ReadMsg, Idle
    <3>2. \A v \in Workers \ {w} : work'[v] = work[v]
      BY <2>3 DEF ReadMsg, TypeOK
    <3> QED BY <3>1, <3>2
  <2>4. \A v \in Workers : work[v].at = "write" => work'[v] = work[v]
    BY <2>2, <2>3
  <2> QED BY <2>1, <2>4, HolderKept
<1>2. ASSUME NEW w \in Workers, HeartBeatMsg(w) \/ OtherMsg(w) PROVE HolderInv'
  <2>1. SendLock' = SendLock /\ call' = call
    BY <1>2 DEF HeartBeatMsg, OtherMsg
  <2>2. \A v \in Workers : work[v].at = "write" => work'[v] = work[v]
    BY <1>2 DEF HeartBeatMsg, OtherMsg, TypeOK
  <2> QED BY <2>1, <2>2, HolderKept
<1>3. ASSUME NEW w \in Workers, HeartBeatRspLock(w) PROVE HolderInv'
  <2>1. /\ work[w].conn \in Conns /\ work[w].at = "lock"
        /\ SendLock' = [SendLock EXCEPT ![work[w].conn] = w]
        /\ work' = [work EXCEPT ![w].at = "write"] /\ call' = call
    BY <1>3 DEF HeartBeatRspLock, SendMsgLock, ServerInv, SendLockInv
  <2>2. /\ work'[w].at = "write" /\ work'[w].conn = work[w].conn
        /\ \A v \in Workers \ {w} : work'[v] = work[v]
    BY <2>1 DEF TypeOK
  <2>3. \A c \in Conns : SendLock'[c] = IF c = work[w].conn THEN w ELSE SendLock[c]
    BY <2>1 DEF TypeOK
  <2>4. \A c \in Conns : SendLock[c] # w
    BY <2>1 DEF HolderInv
  <2> QED BY <2>1, <2>2, <2>3, <2>4, ThreadAssumption DEF HolderInv
<1>4. ASSUME NEW w \in Workers, HeartBeatRspWrite(w) PROVE HolderInv'
  <2>1. /\ work[w].conn \in Conns /\ SendLock[work[w].conn] = w
        /\ SendLock' = [SendLock EXCEPT ![work[w].conn] = NoOne]
        /\ work' = [work EXCEPT ![w] = Idle] /\ call' = call
    BY <1>4 DEF HeartBeatRspWrite, SendMsgWrite, ServerInv, SendLockInv
  <2>2. \A v \in Workers \ {w} : work'[v] = work[v]
    BY <2>1 DEF TypeOK
  <2>3. \A c \in Conns : SendLock'[c] = IF c = work[w].conn THEN NoOne ELSE SendLock[c]
    BY <2>1 DEF TypeOK
  <2>4. \A c \in Conns : SendLock[c] = w => c = work[w].conn
    BY <2>1 DEF HolderInv
  <2> QED BY <2>1, <2>2, <2>3, <2>4, ThreadAssumption DEF HolderInv
<1>5. ASSUME NEW k \in Callers, Caller(k), ~ MulticastSendLock(k), ~ MulticastSendWrite(k)
      PROVE  HolderInv'
  <2>1. SendLock' = SendLock /\ work' = work
    BY <1>5 DEF Caller, MulticastCall, MulticastLock, MulticastNext, MulticastUnlock
  <2>2. call[k].at # "write"
    <3>1. call[k] = NoCall => call[k].at = "idle"
      BY DEF NoCall
    <3>2. CASE \E iplist \in IpLists : MulticastCall(k, iplist)
      BY <3>1, <3>2 DEF MulticastCall
    <3>3. CASE MulticastLock(k) \/ \E c \in Conns : MulticastNext(k, c)
      BY <3>3 DEF MulticastLock, MulticastNext
    <3>4. CASE MulticastUnlock(k)
      BY <3>4 DEF MulticastUnlock, RangeDone
    <3> QED BY <1>5, <3>2, <3>3, <3>4 DEF Caller
  <2>3. \A j \in Callers \ {k} : call'[j] = call[j]
    <3>1. CASE \E iplist \in IpLists : MulticastCall(k, iplist)
      BY <3>1 DEF MulticastCall, TypeOK
    <3>2. CASE MulticastLock(k)
      BY <3>2 DEF MulticastLock, TypeOK
    <3>3. CASE \E c \in Conns : MulticastNext(k, c)
      BY <3>3 DEF MulticastNext, TypeOK
    <3>4. CASE MulticastUnlock(k)
      BY <3>4 DEF MulticastUnlock, TypeOK
    <3> QED BY <1>5, <3>1, <3>2, <3>3, <3>4 DEF Caller
  <2> QED BY <2>1, <2>2, <2>3, HolderKept
<1>6. ASSUME NEW k \in Callers, MulticastSendLock(k) PROVE HolderInv'
  <2>1. /\ call[k].at = "range" /\ SendLock' = [SendLock EXCEPT ![call[k].cur] = k]
        /\ call' = [call EXCEPT ![k].at = "write"] /\ work' = work
    BY <1>6 DEF MulticastSendLock, SendMsgLock
  <2>2. /\ call'[k].at = "write" /\ call'[k].cur = call[k].cur
        /\ \A j \in Callers \ {k} : call'[j] = call[j]
    BY <2>1 DEF TypeOK
  <2>3. \A c \in Conns : SendLock'[c] = IF c = call[k].cur THEN k ELSE SendLock[c]
    BY <2>1 DEF TypeOK
  <2>4. \A c \in Conns : SendLock[c] # k
    BY <2>1 DEF HolderInv
  <2> QED BY <2>1, <2>2, <2>3, <2>4, ThreadAssumption DEF HolderInv
<1>7. ASSUME NEW k \in Callers, MulticastSendWrite(k) PROVE HolderInv'
  <2>1. /\ SendLock[call[k].cur] = k /\ SendLock' = [SendLock EXCEPT ![call[k].cur] = NoOne]
        /\ work' = work
    BY <1>7 DEF MulticastSendWrite, SendMsgWrite
  <2>2. \A j \in Callers \ {k} : call'[j] = call[j]
    BY <1>7 DEF MulticastSendWrite, TypeOK
  <2>3. \A c \in Conns : SendLock'[c] = IF c = call[k].cur THEN NoOne ELSE SendLock[c]
    BY <2>1 DEF TypeOK
  <2>4. \A c \in Conns : SendLock[c] = k => c = call[k].cur
    BY DEF HolderInv
  <2> QED BY <2>1, <2>2, <2>3, <2>4, ThreadAssumption DEF HolderInv
<1>8. CASE UNCHANGED vars
  BY <1>8, HolderKept DEF vars
<1> QED
  BY <1>1, <1>2, <1>3, <1>4, <1>5, <1>6, <1>7, <1>8 DEF Next, Worker

\* Whoever holds ClientLock or a SendLock can go on, or waits for somebody who
\* can: Multicast waits for SendLocks while it holds ClientLock, but who holds a
\* SendLock is in Conn.Write, also when the write fails.
THEOREM LocksMoveOn == Spec => []NoCircularWait
<1>1. Init => HolderInv
  BY ThreadAssumption DEF Init, HolderInv
<1>2. TypeOK /\ ServerInv /\ HolderInv => NoCircularWait
  <2> SUFFICES ASSUME TypeOK, ServerInv, HolderInv PROVE NoCircularWait
    OBVIOUS
  <2>1. ASSUME NEW c \in Conns, SendLock[c] # NoOne PROVE CanGo(SendLock[c])
    <3>1. SendLock[c] \in Workers \cup Callers
      BY <2>1 DEF TypeOK
    <3> QED BY <3>1, ThreadAssumption DEF HolderInv, CanGo, WaitsFor
  <2>2. ASSUME ClientLock # NoOne PROVE CanGo(ClientLock) \/ CanGo(WaitsFor(ClientLock))
    <3>1. PICK k \in Callers : ClientLock = k
      BY <2>2 DEF TypeOK
    <3>2. Sending(k) /\ RangeOK(k) /\ k \notin Workers
      BY <3>1, ThreadAssumption DEF ServerInv, ClientLockInv, CallInv
    <3>3. CASE call[k].at = "write" \/ ~ call[k].left > 0
      BY <3>1, <3>2, <3>3 DEF CanGo, WaitsFor, Sending
    <3>4. CASE call[k].at = "range" /\ call[k].left > 0
      <4>1. call[k].cur \in Conns
        BY <3>2, <3>4 DEF RangeOK, TypeOK
      <4>2. WaitsFor(k) = SendLock[call[k].cur]
        BY <3>2, <3>4 DEF WaitsFor
      <4>3. CASE SendLock[call[k].cur] = NoOne
        BY <3>1, <3>4, <4>2, <4>3 DEF CanGo
      <4> QED BY <2>1, <3>1, <4>1, <4>2, <4>3
    <3> QED BY <3>2, <3>3, <3>4 DEF Sending
  <2> QED BY <2>1, <2>2 DEF NoCircularWait
<1> QED BY <1>1, <1>2, HolderStep, InvInit, InvNext, PTL DEF Spec

-----------------------------------------------------------------------------
(* Refinement of the abstract registry. *)

\* What the callers see of Multicast depends on nothing but the calls.
LEMMA JobsKept ==
  ASSUME call' = call
  PROVE  [k \in Callers |-> Job(k)]' = [k \in Callers |-> Job(k)]
BY DEF Job, RangeDone

LEMMA StatusKept ==
  ASSUME \A c \in Conns : ConnStatus(c)' = ConnStatus(c)
  PROVE  [c \in Conns |-> ConnStatus(c)]' = [c \in Conns |-> ConnStatus(c)]
OBVIOUS

\* A step of HandleConn registers a connection, ends one, or is not seen.
LEMMA HandlerRefines ==
  ASSUME TypeOK, ServerInv, NEW c \in Conns, Handler(c)
  PROVE  [Reg!Next]_(Reg!regVars)
<1> DEFINE status == [d \in Conns |-> ConnStatus(d)]
           job    == [k \in Callers |-> Job(k)]
<1>1. call' = call
  BY DEF Handler, Accept, ConnIdError, RefuseConn, RegisterConn, JudgeValid, JudgeInvalid,
         ReadError, Fail, ReadPart, ReadMsg, RemoveClient, CloseConn
<1>2. job' = job
  BY <1>1, JobsKept
<1>3. CASE RegisterConn(c)
  <2>1. /\ pc[c] = "accepted" /\ pc' = [pc EXCEPT ![c] = "judge"]
        /\ IdOf[c] \in Ids /\ Clients[IdOf[c]] = NoConn
    BY <1>3, IdAssumption DEF RegisterConn, Goto
  <2>2. \A d \in Conns : ConnStatus(d)' = IF d = c THEN "registered" ELSE ConnStatus(d)
    BY <2>1 DEF ConnStatus, TypeOK, Served
  <2>3. ConnStatus(c) = "new"
    BY <2>1 DEF ConnStatus, Served
  <2>4. \A d \in Conns : ConnStatus(d) = "registered" => IdOf[d] # IdOf[c]
    BY <2>1, IdAssumption DEF ConnStatus, ServerInv, RegistryMatchesHandlers
  <2>5. status' = [status EXCEPT ![c] = "registered"]
    BY <2>2
  <2> QED BY <1>2, <2>1, <2>3, <2>4, <2>5 DEF Reg!Next, Reg!Join
<1>4. CASE ConnIdError(c) \/ RefuseConn(c) \/ RemoveClient(c)
  <2>1. /\ pc[c] \in {"accepted", "remove"}
        /\ \E s \in {"removed", "closed"} : pc' = [pc EXCEPT ![c] = s]
    BY <1>4 DEF ConnIdError, RefuseConn, RemoveClient, Goto
  <2>2. \A d \in Conns : ConnStatus(d)' = IF d = c THEN "gone" ELSE ConnStatus(d)
    BY <2>1 DEF ConnStatus, TypeOK, Served
  <2>3. ConnStatus(c) # "gone"
    BY <2>1 DEF ConnStatus, Served
  <2>4. status' = [status EXCEPT ![c] = "gone"]
    BY <2>2
  <2> QED BY <1>2, <2>3, <2>4 DEF Reg!Next, Reg!Leave
<1>5. ASSUME ~ RegisterConn(c), ~ (ConnIdError(c) \/ RefuseConn(c) \/ RemoveClient(c))
      PROVE  UNCHANGED Reg!regVars
  <2>1. \E s : /\ pc' = [pc EXCEPT ![c] = s]
               /\ \/ pc[c] = "none" /\ s = "accepted"
                  \/ pc[c] \in Served /\ s \in Served
                  \/ pc[c] = "removed" /\ s = "closed"
    BY <1>5 DEF Handler, Accept, JudgeValid, JudgeInvalid, ReadError, Fail, ReadPart, ReadMsg,
                CloseConn, Goto, Served
  <2>2. \A d \in Conns : ConnStatus(d)' = ConnStatus(d)
    BY <2>1 DEF ConnStatus, TypeOK, Served
  <2> QED BY <1>2, <2>2, StatusKept DEF Reg!regVars
<1> QED BY <1>3, <1>4, <1>5

\* A step of Multicast before its range ends: it is not seen, unless the range
\* ends with it, and then it is the moment of the call.
LEMMA SendRefines ==
  ASSUME TypeOK, TypeOK', MulticastExact', NEW k \in Callers, pc' = pc,
         call[k].at # "idle", call'[k].at # "idle", call'[k].iplist = call[k].iplist,
         ~ RangeDone(k), \A j \in Callers \ {k} : call'[j] = call[j]
  PROVE  [Reg!Next]_(Reg!regVars)
<1> DEFINE status == [d \in Conns |-> ConnStatus(d)]
           job    == [j \in Callers |-> Job(j)]
<1>1. status' = status
  BY DEF ConnStatus
<1>2. \A j \in Callers \ {k} : Job(j)' = Job(j)
  BY DEF Job, RangeDone
<1>3. Job(k) = [at |-> "called", iplist |-> call[k].iplist, sent |-> [c \in Conns |-> 0]]
  BY DEF Job
<1>4. CASE RangeDone(k)'
  <2> DEFINE sent == [c \in Conns |-> IF status[c] = "registered"
                                       THEN Occurrences(IdOf[c], job[k].iplist) ELSE 0]
  <2>1. call'[k].got \in [Conns -> Nat]
    BY DEF TypeOK
  <2>2. \A c \in Conns : call'[k].got[c] =
          IF pc[c] \in Served THEN Occurrences(IdOf[c], call[k].iplist) ELSE 0
    <3> SUFFICES ASSUME NEW c \in Conns
                 PROVE  call'[k].got[c] =
                          IF pc[c] \in Served THEN Occurrences(IdOf[c], call[k].iplist) ELSE 0
      OBVIOUS
    <3>1. call'[k].got[c] = IF pc'[c] \in Served THEN Occurrences(IdOf[c], call'[k].iplist) ELSE 0
      BY <1>4 DEF MulticastExact
    <3>2. pc' = pc /\ call'[k].iplist = call[k].iplist
      OBVIOUS
    <3> QED BY <3>1, <3>2
  <2>3. \A c \in Conns : status[c] = "registered" <=> pc[c] \in Served
    BY DEF ConnStatus
  <2>4. job[k].iplist = call[k].iplist
    BY <1>3
  <2>5. call'[k].got = sent
    BY <2>1, <2>2, <2>3, <2>4
  <2>6. Job(k)' = [at |-> "sent", iplist |-> call[k].iplist, sent |-> sent]
    BY <1>4, <2>5 DEF Job
  <2> HIDE DEF sent
  <2>7. job' = [job EXCEPT ![k] = [at |-> "sent", iplist |-> job[k].iplist, sent |-> sent]]
    BY <1>2, <2>4, <2>6
  <2>8. job[k].at = "called"
    BY <1>3
  <2> QED BY <1>1, <2>7, <2>8 DEF Reg!Next, Reg!Send, sent
<1>5. CASE ~ RangeDone(k)'
  <2>1. Job(k)' = Job(k)
    BY <1>3, <1>5 DEF Job
  <2>2. job' = job
    BY <1>2, <2>1
  <2> QED BY <1>1, <2>2 DEF Reg!regVars
<1> QED BY <1>4, <1>5

LEMMA CallerRefines ==
  ASSUME TypeOK, TypeOK', MulticastExact', NEW k \in Callers, Caller(k)
  PROVE  [Reg!Next]_(Reg!regVars)
<1> DEFINE status == [d \in Conns |-> ConnStatus(d)]
           job    == [j \in Callers |-> Job(j)]
           Idles(j) == Job(j) = [at |-> "idle", iplist |-> << >>, sent |-> [c \in Conns |-> 0]]
<1>1. pc' = pc
  BY DEF Caller, MulticastCall, MulticastLock, MulticastNext, MulticastSendLock,
         MulticastSendWrite, MulticastUnlock
<1>2. status' = status
  BY <1>1 DEF ConnStatus
<1>3. call[k] = NoCall => Idles(k)
  BY DEF Job, NoCall, RangeDone
<1>4. call'[k] = NoCall => Idles(k)'
  BY DEF Job, NoCall, RangeDone
<1>5. (\A j \in Callers \ {k} : call'[j] = call[j]) => \A j \in Callers \ {k} : Job(j)' = Job(j)
  BY DEF Job, RangeDone
<1>6. ASSUME NEW iplist \in IpLists, MulticastCall(k, iplist)
      PROVE  Reg!Call(k, iplist)
  <2>1. /\ call[k] = NoCall /\ \A j \in Callers \ {k} : call'[j] = call[j]
        /\ call'[k] = [NoCall EXCEPT !.at = "wait", !.iplist = iplist]
    BY <1>6 DEF MulticastCall, TypeOK
  <2>2. call'[k].at = "wait" /\ call'[k].iplist = iplist
    BY <2>1 DEF NoCall
  <2>3. Job(k)' = [at |-> "called", iplist |-> iplist, sent |-> [c \in Conns |-> 0]]
    BY <2>2 DEF Job, RangeDone
  <2>4. job' = [job EXCEPT ![k] = [at |-> "called", iplist |-> iplist, sent |-> [c \in Conns |-> 0]]]
    BY <1>5, <2>1, <2>3
  <2>5. job[k] = [at |-> "idle", iplist |-> << >>, sent |-> [c \in Conns |-> 0]]
    BY <1>3, <2>1
  <2> QED BY <1>2, <2>4, <2>5 DEF Reg!Call, Reg!NoJob, Reg!Nothing
<1>7. CASE MulticastLock(k)
  <2>1. /\ call[k].at = "wait" /\ ~ RangeDone(k)
        /\ call'[k].at = "range" /\ call'[k].iplist = call[k].iplist
        /\ \A j \in Callers \ {k} : call'[j] = call[j]
    BY <1>7 DEF MulticastLock, RangeDone, TypeOK
  <2> QED BY <1>1, <2>1, SendRefines
<1>8. ASSUME NEW c \in Conns, MulticastNext(k, c) PROVE [Reg!Next]_(Reg!regVars)
  <2>1. /\ call[k].at = "range" /\ ~ RangeDone(k)
        /\ call'[k].at = "range" /\ call'[k].iplist = call[k].iplist
        /\ \A j \in Callers \ {k} : call'[j] = call[j]
    BY <1>8 DEF MulticastNext, RangeDone, TypeOK
  <2> QED BY <1>1, <2>1, SendRefines
<1>9. CASE MulticastSendLock(k)
  <2>1. /\ call[k].at = "range" /\ ~ RangeDone(k)
        /\ call'[k].at = "write" /\ call'[k].iplist = call[k].iplist
        /\ \A j \in Callers \ {k} : call'[j] = call[j]
    BY <1>9 DEF MulticastSendLock, RangeDone, TypeOK
  <2> QED BY <1>1, <2>1, SendRefines
<1>10. CASE MulticastSendWrite(k)
  <2>1. /\ call[k].at = "write" /\ ~ RangeDone(k)
        /\ call'[k].at = "range" /\ call'[k].iplist = call[k].iplist
        /\ \A j \in Callers \ {k} : call'[j] = call[j]
    BY <1>10 DEF MulticastSendWrite, RangeDone, TypeOK
  <2> QED BY <1>1, <2>1, SendRefines
<1>11. CASE MulticastUnlock(k)
  <2>1. /\ RangeDone(k) /\ call[k].at # "idle" /\ call'[k] = NoCall
        /\ \A j \in Callers \ {k} : call'[j] = call[j]
    BY <1>11 DEF MulticastUnlock, RangeDone, TypeOK
  <2>2. job' = [job EXCEPT ![k] = [at |-> "idle", iplist |-> << >>, sent |-> [c \in Conns |-> 0]]]
    BY <1>4, <1>5, <2>1
  <2>3. job[k].at = "sent"
    BY <2>1 DEF Job
  <2> QED BY <1>2, <2>2, <2>3 DEF Reg!Next, Reg!Return, Reg!NoJob, Reg!Nothing
<1> QED
  BY <1>6, <1>7, <1>8, <1>9, <1>10, <1>11 DEF Caller, Reg!Next

\* The server implements the abstract registry: to those who call it, Multicast
\* is one moment, although ClientLock is the only thing that keeps clients from
\* coming and going while it writes to one after the other.
THEOREM ServerRefinesRegistry == Spec => RegistrySpec
<1>1. Init => Reg!Init
  <2> SUFFICES ASSUME Init PROVE Reg!Init
    OBVIOUS
  <2>1. \A c \in Conns : ConnStatus(c) = "new"
    BY DEF Init, ConnStatus, Served
  <2>2. \A k \in Callers : Job(k) = [at |-> "idle", iplist |-> << >>, sent |-> [c \in Conns |-> 0]]
    BY DEF Init, Job, NoCall, RangeDone
  <2> QED BY <2>1, <2>2 DEF Reg!Init, Reg!NoJob, Reg!Nothing
<1>2. TypeOK /\ ServerInv /\ TypeOK' /\ MulticastExact' /\ [Next]_vars => [Reg!Next]_(Reg!regVars)
  <2> SUFFICES ASSUME TypeOK, ServerInv, TypeOK', MulticastExact', [Next]_vars
               PROVE  [Reg!Next]_(Reg!regVars)
    OBVIOUS
  <2>1. ASSUME NEW w \in Workers, Worker(w) PROVE pc' = pc /\ call' = call
    BY <2>1 DEF Worker, HeartBeatMsg, HeartBeatRspLock, HeartBeatRspWrite, OtherMsg
  <2>2. ASSUME pc' = pc, call' = call PROVE UNCHANGED Reg!regVars
    BY <2>2, JobsKept DEF Reg!regVars, ConnStatus
  <2>3. CASE UNCHANGED vars
    BY <2>2, <2>3 DEF vars
  <2> QED BY <2>1, <2>2, <2>3, HandlerRefines, CallerRefines DEF Next
<1> QED
  BY <1>1, <1>2, ServerInvariant, MulticastCorrect, PTL DEF Spec, RegistrySpec, Reg!Spec
=============================================================================
