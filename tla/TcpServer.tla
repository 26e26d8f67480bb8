----------------------------- MODULE TcpServer ------------------------------
(***************************************************************************)
(* The server's connection registry: HandleConn goroutines that register,  *)
(* serve and remove connections, the HandleMsg goroutines they start, and  *)
(* the HTTP handlers that call Multicast, all around ClientLock, the       *)
(* Clients map, and one SendLock per connection.                           *)
(*                                                                         *)
(* Messages are abstracted to their type (module Framing models how they   *)
(* are cut out of the stream) and the age of a heartbeat to whether the    *)
(* client has sent one.  HandleConn, InValidClient and ListAliveAgents do  *)
(* nothing that blocks while they hold ClientLock, so their critical       *)
(* sections are single steps; Multicast holds it while it writes.          *)
(***************************************************************************)
EXTENDS Naturals, FiniteSets, Sequences

CONSTANTS
  Conns,    \* accepted connections
  Ids,      \* client ids: the IP address of the remote end
  NoId,     \* GetConnId failed (the address does not split into host and port)
  IdOf,     \* the result of GetConnId for each connection
  NoConn,   \* no client is registered
  Workers,  \* slots for concurrent HandleMsg goroutines
  Callers,  \* goroutines that call Multicast
  NoOne,    \* a lock is free
  IpLists   \* the iplist arguments of Multicast

ASSUME IdAssumption ==
  /\ NoId \notin Ids
  /\ IdOf \in [Conns -> Ids \cup {NoId}]
  /\ NoConn \notin Conns
ASSUME ThreadAssumption ==
  /\ Workers \cap Callers = {}
  /\ NoOne \notin Workers \cup Callers
ASSUME ListAssumption == IpLists \subseteq Seq(Ids)

VARIABLES
  ClientLock,  \* the Multicast caller that holds it, or NoOne
  Clients,     \* TcpServer.Clients: the connection registered for each id
  pc,          \* per connection: where its HandleConn goroutine is
  Valid,       \* TcpClient.Valid
  beat,        \* LastHeartbeatSyncTime is no longer its initial value
  SendLock,    \* TcpClient.SendLock: a worker, a caller or NoOne
  work,        \* per worker: its HandleMsg goroutine
  call         \* per caller: its Multicast call

vars == <<ClientLock, Clients, pc, Valid, beat, SendLock, work, call>>

\* The type of a message, as far as HandleMsg's effect here depends on it.
MsgTypes == {"HeartBeat_Msg", "other"}

\* The stations of HandleConn after the client is registered, up to the
\* moment InValidClient has removed it.
Served == {"judge", "read", "remove"}

\* A worker and a caller that have nothing to do.
Idle   == [at |-> "idle", conn |-> NoConn, type |-> "none"]
NoCall == [at |-> "idle", iplist |-> << >>, cur |-> NoConn, left |-> 0, todo |-> {},
           got |-> [c \in Conns |-> 0]]

\* A Multicast call that holds ClientLock.
Sending(k) == call[k].at \in {"range", "write"}

\* How often id occurs in iplist.
Occurrences(id, iplist) == Cardinality({i \in 1 .. Len(iplist) : iplist[i] = id})

Init ==
  /\ ClientLock = NoOne
  /\ Clients = [id \in Ids |-> NoConn]
  /\ pc = [c \in Conns |-> "none"]
  /\ Valid = [c \in Conns |-> TRUE]
  /\ beat = [c \in Conns |-> FALSE]
  /\ SendLock = [c \in Conns |-> NoOne]
  /\ work = [w \in Workers |-> Idle]
  /\ call = [k \in Callers |-> NoCall]

-----------------------------------------------------------------------------
(* HandleConn, one goroutine per connection. *)

Goto(c, station) == pc' = [pc EXCEPT ![c] = station]

\* Run accepts the connection and starts HandleConn.
Accept(c) ==
  /\ pc[c] = "none"
  /\ Goto(c, "accepted")
  /\ UNCHANGED <<ClientLock, Clients, Valid, beat, SendLock, work, call>>

\* GetConnId fails, the deferred Close runs.
ConnIdError(c) ==
  /\ pc[c] = "accepted"
  /\ IdOf[c] = NoId
  /\ Goto(c, "closed")
  /\ UNCHANGED <<ClientLock, Clients, Valid, beat, SendLock, work, call>>

\* Another connection of the same id is registered: this one is ignored.
RefuseConn(c) ==
  /\ pc[c] = "accepted"
  /\ IdOf[c] # NoId
  /\ ClientLock = NoOne
  /\ Clients[IdOf[c]] # NoConn
  /\ Goto(c, "closed")
  /\ UNCHANGED <<ClientLock, Clients, Valid, beat, SendLock, work, call>>

\* Mutant: a connection of a registered id takes the entry over.
RegisterConnAnyway(c) ==
  /\ pc[c] = "accepted"
  /\ IdOf[c] # NoId
  /\ ClientLock = NoOne
  /\ Clients' = [Clients EXCEPT ![IdOf[c]] = c]
  /\ Goto(c, "judge")
  /\ UNCHANGED <<ClientLock, Valid, beat, SendLock, work, call>>

\* NewClient, and its entry in the map.
RegisterConn(c) ==
  /\ pc[c] = "accepted"
  /\ IdOf[c] # NoId
  /\ ClientLock = NoOne
  /\ Clients[IdOf[c]] = NoConn
  /\ Clients' = [Clients EXCEPT ![IdOf[c]] = c]
  /\ Goto(c, "judge")
  /\ UNCHANGED <<ClientLock, Valid, beat, SendLock, work, call>>

\* The top of GetMsg's loop: the client is valid, Conn.Read is called.
JudgeValid(c) ==
  /\ pc[c] = "judge"
  /\ Valid[c]
  /\ Goto(c, "read")
  /\ UNCHANGED <<ClientLock, Clients, Valid, beat, SendLock, work, call>>

\* GetMsg returned an error and InValidClient has cleared Valid.
Fail(c) ==
  /\ Goto(c, "remove")
  /\ Valid' = [Valid EXCEPT ![c] = FALSE]
  /\ UNCHANGED <<ClientLock, Clients, beat, SendLock, work, call>>

\* Mutant: a failed write is not noticed here.
JudgeInvalidAgeOnly(c) ==
  /\ pc[c] = "judge"
  /\ beat[c]
  /\ Fail(c)

\* The client is not valid any more, or its last heartbeat is too old; before
\* the first heartbeat its age is not looked at.
JudgeInvalid(c) ==
  /\ pc[c] = "judge"
  /\ ~ Valid[c] \/ beat[c]
  /\ Fail(c)

\* Conn.Read timed out or the connection is gone.
ReadError(c) ==
  /\ pc[c] = "read"
  /\ Fail(c)

\* Conn.Read returned bytes that do not complete a frame.
ReadPart(c) ==
  /\ pc[c] = "read"
  /\ Goto(c, "judge")
  /\ UNCHANGED <<ClientLock, Clients, Valid, beat, SendLock, work, call>>

\* GetMsg returns a message, and a HandleMsg goroutine is started for it.
ReadMsg(c, w, type) ==
  /\ pc[c] = "read"
  /\ work[w] = Idle
  /\ work' = [work EXCEPT ![w] = [at |-> "start", conn |-> c, type |-> type]]
  /\ Goto(c, "judge")
  /\ UNCHANGED <<ClientLock, Clients, Valid, beat, SendLock, call>>

\* Mutant: InValidClient does not wait for ClientLock.
RemoveClientNoLock(c) ==
  /\ pc[c] = "remove"
  /\ Clients' = [Clients EXCEPT ![IdOf[c]] = NoConn]
  /\ Goto(c, "removed")
  /\ UNCHANGED <<ClientLock, Valid, beat, SendLock, work, call>>

\* The critical section of InValidClient: the entry of the client's id goes,
\* whichever connection it is for.
RemoveClient(c) ==
  /\ pc[c] = "remove"
  /\ ClientLock = NoOne
  /\ Clients' = [Clients EXCEPT ![IdOf[c]] = NoConn]
  /\ Goto(c, "removed")
  /\ UNCHANGED <<ClientLock, Valid, beat, SendLock, work, call>>

\* HandleConn returns and the deferred Close runs.
CloseConn(c) ==
  /\ pc[c] = "removed"
  /\ Goto(c, "closed")
  /\ UNCHANGED <<ClientLock, Clients, Valid, beat, SendLock, work, call>>

-----------------------------------------------------------------------------
(* SendMsg on connection c by goroutine p: lock, write, unlock. *)

\* Mutant: the lock is taken whether it is free or not.
SendMsgLockAnyway(c, p) == SendLock' = [SendLock EXCEPT ![c] = p]

SendMsgLock(c, p) ==
  /\ SendLock[c] = NoOne
  /\ SendLock' = [SendLock EXCEPT ![c] = p]

\* Mutant: the error path returns without unlocking.
SendMsgWriteLeak(c, p) ==
  /\ SendLock[c] = p
  /\ \/ /\ pc[c] # "closed" /\ Valid' = Valid
        /\ SendLock' = [SendLock EXCEPT ![c] = NoOne]
     \/ /\ Valid' = [Valid EXCEPT ![c] = FALSE]
        /\ SendLock' = SendLock

\* The write succeeds, if the connection is open, or fails and clears Valid;
\* either way the lock is released.
SendMsgWrite(c, p) ==
  /\ SendLock[c] = p
  /\ SendLock' = [SendLock EXCEPT ![c] = NoOne]
  /\ \/ pc[c] # "closed" /\ Valid' = Valid
     \/ Valid' = [Valid EXCEPT ![c] = FALSE]

-----------------------------------------------------------------------------
(* HandleMsg, one goroutine per message.  It is not tied to the handler of  *)
(* its connection and may run after that has returned.                      *)

\* HandleHeartBeatMsg up to its SendMsg.
HeartBeatMsg(w) ==
  /\ work[w].at = "start"
  /\ work[w].type = "HeartBeat_Msg"
  /\ beat' = [beat EXCEPT ![work[w].conn] = TRUE]
  /\ work' = [work EXCEPT ![w].at = "lock"]
  /\ UNCHANGED <<ClientLock, Clients, pc, Valid, SendLock, call>>

HeartBeatRspLock(w) ==
  /\ work[w].at = "lock"
  /\ SendMsgLock(work[w].conn, w)
  /\ work' = [work EXCEPT ![w].at = "write"]
  /\ UNCHANGED <<ClientLock, Clients, pc, Valid, beat, call>>

HeartBeatRspWrite(w) ==
  /\ work[w].at = "write"
  /\ SendMsgWrite(work[w].conn, w)
  /\ work' = [work EXCEPT ![w] = Idle]
  /\ UNCHANGED <<ClientLock, Clients, pc, beat, call>>

\* A handler that touches no state of the server: HandleShellRunRspMsg puts
\* the result into etcd, the default branch refuses the message, and every
\* handler returns at once when proto.Unmarshal fails.
OtherMsg(w) ==
  /\ work[w].at = "start"
  /\ work' = [work EXCEPT ![w] = Idle]
  /\ UNCHANGED <<ClientLock, Clients, pc, Valid, beat, SendLock, call>>

-----------------------------------------------------------------------------
(* Multicast: todo is what the range over Clients has not visited, left how *)
(* often cur still occurs in iplist, got (a history) the sends so far.      *)

MulticastCall(k, iplist) ==
  /\ call[k] = NoCall
  /\ call' = [call EXCEPT ![k] = [NoCall EXCEPT !.at = "wait", !.iplist = iplist]]
  /\ UNCHANGED <<ClientLock, Clients, pc, Valid, beat, SendLock, work>>

MulticastLock(k) ==
  /\ call[k].at = "wait"
  /\ ClientLock = NoOne
  /\ ClientLock' = k
  /\ call' = [call EXCEPT ![k].at = "range",
                          ![k].todo = {c \in Conns : \E id \in Ids : Clients[id] = c}]
  /\ UNCHANGED <<Clients, pc, Valid, beat, SendLock, work>>

\* The range moves to the next client, in no particular order.
MulticastNext(k, c) ==
  /\ call[k].at = "range"
  /\ call[k].left = 0
  /\ c \in call[k].todo
  /\ call' = [call EXCEPT ![k].cur = c, ![k].todo = @ \ {c},
                          ![k].left = Occurrences(IdOf[c], call[k].iplist)]
  /\ UNCHANGED <<ClientLock, Clients, pc, Valid, beat, SendLock, work>>

MulticastSendLock(k) ==
  /\ call[k].at = "range"
  /\ call[k].left > 0
  /\ SendMsgLock(call[k].cur, k)
  /\ call' = [call EXCEPT ![k].at = "write"]
  /\ UNCHANGED <<ClientLock, Clients, pc, Valid, beat, work>>

MulticastSendWrite(k) ==
  /\ call[k].at = "write"
  /\ SendMsgWrite(call[k].cur, k)
  /\ call' = [call EXCEPT ![k].at = "range", ![k].left = @ - 1,
                          ![k].got[call[k].cur] = @ + 1]
  /\ UNCHANGED <<ClientLock, Clients, pc, beat, work>>

RangeDone(k) == call[k].at = "range" /\ call[k].left = 0 /\ call[k].todo = {}

MulticastUnlock(k) ==
  /\ RangeDone(k)
  /\ ClientLock' = NoOne
  /\ call' = [call EXCEPT ![k] = NoCall]
  /\ UNCHANGED <<Clients, pc, Valid, beat, SendLock, work>>

-----------------------------------------------------------------------------
Handler(c) ==
  \/ Accept(c) \/ ConnIdError(c) \/ RefuseConn(c) \/ RegisterConn(c)
  \/ JudgeValid(c) \/ JudgeInvalid(c)
  \/ ReadError(c) \/ ReadPart(c) \/ \E w \in Workers, type \in MsgTypes : ReadMsg(c, w, type)
  \/ RemoveClient(c) \/ CloseConn(c)

Worker(w) ==
  \/ HeartBeatMsg(w) \/ HeartBeatRspLock(w) \/ HeartBeatRspWrite(w)
  \/ OtherMsg(w)

Caller(k) ==
  \/ \E iplist \in IpLists : MulticastCall(k, iplist)
  \/ MulticastLock(k)
  \/ \E c \in Conns : MulticastNext(k, c)
  \/ MulticastSendLock(k) \/ MulticastSendWrite(k) \/ MulticastUnlock(k)

Next ==
  \/ \E c \in Conns : Handler(c)
  \/ \E w \in Workers : Worker(w)
  \/ \E k \in Callers : Caller(k)

Spec == Init /\ [][Next]_vars

\* Goroutines run; Conn.Read and Conn.Write end by their deadlines; a waiter
\* for a sync.Mutex gets it if it is released again and again (a waiter that
\* has waited for a millisecond is handed the mutex).  Peers need not connect.
Fairness ==
  /\ \A c \in Conns :
       /\ WF_vars(ConnIdError(c) \/ JudgeValid(c) \/ JudgeInvalid(c) \/ CloseConn(c))
       /\ WF_vars(ReadError(c) \/ ReadPart(c)
                    \/ \E w \in Workers, type \in MsgTypes : ReadMsg(c, w, type))
       /\ SF_vars(RefuseConn(c) \/ RegisterConn(c))
       /\ SF_vars(RemoveClient(c))
  /\ \A w \in Workers :
       /\ WF_vars(HeartBeatMsg(w) \/ OtherMsg(w))
       /\ SF_vars(HeartBeatRspLock(w))
       /\ WF_vars(HeartBeatRspWrite(w))
  /\ \A k \in Callers :
       /\ SF_vars(MulticastLock(k))
       /\ WF_vars(MulticastUnlock(k) \/ \E c \in Conns : MulticastNext(k, c))
       /\ SF_vars(MulticastSendLock(k))
       /\ WF_vars(MulticastSendWrite(k))

FairSpec == Spec /\ Fairness

-----------------------------------------------------------------------------
(* Properties. *)

TypeOK ==
  /\ ClientLock \in Callers \cup {NoOne}
  /\ Clients \in [Ids -> Conns \cup {NoConn}]
  /\ pc \in [Conns -> {"none", "accepted", "removed", "closed"} \cup Served]
  /\ Valid \in [Conns -> BOOLEAN]
  /\ beat \in [Conns -> BOOLEAN]
  /\ SendLock \in [Conns -> Workers \cup Callers \cup {NoOne}]
  /\ work \in [Workers -> [at : {"idle", "start", "lock", "write"},
                           conn : Conns \cup {NoConn}, type : MsgTypes \cup {"none"}]]
  /\ call \in [Callers -> [at : {"idle", "wait", "range", "write"},
                           iplist : Seq(Ids), cur : Conns \cup {NoConn}, left : Nat,
                           todo : SUBSET Conns, got : [Conns -> Nat]]]

\* Clients holds exactly the connections whose HandleConn is between
\* registration and removal.  InValidClient deletes by id and does not look
\* whose entry it deletes; still no live connection ever loses its entry, and
\* no entry outlives its connection.
RegistryMatchesHandlers ==
  \A c \in Conns, id \in Ids :
    Clients[id] = c <=> IdOf[c] = id /\ pc[c] \in Served

\* Two goroutines never write to a connection at the same time, which is
\* what keeps frames whole.
ExclusiveWrite ==
  LET Writers(c) == {w \in Workers : work[w].at = "write" /\ work[w].conn = c}
                      \cup {k \in Callers : call[k].at = "write" /\ call[k].cur = c}
  IN  \A c \in Conns : \A p, q \in Writers(c) : p = q

\* Multicast writes only to connections that are registered, hence open, for
\* as long as it runs, and when its range ends it has tried to send to each
\* registered client as often as the client's id occurs in iplist, and to no
\* other connection.
MulticastExact ==
  \A k \in Callers :
    /\ call[k].at = "write" => pc[call[k].cur] \in Served
    /\ RangeDone(k) =>
         \A c \in Conns :
           call[k].got[c] = IF pc[c] \in Served THEN Occurrences(IdOf[c], call[k].iplist)
                                                ELSE 0

\* The entry of an id changes only by the step in which its own connection's
\* handler removes it, or from empty.
EntryRemovedByOwner ==
  [][\A id \in Ids : Clients[id] # NoConn /\ Clients'[id] # Clients[id] =>
       /\ Clients'[id] = NoConn
       /\ pc[Clients[id]] = "remove" /\ pc'[Clients[id]] = "removed"]_vars

\* The goroutine that p waits for, if it waits for a lock that is taken.
WaitsFor(p) ==
  IF p \in Workers /\ work[p].at = "lock" THEN SendLock[work[p].conn]
  ELSE IF p \in Callers /\ call[p].at = "wait" THEN ClientLock
  ELSE IF p \in Callers /\ call[p].at = "range" /\ call[p].left > 0 THEN SendLock[call[p].cur]
  ELSE NoOne

\* p is busy and waits for no lock: it computes, or is in Conn.Write, which ends
\* by its deadline.
CanGo(p) ==
  /\ \/ p \in Workers /\ work[p].at # "idle"
     \/ p \in Callers /\ call[p].at # "idle"
  /\ WaitsFor(p) = NoOne

\* Multicast takes SendLocks while it holds ClientLock, HandleMsg takes them
\* without it, and SendMsg has an error path: still whoever holds a lock can go
\* on, or waits for somebody who can.  No lock is left behind by a goroutine that
\* has returned, and no goroutines wait for each other.
NoCircularWait ==
  \A p \in {ClientLock} \cup {SendLock[c] : c \in Conns} :
    p # NoOne => CanGo(p) \/ CanGo(WaitsFor(p))

\* A connection and a call as the callers of Multicast see them.
ConnStatus(c) ==
  IF pc[c] \in Served THEN "registered"
  ELSE IF pc[c] \in {"removed", "closed"} THEN "gone" ELSE "new"
Job(k) ==
  [at     |-> IF call[k].at = "idle" THEN "idle" ELSE IF RangeDone(k) THEN "sent" ELSE "called",
   iplist |-> call[k].iplist,
   sent   |-> IF RangeDone(k) THEN call[k].got ELSE [c \in Conns |-> 0]]

\* Multicast has its effect in one moment, that at which its range over Clients
\* ends, though it writes to one connection after the other while clients
\* connect, fail and are removed.
Reg == INSTANCE Registry WITH Times  <- Occurrences,
                              status <- [c \in Conns |-> ConnStatus(c)],
                              job    <- [k \in Callers |-> Job(k)]
RegistrySpec == Reg!Spec

(***************************************************************************)
(* The inductive invariant behind the properties above.                    *)
(***************************************************************************)

\* ClientLock is held by the Multicast call that is sending.
ClientLockInv == \A k \in Callers : Sending(k) <=> ClientLock = k

\* A goroutine that writes to a connection holds its SendLock.
SendLockInv ==
  /\ \A w \in Workers : work[w].at = "write" =>
       work[w].conn \in Conns /\ SendLock[work[w].conn] = w
  /\ \A k \in Callers : call[k].at = "write" =>
       call[k].cur \in Conns /\ SendLock[call[k].cur] = k
  /\ \A w \in Workers : work[w].at \in {"start", "lock"} => work[w].conn \in Conns

\* What Multicast has sent to c so far, given what its range has visited.
GotSoFar(k, c) ==
  IF pc[c] \notin Served \/ c \in call[k].todo THEN 0
  ELSE IF c = call[k].cur THEN Occurrences(IdOf[c], call[k].iplist) - call[k].left
  ELSE Occurrences(IdOf[c], call[k].iplist)

\* Multicast visits registered clients only; its counts agree with its sends.
RangeOK(k) ==
  /\ \A c \in call[k].todo : pc[c] \in Served
  /\ call[k].cur # NoConn => /\ pc[call[k].cur] \in Served
                             /\ call[k].cur \notin call[k].todo
  /\ call[k].left <= IF call[k].cur = NoConn THEN 0
                     ELSE Occurrences(IdOf[call[k].cur], call[k].iplist)
  /\ call[k].at = "write" => call[k].left > 0
  /\ \A c \in Conns : call[k].got[c] = GotSoFar(k, c)

\* A waiting call has sent nothing.
WaitOK(k) ==
  /\ call[k].cur = NoConn /\ call[k].left = 0
  /\ \A c \in Conns : call[k].got[c] = 0

CallInv ==
  \A k \in Callers : /\ Sending(k) => RangeOK(k)
                     /\ call[k].at = "wait" => WaitOK(k)

\* A connection without an id is not served.
IdInv == \A c \in Conns : pc[c] \in Served => IdOf[c] \in Ids

\* A SendLock is held by a goroutine that writes to the connection: what
\* NoCircularWait needs beyond ServerInv.
HolderInv ==
  \A c \in Conns :
    /\ SendLock[c] \in Workers => work[SendLock[c]].at = "write" /\ work[SendLock[c]].conn = c
    /\ SendLock[c] \in Callers => call[SendLock[c]].at = "write" /\ call[SendLock[c]].cur = c

ServerInv ==
  /\ RegistryMatchesHandlers
  /\ IdInv
  /\ ClientLockInv
  /\ SendLockInv
  /\ CallInv

\* A client whose write failed is removed and its connection closed, also
\* when Multicast keeps taking ClientLock.
InvalidClientGoes ==
  \A c \in Conns : pc[c] \in Served /\ ~ Valid[c] ~> pc[c] = "closed"

\* Every Multicast returns, although it waits for SendLocks and writes while
\* it holds ClientLock.
MulticastReturns ==
  \A k \in Callers : call[k].at = "wait" ~> call[k].at = "idle"
=============================================================================
