----------------------------- MODULE Discovery ------------------------------
(***************************************************************************)
(* How an agent process announces itself in etcd: main looks at the host   *)
(* (ColInit), takes a lease (ClientInit), opens the log (AgentInitLog) and *)
(* calls ClientDiscovery for each key; goroutines keep the lease alive.    *)
(* Each of these steps may panic.  etcd (not part of the repository) drops *)
(* a lease that is not kept alive, and the keys that were put with it.  A  *)
(* put replaces the lease that a key had before.                           *)
(***************************************************************************)
EXTENDS Integers, Sequences

CONSTANTS
  Infos,    \* the keys in the order in which main announces them
  Items,    \* the keys that DataCollect announces while the agent runs
  Leases,   \* leases that can exist at the same time
  NoLease   \* a key that was put without one

ASSUME DiscoveryAssumption ==
  Infos \in Seq(STRING) /\ Infos # << >> /\ NoLease \notin Leases /\ "pcapswitch" \notin Items

VARIABLES
  proc,    \* where main is: down, start, init, log, register or up
  next,    \* index of the next call of ClientDiscovery
  lease,   \* Etcdclient.Leaseid
  live,    \* the leases that etcd knows
  store,   \* per key: the value and the lease, or Absent
  etcdok   \* the process reaches etcd

discoveryVars == <<proc, next, lease, live, store, etcdok>>

Keys == {Infos[i] : i \in 1 .. Len(Infos)} \cup Items

Absent == [val |-> "", lease |-> NoLease]

\* What main puts: switches are OFF, everything else is some text.
Value(k) == IF k = "pcapswitch" THEN "OFF" ELSE "info"

DiscoveryInitial ==
  /\ proc = "down"
  /\ next = 1
  /\ lease = NoLease
  /\ live = {}
  /\ store = [k \in Keys |-> Absent]
  /\ etcdok = TRUE

\* The process ends.
ProcessEnds ==
  /\ proc' = "down"
  /\ next' = 1
  /\ lease' = NoLease

Start ==
  /\ proc = "down"
  /\ proc' = "start"
  /\ UNCHANGED <<next, lease, live, store, etcdok>>

\* The address and the memory of the host are found.
ColInit ==
  /\ proc = "start"
  /\ proc' = "init"
  /\ UNCHANGED <<next, lease, live, store, etcdok>>

\* The name that GetLocalIp dials is not resolved, or what lsmem prints has not
\* the fields that GetMem takes.
ColInitPanic ==
  /\ proc = "start"
  /\ ProcessEnds
  /\ UNCHANGED <<live, store, etcdok>>

\* Status answers and Grant returns a new lease.
ClientInit(l) ==
  /\ proc = "init"
  /\ etcdok
  /\ l \notin live
  /\ lease' = l
  /\ live' = live \cup {l}
  /\ proc' = "log"
  /\ UNCHANGED <<next, store, etcdok>>

\* Status or Grant fails: panic.
ClientInitPanic ==
  /\ proc = "init"
  /\ ~ etcdok
  /\ ProcessEnds
  /\ UNCHANGED <<live, store, etcdok>>

\* The log file that etcd names is opened.
AgentInitLog ==
  /\ proc = "log"
  /\ etcdok
  /\ proc' = "register"
  /\ UNCHANGED <<next, lease, live, store, etcdok>>

\* It cannot be opened; when etcd cannot be read its name is empty.
AgentInitLogPanic ==
  /\ proc = "log"
  /\ ProcessEnds
  /\ UNCHANGED <<live, store, etcdok>>

\* Mutant: a key that exists already is not put again.
PutIfAbsent(k, v, l) ==
  store' = IF store[k] = Absent THEN [store EXCEPT ![k] = [val |-> v, lease |-> l]] ELSE store

\* Mutant: the lease is not passed on.
PutNoLease(k, v, l) == store' = [store EXCEPT ![k] = [val |-> v, lease |-> NoLease]]

Put(k, v, l) == store' = [store EXCEPT ![k] = [val |-> v, lease |-> l]]

\* Mutant: the last key is left out.
ClientDiscoveryEarly ==
  /\ proc = "register"
  /\ etcdok
  /\ lease \in live
  /\ Put(Infos[next], Value(Infos[next]), lease)
  /\ next' = next + 1
  /\ proc' = IF next + 1 >= Len(Infos) THEN "up" ELSE "register"
  /\ UNCHANGED <<lease, live, etcdok>>

\* The key is put, KeepAlive returns a channel, a goroutine receives from it,
\* and main goes on to the next key or to RunAgent.
ClientDiscovery ==
  /\ proc = "register"
  /\ etcdok
  /\ lease \in live
  /\ Put(Infos[next], Value(Infos[next]), lease)
  /\ next' = next + 1
  /\ proc' = IF next = Len(Infos) THEN "up" ELSE "register"
  /\ UNCHANGED <<lease, live, etcdok>>

\* Put fails, or it succeeds and KeepAlive fails: panic.
ClientDiscoveryPanic ==
  /\ proc = "register"
  /\ ~ etcdok \/ lease \notin live
  /\ ProcessEnds
  /\ \/ UNCHANGED store
     \/ lease \in live /\ Put(Infos[next], Value(Infos[next]), lease)
  /\ UNCHANGED <<live, etcdok>>

\* MannualCollect calls ClientDiscovery for an item that was collected.
MannualCollect(k) ==
  /\ proc = "up"
  /\ etcdok
  /\ lease \in live
  /\ Put(k, Value(k), lease)
  /\ UNCHANGED <<proc, next, lease, live, etcdok>>

\* It panics there as it does in main.
MannualCollectPanic(k) ==
  /\ proc = "up"
  /\ ~ etcdok \/ lease \notin live
  /\ ProcessEnds
  /\ \/ UNCHANGED store
     \/ lease \in live /\ Put(k, Value(k), lease)
  /\ UNCHANGED <<live, etcdok>>

\* The channel of a lease that was lost is closed: keepResp is nil, and taking
\* its ID panics.  The branch that logs the failure tests keepRespChan, which is
\* not nil.
KeepAliveLost ==
  /\ proc \in {"register", "up"}
  /\ next > 1
  /\ ~ etcdok \/ lease \notin live
  /\ ProcessEnds
  /\ UNCHANGED <<live, store, etcdok>>

-----------------------------------------------------------------------------
(* etcd and who else uses it. *)

\* Lease l was not kept alive: its process ended, does not reach etcd, or has
\* not called ClientDiscovery yet.
Expire(l) ==
  /\ l \in live
  /\ l # lease \/ ~ etcdok \/ next = 1
  /\ live' = live \ {l}
  /\ store' = [k \in Keys |-> IF store[k].lease = l THEN Absent ELSE store[k]]
  /\ UNCHANGED <<proc, next, lease, etcdok>>

\* An operator sets the switch, without a lease.
SetSwitch(v) ==
  /\ Put("pcapswitch", v, NoLease)
  /\ UNCHANGED <<proc, next, lease, live, etcdok>>

Cut ==
  /\ etcdok' = ~ etcdok
  /\ UNCHANGED <<proc, next, lease, live, store>>

-----------------------------------------------------------------------------
\* A start that comes to nothing though etcd is in reach: the host is not as main
\* expects it, or the lease runs out before the first ClientDiscovery.
StartFails == ColInitPanic \/ AgentInitLogPanic \/ (next = 1 /\ lease # NoLease /\ Expire(lease))

\* Everything that main announced is there.
Listed == \A i \in 1 .. Len(Infos) : store[Infos[i]] # Absent
=============================================================================
