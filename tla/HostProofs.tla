----------------------------- MODULE HostProofs -----------------------------
(* Proofs about module Host, for any keys, leases, handles and capacity. *)
EXTENDS Host, TLAPS

EntryType == [val : {"", "ON", "OFF", "info"}, lease : Leases \cup {NoLease}]

HandleType == [open : BOOLEAN, stop : BOOLEAN, queue : 0 .. Cap,
               reader : {"idle", "read", "send", "done"}]

\* What HostInv says of the announcement, and of the capture.
AnnounceTypes ==
  /\ proc \in {"down", "start", "init", "log", "register", "up"}
  /\ next \in 1 .. Len(Infos) + 1
  /\ lease \in Leases \cup {NoLease} /\ live \subseteq Leases
  /\ store \in [Keys -> EntryType]
  /\ \A k \in Keys : store[k].lease \in live \cup {NoLease}

FlagTypes == etcdok \in BOOLEAN /\ asked \in BOOLEAN

AnnounceInv == AnnounceTypes /\ FlagTypes /\ Progress /\ Announced /\ SwitchStands

CaptureInv ==
  /\ conn \in BOOLEAN
  /\ pc \in {"top", "init", "start", "range", "check", "write", "close"}
  /\ Handle \in Handles \cup {NoHandle}
  /\ handle \in [Handles -> HandleType]
  /\ C!InUse => Handle \in Handles /\ handle[Handle].open
  /\ pc = "start" /\ Handle # NoHandle => handle[Handle].open /\ ~ handle[Handle].stop
  /\ RangedIsOpen /\ NoUseAfterClose

\* What relates the two.
SharedInv == pc # "top" => proc = "up"

LEMMA LenInfos == Len(Infos) \in Nat /\ \A i \in 1 .. Len(Infos) : Infos[i] \in Keys
BY DiscoveryAssumption DEF Keys

LEMMA EntryOf ==
  ASSUME NEW r, NEW L, L \subseteq Leases
  PROVE  r \in [val : {"", "ON", "OFF", "info"}, lease : L \cup {NoLease}]
         <=> r \in EntryType /\ r.lease \in L \cup {NoLease}
BY DEF EntryType

LEMMA Split == HostInv <=> AnnounceInv /\ CaptureInv /\ SharedInv
BY EntryOf DEF HostInv, TypeOK, HandleOpen, AnnounceInv, CaptureInv, SharedInv, HandleType, EntryType, AnnounceTypes, FlagTypes

LEMMA SplitNext == AnnounceInv' /\ CaptureInv' /\ SharedInv' => HostInv'
BY EntryOf DEF HostInv, TypeOK, HandleOpen, AnnounceInv, CaptureInv, SharedInv, HandleType, EntryType, AnnounceTypes, FlagTypes

-----------------------------------------------------------------------------
(* The announcement. *)

LEMMA PutEffect ==
  ASSUME AnnounceTypes, NEW k \in Keys, NEW v \in {"", "ON", "OFF", "info"},
         NEW l \in live \cup {NoLease}, Put(k, v, l)
  PROVE  /\ store' \in [Keys -> EntryType]
         /\ store'[k].val = v /\ store'[k].lease = l
         /\ \A j \in Keys : j # k => store'[j] = store[j]
         /\ \A j \in Keys : store'[j].lease \in live \cup {NoLease}
<1> DEFINE r == [val |-> v, lease |-> l]
<1>1. r \in EntryType /\ r.val = v /\ r.lease = l
  BY DEF AnnounceTypes, EntryType
<1> HIDE DEF r
<1>2. store' = [store EXCEPT ![k] = r]
  BY DEF Put, r
<1>3. store \in [Keys -> EntryType]
  BY DEF AnnounceTypes
<1>4. store' \in [Keys -> EntryType] /\ store'[k] = r /\ \A j \in Keys : j # k => store'[j] = store[j]
  BY <1>1, <1>2, <1>3
<1> QED
  BY <1>1, <1>4 DEF AnnounceTypes

LEMMA ValueType == \A k : Value(k) \in {"", "ON", "OFF", "info"} /\ Value(k) # ""
BY DEF Value

\* A process that ends leaves nothing to say about its announcement.
LEMMA EndsAnnounce ==
  ASSUME AnnounceInv, ProcessEnds, UNCHANGED <<live, etcdok, asked>>,
         store' \in [Keys -> EntryType],
         \A k \in Keys : store'[k].lease \in live \cup {NoLease}
  PROVE  AnnounceInv'
<1>1. AnnounceTypes'
  BY LenInfos DEF AnnounceInv, AnnounceTypes, ProcessEnds
<1>2. FlagTypes'
  BY Zenon DEF AnnounceInv, FlagTypes
<1>3. ~ \E i \in 1 .. next' - 1 : TRUE
  BY DEF ProcessEnds
<1>4. Progress' /\ Announced'
  BY <1>3 DEF Progress, Announced, ProcessEnds
<1>5. SwitchStands'
  BY <1>3, Zenon DEF SwitchStands
<1> QED
  BY <1>1, <1>2, <1>4, <1>5 DEF AnnounceInv

LEMMA PanicAnnounce == AnnounceInv /\ Panic => AnnounceInv'
<1> SUFFICES ASSUME AnnounceInv, Panic PROVE AnnounceInv'
  OBVIOUS
<1>1. ProcessEnds /\ UNCHANGED <<live, etcdok, asked>>
  BY DEF Panic, ColInitPanic, ClientInitPanic, AgentInitLogPanic, ClientDiscoveryPanic, KeepAliveLost,
         MannualCollectPanic
<1>2. store' = store \/ \E k \in Keys : lease \in live /\ Put(k, Value(k), lease)
  <2>1. CASE ColInitPanic \/ ClientInitPanic \/ AgentInitLogPanic \/ KeepAliveLost \/ UNCHANGED store
    BY <2>1, Zenon DEF ColInitPanic, ClientInitPanic, AgentInitLogPanic, KeepAliveLost
  <2>2. CASE ClientDiscoveryPanic
    <3>1. proc = "register" /\ (store' = store \/ (lease \in live /\ Put(Infos[next], Value(Infos[next]), lease)))
      BY <2>2, Zenon DEF ClientDiscoveryPanic
    <3>2. Infos[next] \in Keys
      BY <3>1, LenInfos DEF AnnounceInv, AnnounceTypes, Progress
    <3> QED
      BY <3>1, <3>2, Zenon
  <2>3. CASE \E k \in Items : MannualCollectPanic(k)
    BY <2>3, Zenon DEF MannualCollectPanic, Keys
  <2> QED
    BY <2>1, <2>2, <2>3, Zenon DEF Panic
<1>3. store' \in [Keys -> EntryType] /\ \A k \in Keys : store'[k].lease \in live \cup {NoLease}
  <2>1. CASE store' = store
    BY <2>1 DEF AnnounceInv, AnnounceTypes
  <2>2. CASE \E k \in Keys : lease \in live /\ Put(k, Value(k), lease)
    BY <2>2, PutEffect, ValueType DEF AnnounceInv
  <2> QED
    BY <1>2, <2>1, <2>2
<1> QED
  BY <1>1, <1>3, EndsAnnounce

\* main goes on from one step to the next before it announces anything.
LEMMA StartAnnounce ==
  ASSUME AnnounceInv, Start \/ ColInit \/ AgentInitLog, FlagTypes'
  PROVE  AnnounceInv'
<1>4. /\ UNCHANGED <<next, lease, live, store>> /\ proc \in {"down", "start", "log"}
      /\ proc' \in {"start", "init", "register"}
  BY DEF Start, ColInit, AgentInitLog
<1>5. next = 1
  BY <1>4 DEF AnnounceInv, Progress
<1>1. AnnounceTypes' /\ Progress'
  BY <1>4, <1>5, LenInfos, DiscoveryAssumption DEF AnnounceInv, AnnounceTypes, Progress
<1>2. Announced'
  BY <1>4, Zenon DEF AnnounceInv, Announced
<1>3. SwitchStands'
  <2>2. ~ \E i \in 1 .. next' - 1 : TRUE
    BY <1>4, <1>5
  <2> QED
    BY <2>2, Zenon DEF SwitchStands
<1> QED
  BY <1>1, <1>2, <1>3 DEF AnnounceInv

LEMMA ClientInitAnnounce ==
  ASSUME AnnounceInv, NEW l \in Leases, ClientInit(l), FlagTypes'
  PROVE  AnnounceInv'
<1>1. /\ proc = "init" /\ proc' = "log" /\ lease' = l /\ live' = live \cup {l}
      /\ UNCHANGED <<next, store, etcdok>>
  BY Zenon DEF ClientInit
<1>2. next = 1
  BY <1>1 DEF AnnounceInv, Progress
<1>3. ~ \E i \in 1 .. next' - 1 : TRUE
  BY <1>1, <1>2
<1>4. AnnounceTypes'
  BY <1>1, LenInfos DEF AnnounceInv, AnnounceTypes
<1>5. Progress' /\ Announced'
  <2>1. Progress'
    BY <1>1, <1>2, LenInfos, DiscoveryAssumption DEF Progress
  <2> QED
    BY <2>1, <1>3, Zenon DEF Announced
<1>6. SwitchStands'
  BY <1>3, Zenon DEF SwitchStands
<1> QED
  BY <1>4, <1>5, <1>6 DEF AnnounceInv

LEMMA ClientDiscoveryAnnounce ==
  ASSUME AnnounceInv, ClientDiscovery, FlagTypes',
         ~ asked' => ~ asked \/ Infos[next] = "pcapswitch"
  PROVE  AnnounceInv'
<1>3. /\ proc = "register" /\ next' = next + 1 /\ UNCHANGED <<lease, live, etcdok>>
      /\ proc' = (IF next = Len(Infos) THEN "up" ELSE "register")
      /\ lease \in live
      /\ Put(Infos[next], Value(Infos[next]), lease)
  BY Zenon DEF ClientDiscovery
<1>1. next \in 1 .. Len(Infos) /\ Infos[next] \in Keys
  BY <1>3, LenInfos DEF AnnounceInv, AnnounceTypes, Progress
<1>7. 1 .. next' - 1 = 1 .. next
  <2>1. next \in Int /\ next' = next + 1
    BY <1>1, <1>3, LenInfos
  <2> QED
    BY <2>1
<1> PICK k \in Keys : k = Infos[next]
  BY <1>1
<1>2. /\ store' \in [Keys -> EntryType]
      /\ store'[k].val = Value(k) /\ store'[k].lease = lease
      /\ \A j \in Keys : j # k => store'[j] = store[j]
      /\ \A j \in Keys : store'[j].lease \in live \cup {NoLease}
  <2>1. Put(k, Value(k), lease) /\ lease \in live \cup {NoLease} /\ AnnounceTypes
    BY <1>3, Zenon DEF AnnounceInv
  <2>2. Value(k) \in {"", "ON", "OFF", "info"}
    BY ValueType, Zenon
  <2> QED
    BY <2>1, <2>2, PutEffect, Zenon
<1>4. Progress' /\ Announced'
  <2>1. \A i \in 1 .. next' - 1 : store'[Infos[i]].val # "" /\ store'[Infos[i]].lease \in {lease, NoLease}
    <3> SUFFICES ASSUME NEW i \in 1 .. next
                 PROVE  store'[Infos[i]].val # "" /\ store'[Infos[i]].lease \in {lease, NoLease}
      BY <1>7, Zenon
    <3>1. Infos[i] \in Keys
      BY <1>1, LenInfos
    <3>2. CASE Infos[i] = k
      BY <1>2, <3>2, ValueType
    <3>3. CASE Infos[i] # k
      <4>1. i \in 1 .. next - 1
        BY <3>3, <1>1, LenInfos
      <4> QED
        BY <4>1, <3>1, <3>3, <1>2, <1>3 DEF AnnounceInv, Announced
    <3> QED
      BY <3>2, <3>3
  <2>2. Progress'
    BY <1>1, <1>3, LenInfos DEF Progress
  <2> QED
    BY <2>1, <2>2, <1>3, Zenon DEF Announced
<1>5. SwitchStands'
  <2> SUFFICES ASSUME ~ asked', NEW i \in 1 .. next, Infos[i] = "pcapswitch"
               PROVE  store'["pcapswitch"].val = "OFF"
    <3>2. lease' \in live'
      BY <1>3, Zenon
    <3> QED
      BY <1>7, <3>2, Zenon DEF SwitchStands
  <2>1. CASE k = "pcapswitch"
    BY <2>1, <1>2 DEF Value
  <2>2. CASE k # "pcapswitch"
    <3>1. i \in 1 .. next - 1
      BY <2>2, <1>1, LenInfos
    <3>2. ~ asked
      BY <2>2, Zenon
    <3>3. store["pcapswitch"].val = "OFF"
      BY <3>1, <3>2, Zenon DEF AnnounceInv, SwitchStands
    <3> QED
      BY <3>3, <2>2, <1>2, HostAssumption
  <2> QED
    BY <2>1, <2>2
<1>6. AnnounceTypes'
  BY <1>1, <1>2, <1>3, LenInfos DEF AnnounceInv, AnnounceTypes
<1> QED
  BY <1>4, <1>5, <1>6 DEF AnnounceInv

LEMMA MannualCollectAnnounce ==
  ASSUME AnnounceInv, NEW k \in Items, MannualCollect(k), UNCHANGED asked
  PROVE  AnnounceInv'
<1>1. Put(k, Value(k), lease) /\ lease \in live /\ UNCHANGED <<proc, next, lease, live, etcdok>>
  BY Zenon DEF MannualCollect
<1>2. k \in Keys /\ k # "pcapswitch"
  BY DiscoveryAssumption DEF Keys
<1>3. /\ store' \in [Keys -> EntryType]
      /\ store'[k].val = Value(k) /\ store'[k].lease = lease
      /\ \A j \in Keys : j # k => store'[j] = store[j]
      /\ \A j \in Keys : store'[j].lease \in live \cup {NoLease}
  <2>1. lease \in live \cup {NoLease} /\ AnnounceTypes
    BY <1>1, Zenon DEF AnnounceInv
  <2>2. Value(k) \in {"", "ON", "OFF", "info"}
    BY ValueType, Zenon
  <2> QED
    BY <1>1, <1>2, <2>1, <2>2, PutEffect, Zenon
<1>4. AnnounceTypes' /\ Progress'
  BY <1>1, <1>3 DEF AnnounceInv, AnnounceTypes, Progress
<1>5. Announced'
  <2> SUFFICES ASSUME NEW i \in 1 .. next - 1
               PROVE  store'[Infos[i]].val # "" /\ store'[Infos[i]].lease \in {lease, NoLease}
    BY <1>1, Zenon DEF Announced
  <2>1. Infos[i] \in Keys
    BY LenInfos DEF AnnounceInv, AnnounceTypes
  <2>2. store[Infos[i]].val # "" /\ store[Infos[i]].lease \in {lease, NoLease}
    BY <1>1, Zenon DEF AnnounceInv, Announced
  <2> QED
    BY <2>1, <2>2, <1>3, ValueType
<1>6. store'["pcapswitch"] = store["pcapswitch"]
  BY <1>2, <1>3, HostAssumption
<1>7. FlagTypes' /\ SwitchStands'
  BY <1>1, <1>6, Zenon DEF AnnounceInv, FlagTypes, SwitchStands
<1> QED
  BY <1>4, <1>5, <1>7 DEF AnnounceInv

LEMMA ExpireAnnounce ==
  ASSUME AnnounceInv, NEW l \in Leases, Expire(l), FlagTypes',
         ~ asked' => ~ asked /\ l # lease
  PROVE  AnnounceInv'
<1>1. /\ l \in live /\ live' = live \ {l} /\ UNCHANGED <<proc, next, lease, etcdok>>
      /\ store' = [k \in Keys |-> IF store[k].lease = l THEN Absent ELSE store[k]]
  BY Zenon DEF Expire
<1>2. Absent \in EntryType /\ Absent.lease = NoLease
  BY DEF Absent, EntryType
<1>3. \A k \in Keys : IF store[k].lease = l THEN store'[k] = Absent ELSE store'[k] = store[k]
  BY <1>1
<1>4. store' \in [Keys -> EntryType]
  BY <1>1, <1>2 DEF AnnounceInv, AnnounceTypes
<1>5. \A k \in Keys : store'[k].lease \in live' \cup {NoLease}
  BY <1>1, <1>2, <1>3 DEF AnnounceInv, AnnounceTypes
<1>6. AnnounceTypes' /\ Progress'
  BY <1>1, <1>4, <1>5 DEF AnnounceInv, AnnounceTypes, Progress
<1>7. lease' \in live' => lease \in live /\ l # lease
  BY <1>1
<1>8. Announced'
  <2> SUFFICES ASSUME lease \in live, l # lease, NEW i \in 1 .. next - 1
               PROVE  store'[Infos[i]].val # "" /\ store'[Infos[i]].lease \in {lease, NoLease}
    BY <1>1, <1>7, Zenon DEF Announced
  <2>1. Infos[i] \in Keys
    BY LenInfos DEF AnnounceInv, AnnounceTypes
  <2>2. store[Infos[i]].val # "" /\ store[Infos[i]].lease \in {lease, NoLease}
    BY Zenon DEF AnnounceInv, Announced
  <2>3. NoLease # l
    BY DiscoveryAssumption
  <2> QED
    BY <2>1, <2>2, <2>3, <1>3
<1>9. SwitchStands'
  <2> SUFFICES ASSUME ~ asked', NEW i \in 1 .. next - 1, Infos[i] = "pcapswitch"
               PROVE  store'["pcapswitch"].val = "OFF" /\ lease' \in live'
    BY <1>1, Zenon DEF SwitchStands
  <2>1. l # lease
    BY Zenon
  <2>2. store["pcapswitch"].val = "OFF" /\ lease \in live
    BY Zenon DEF AnnounceInv, SwitchStands
  <2>3. lease' \in live'
    BY <1>1, <2>1, <2>2
  <2>4. store[Infos[i]].lease \in {lease, NoLease}
    BY <2>2, Zenon DEF AnnounceInv, Announced
  <2>5. store'["pcapswitch"] = store["pcapswitch"]
    BY <2>1, <2>4, <1>3, HostAssumption, DiscoveryAssumption
  <2> QED
    BY <2>2, <2>3, <2>5, Zenon
<1> QED
  BY <1>6, <1>8, <1>9 DEF AnnounceInv

LEMMA SetSwitchAnnounce ==
  ASSUME AnnounceInv, NEW v \in {"ON", "OFF"}, SetSwitch(v), FlagTypes',
         ~ asked' => ~ asked /\ v # "ON"
  PROVE  AnnounceInv'
<1>1. Put("pcapswitch", v, NoLease) /\ UNCHANGED <<proc, next, lease, live, etcdok>>
  BY Zenon DEF SetSwitch
<1>2. /\ store' \in [Keys -> EntryType]
      /\ store'["pcapswitch"].val = v /\ store'["pcapswitch"].lease = NoLease
      /\ \A j \in Keys : j # "pcapswitch" => store'[j] = store[j]
      /\ \A j \in Keys : store'[j].lease \in live \cup {NoLease}
  <2>1. "pcapswitch" \in Keys /\ NoLease \in live \cup {NoLease} /\ AnnounceTypes
    BY HostAssumption DEF AnnounceInv
  <2>2. v \in {"", "ON", "OFF", "info"}
    OBVIOUS
  <2> QED
    BY <1>1, <2>1, <2>2, PutEffect, Zenon
<1>3. AnnounceTypes' /\ Progress'
  BY <1>1, <1>2 DEF AnnounceInv, AnnounceTypes, Progress
<1>4. Announced'
  <2> SUFFICES ASSUME lease \in live, NEW i \in 1 .. next - 1
               PROVE  store'[Infos[i]].val # "" /\ store'[Infos[i]].lease \in {lease, NoLease}
    BY <1>1, Zenon DEF Announced
  <2>1. Infos[i] \in Keys
    BY LenInfos DEF AnnounceInv, AnnounceTypes
  <2>2. store[Infos[i]].val # "" /\ store[Infos[i]].lease \in {lease, NoLease}
    BY Zenon DEF AnnounceInv, Announced
  <2> QED
    BY <2>1, <2>2, <1>2
<1>5. ~ asked' => store'["pcapswitch"].val = "OFF"
  BY <1>2
<1>6. SwitchStands'
  BY <1>1, <1>5, Zenon DEF AnnounceInv, SwitchStands
<1> QED
  BY <1>3, <1>4, <1>6 DEF AnnounceInv

LEMMA CutAnnounce ==
  ASSUME AnnounceInv, Cut, FlagTypes', ~ asked' => ~ asked
  PROVE  AnnounceInv'
<1>1. UNCHANGED <<proc, next, lease, live, store>>
  BY Zenon DEF Cut
<1>2. AnnounceTypes' /\ Progress'
  BY <1>1 DEF AnnounceInv, AnnounceTypes, Progress
<1>3. Announced' /\ SwitchStands'
  BY <1>1, Zenon DEF AnnounceInv, Announced, SwitchStands
<1> QED
  BY <1>2, <1>3 DEF AnnounceInv

LEMMA SameAnnounce == AnnounceInv /\ UNCHANGED <<discoveryVars, asked>> => AnnounceInv'
<1> SUFFICES ASSUME AnnounceInv, UNCHANGED <<discoveryVars, asked>> PROVE AnnounceInv'
  OBVIOUS
<1>1. UNCHANGED <<proc, next, lease, live, store>> /\ UNCHANGED <<etcdok, asked>>
  BY Zenon DEF discoveryVars
<1>2. AnnounceTypes' /\ Progress'
  BY <1>1 DEF AnnounceInv, AnnounceTypes, Progress
<1>3. FlagTypes' /\ Announced' /\ SwitchStands'
  <2>1. FlagTypes'
    BY <1>1, Zenon DEF AnnounceInv, FlagTypes
  <2>2. Announced'
    BY <1>1, Zenon DEF AnnounceInv, Announced
  <2>3. SwitchStands'
    <3> SUFFICES ASSUME ~ asked', NEW i \in 1 .. next - 1, Infos[i] = "pcapswitch"
                 PROVE  store'["pcapswitch"].val = "OFF" /\ lease' \in live'
      BY <1>1, Zenon DEF SwitchStands
    <3>3. asked' = asked
      BY <1>1, Zenon
    <3>1. ~ asked
      BY <3>3, SMT
    <3>2. store["pcapswitch"].val = "OFF" /\ lease \in live
      BY <3>1, Zenon DEF AnnounceInv, SwitchStands
    <3> QED
      BY <1>1, <3>2, Zenon
  <2> QED
    BY <2>1, <2>2, <2>3
<1> QED
  BY <1>2, <1>3 DEF AnnounceInv

-----------------------------------------------------------------------------
(* The capture. *)

LEMMA EndsCapture == C!CaptureEnds => CaptureInv'
<1> SUFFICES ASSUME C!CaptureEnds PROVE CaptureInv'
  OBVIOUS
<1>1. C!Unused \in HandleType /\ C!Unused.reader = "done"
  BY HostAssumption DEF C!Unused, HandleType
<1>2. handle' = [h \in Handles |-> C!Unused]
  BY DEF C!CaptureEnds
<1>3. handle' \in [Handles -> HandleType] /\ \A h \in Handles : handle'[h].reader = "done"
  BY <1>1, <1>2
<1>4. pc' = "top" /\ Handle' = NoHandle /\ conn' = FALSE
  BY DEF C!CaptureEnds
<1> QED
  BY <1>3, <1>4 DEF CaptureInv, C!InUse, RangedIsOpen, NoUseAfterClose

LEMMA PcapDumpCapture == CaptureInv /\ C!PcapDump => CaptureInv'
BY DEF CaptureInv, C!PcapDump, C!InUse, RangedIsOpen, NoUseAfterClose

LEMMA CaptureInitCapture ==
  ASSUME CaptureInv, NEW h \in Handles, C!CaptureInit(h)
  PROVE  CaptureInv'
<1> DEFINE r == [C!Unused EXCEPT !.open = TRUE]
<1>1. r \in HandleType /\ r.open = TRUE /\ r.stop = FALSE /\ r.reader = "done"
  <2>1. 0 \in 0 .. Cap
    BY HostAssumption
  <2>2. C!Unused \in HandleType /\ C!Unused.stop = FALSE /\ C!Unused.reader = "done"
    BY <2>1 DEF C!Unused, HandleType
  <2> QED
    BY <2>2 DEF HandleType
<1> HIDE DEF r
<1>2. /\ handle' = [handle EXCEPT ![h] = r] /\ pc = "init" /\ pc' = "start"
      /\ Handle' = h /\ UNCHANGED conn
  BY DEF C!CaptureInit, r
<1>3. /\ handle' \in [Handles -> HandleType] /\ handle'[h] = r
      /\ \A j \in Handles : j # h => handle'[j] = handle[j]
  BY <1>1, <1>2 DEF CaptureInv
<1> QED
  BY <1>1, <1>2, <1>3 DEF CaptureInv, C!InUse, RangedIsOpen, NoUseAfterClose

LEMMA CaptureInitErrorCapture == CaptureInv /\ C!CaptureInitError => CaptureInv'
BY DEF CaptureInv, C!CaptureInitError, C!InUse, RangedIsOpen, NoUseAfterClose

LEMMA CheckOnCapture == CaptureInv /\ C!CheckOn => CaptureInv'
BY DEF CaptureInv, C!CheckOn, C!InUse, RangedIsOpen, NoUseAfterClose

LEMMA WriteCapture == CaptureInv /\ C!Write => CaptureInv'
BY DEF CaptureInv, C!Write, C!InUse, RangedIsOpen, NoUseAfterClose

LEMMA WriteErrorCapture == CaptureInv /\ C!WriteError => CaptureInv'
BY DEF CaptureInv, C!WriteError, C!InUse, RangedIsOpen, NoUseAfterClose

\* What the other steps do to one handle.
Becomes(h, r) ==
  /\ handle' \in [Handles -> HandleType] /\ handle'[h] = r
  /\ \A j \in Handles : j # h => handle'[j] = handle[j]

LEMMA Except ==
  ASSUME CaptureInv, NEW h \in Handles, NEW r \in HandleType, handle' = [handle EXCEPT ![h] = r]
  PROVE  Becomes(h, r)
BY DEF CaptureInv, Becomes

LEMMA HandleOf == ASSUME CaptureInv, NEW h \in Handles PROVE handle[h] \in HandleType
BY DEF CaptureInv

LEMMA CaptureStartCapture == CaptureInv /\ C!CaptureStart => CaptureInv'
<1> SUFFICES ASSUME CaptureInv, C!CaptureStart PROVE CaptureInv'
  OBVIOUS
<1>1. /\ pc = "start" /\ Handle \in Handles /\ pc' = "range" /\ Handle' = Handle /\ conn' \in BOOLEAN
      /\ handle' = [handle EXCEPT ![Handle].reader = "idle"]
  BY DEF C!CaptureStart, CaptureInv
<1> DEFINE r == [handle[Handle] EXCEPT !.reader = "idle"]
<1>2. /\ r \in HandleType /\ r.reader = "idle"
      /\ r.open = handle[Handle].open /\ r.stop = handle[Handle].stop
  BY <1>1, HandleOf DEF HandleType
<1>3. handle' = [handle EXCEPT ![Handle] = r]
  BY <1>1
<1> HIDE DEF r
<1>4. Becomes(Handle, r)
  BY <1>1, <1>2, <1>3, Except
<1> QED
  BY <1>1, <1>2, <1>4, HostAssumption DEF Becomes, CaptureInv, C!InUse, RangedIsOpen, NoUseAfterClose

LEMMA ReceiveCapture == CaptureInv /\ C!Receive => CaptureInv'
<1> SUFFICES ASSUME CaptureInv, C!Receive PROVE CaptureInv'
  OBVIOUS
<1>1. /\ pc = "range" /\ Handle \in Handles /\ pc' \in {"check", "top"} /\ Handle' = Handle
      /\ conn' = conn /\ handle[Handle].queue > 0
      /\ handle' = [handle EXCEPT ![Handle].queue = @ - 1]
  BY DEF C!Receive, CaptureInv, C!InUse
<1> DEFINE r == [handle[Handle] EXCEPT !.queue = @ - 1]
<1>2. /\ r \in HandleType /\ r.reader = handle[Handle].reader
      /\ r.open = handle[Handle].open /\ r.stop = handle[Handle].stop
  <2>1. handle[Handle] \in HandleType
    BY <1>1, HandleOf
  <2>2. PICK q \in 0 .. Cap : q = handle[Handle].queue - 1
    BY <1>1, <2>1, HostAssumption DEF HandleType
  <2>3. r = [handle[Handle] EXCEPT !.queue = q]
    BY <2>1, <2>2 DEF HandleType
  <2> QED
    BY <2>1, <2>3 DEF HandleType
<1>3. handle' = [handle EXCEPT ![Handle] = r]
  BY <1>1
<1> HIDE DEF r
<1>4. Becomes(Handle, r)
  BY <1>1, <1>2, <1>3, Except
<1> QED
  BY <1>1, <1>2, <1>4 DEF Becomes, CaptureInv, C!InUse, RangedIsOpen, NoUseAfterClose

LEMMA CheckOffCapture == CaptureInv /\ C!CheckOff => CaptureInv'
<1> SUFFICES ASSUME CaptureInv, C!CheckOff PROVE CaptureInv'
  OBVIOUS
<1>1. /\ pc = "check" /\ Handle \in Handles /\ pc' = "close" /\ Handle' = Handle /\ conn' = conn
      /\ handle' = [handle EXCEPT ![Handle].stop = TRUE]
  BY DEF C!CheckOff, CaptureInv, C!InUse
<1> DEFINE r == [handle[Handle] EXCEPT !.stop = TRUE]
<1>2. r \in HandleType /\ r.reader = handle[Handle].reader /\ r.open = handle[Handle].open
  BY <1>1, HandleOf DEF HandleType
<1>3. handle' = [handle EXCEPT ![Handle] = r]
  BY <1>1
<1> HIDE DEF r
<1>4. Becomes(Handle, r)
  BY <1>1, <1>2, <1>3, Except
<1> QED
  BY <1>1, <1>2, <1>4 DEF Becomes, CaptureInv, C!InUse, RangedIsOpen, NoUseAfterClose

LEMMA CloseCaptureCapture == CaptureInv /\ C!CloseCapture => CaptureInv'
<1> SUFFICES ASSUME CaptureInv, C!CloseCapture PROVE CaptureInv'
  OBVIOUS
<1>1. /\ pc = "close" /\ Handle \in Handles /\ pc' = "top" /\ Handle' = Handle /\ conn' = FALSE
      /\ handle[Handle].reader # "read"
      /\ handle' = [handle EXCEPT ![Handle] = C!Closed(handle[Handle])]
  BY DEF C!CloseCapture, CaptureInv, C!InUse
<1>2. PICK r \in HandleType : r = C!Closed(handle[Handle]) /\ r.reader # "read"
  <2>1. handle[Handle] \in HandleType /\ 0 \in 0 .. Cap
    BY <1>1, HandleOf, HostAssumption
  <2>2. C!Unused \in HandleType /\ C!Unused.reader = "done"
    BY <2>1 DEF C!Unused, HandleType
  <2>3. /\ [handle[Handle] EXCEPT !.open = FALSE] \in HandleType
        /\ [handle[Handle] EXCEPT !.open = FALSE].reader = handle[Handle].reader
    BY <2>1 DEF HandleType
  <2> QED
    BY <1>1, <2>2, <2>3 DEF C!Closed
<1>3. handle' = [handle EXCEPT ![Handle] = r]
  BY <1>1, <1>2
<1>4. Becomes(Handle, r)
  BY <1>1, <1>3, Except
<1> QED
  BY <1>1, <1>2, <1>4 DEF Becomes, CaptureInv, C!InUse, RangedIsOpen, NoUseAfterClose

\* A step of the reader of h that leaves open and stop alone, does not call
\* libpcap on a handle that is not open, and does not end on one in use.
LEMMA ReaderCapture ==
  ASSUME CaptureInv, NEW h \in Handles, NEW r \in HandleType,
         handle' = [handle EXCEPT ![h] = r], UNCHANGED <<pc, Handle, conn>>,
         handle[h].open => r.open /\ (~ handle[h].stop => ~ r.stop /\ r.reader # "done"),
         r.reader = "read" => r.open
  PROVE  CaptureInv'
<1>1. Becomes(h, r)
  BY Except
<1>2. UNCHANGED pc /\ UNCHANGED Handle /\ UNCHANGED conn
  OBVIOUS
<1> QED
  BY <1>1, <1>2 DEF Becomes, CaptureInv, C!InUse, RangedIsOpen, NoUseAfterClose

LEMMA ReadPacketDataCapture ==
  ASSUME CaptureInv, NEW h \in Handles, C!ReadPacketData(h)
  PROVE  CaptureInv'
<1>1. handle[h] \in HandleType /\ 0 \in 0 .. Cap
  BY HandleOf, HostAssumption
<1>2. CASE ~ handle[h].open
  <2>1. C!Unused \in HandleType /\ C!Unused.reader = "done"
    BY <1>1 DEF C!Unused, HandleType
  <2>2. handle' = [handle EXCEPT ![h] = C!Unused] /\ UNCHANGED <<pc, Handle, conn>>
    BY <1>2 DEF C!ReadPacketData
  <2> QED
    BY <1>2, <2>1, <2>2, ReaderCapture
<1>3. CASE handle[h].open
  <2>1. PICK p \in {"read", "done"} : p = IF handle[h].stop THEN "done" ELSE "read"
    OBVIOUS
  <2> DEFINE r == [handle[h] EXCEPT !.reader = p]
  <2>2. r \in HandleType /\ r.reader = p /\ r.open = handle[h].open /\ r.stop = handle[h].stop
    BY <1>1 DEF HandleType
  <2>3. handle' = [handle EXCEPT ![h] = r] /\ UNCHANGED <<pc, Handle, conn>>
    BY <1>3, <2>1 DEF C!ReadPacketData
  <2> HIDE DEF r
  <2>4. handle[h].open => r.open /\ (~ handle[h].stop => ~ r.stop /\ r.reader # "done")
    BY <2>1, <2>2
  <2>5. r.reader = "read" => r.open
    BY <1>3, <2>2
  <2> QED
    BY <2>2, <2>3, <2>4, <2>5, ReaderCapture
<1> QED
  BY <1>2, <1>3

LEMMA PacketCapture ==
  ASSUME CaptureInv, NEW h \in Handles, C!Packet(h) \/ C!PacketError(h)
  PROVE  CaptureInv'
<1>1. PICK p \in {"send", "idle"} :
        handle' = [handle EXCEPT ![h].reader = p] /\ UNCHANGED <<pc, Handle, conn>>
  BY Zenon DEF C!Packet, C!PacketError
<1> DEFINE r == [handle[h] EXCEPT !.reader = p]
<1>2. r \in HandleType /\ r.reader = p /\ r.open = handle[h].open /\ r.stop = handle[h].stop
  BY HandleOf DEF HandleType
<1>3. handle' = [handle EXCEPT ![h] = r]
  BY <1>1
<1> HIDE DEF r
<1> QED
  BY <1>1, <1>2, <1>3, ReaderCapture

LEMMA SendCapture ==
  ASSUME CaptureInv, NEW h \in Handles, C!Send(h)
  PROVE  CaptureInv'
<1>1. /\ handle[h].queue < Cap /\ UNCHANGED <<pc, Handle, conn>>
      /\ handle' = [handle EXCEPT ![h].reader = "idle", ![h].queue = @ + 1]
  BY DEF C!Send
<1>2. PICK q \in 0 .. Cap : q = handle[h].queue + 1
  BY <1>1, HandleOf, HostAssumption DEF HandleType
<1> DEFINE r == [handle[h] EXCEPT !.reader = "idle", !.queue = q]
<1>3. r \in HandleType /\ r.reader = "idle" /\ r.open = handle[h].open /\ r.stop = handle[h].stop
  BY HandleOf DEF HandleType
<1>4. handle' = [handle EXCEPT ![h] = r]
  BY <1>1, <1>2, HandleOf DEF CaptureInv, HandleType
<1> HIDE DEF r
<1> QED
  BY <1>1, <1>3, <1>4, ReaderCapture

LEMMA SameCapture == CaptureInv /\ UNCHANGED <<pc, Handle, conn, handle>> => CaptureInv'
BY DEF CaptureInv, C!InUse, RangedIsOpen, NoUseAfterClose

LEMMA CapturingCapture == CaptureInv /\ C!Capturing => CaptureInv'
BY PcapDumpCapture, CaptureInitCapture, CaptureInitErrorCapture, CaptureStartCapture, ReceiveCapture,
   CheckOffCapture, CheckOnCapture, WriteCapture, WriteErrorCapture, CloseCaptureCapture, Zenon
   DEF C!Capturing

LEMMA ReadingCapture == ASSUME CaptureInv, NEW h \in Handles, C!Reading(h) PROVE CaptureInv'
BY ReadPacketDataCapture, PacketCapture, SendCapture, Zenon DEF C!Reading

-----------------------------------------------------------------------------
(* The host. *)

LEMMA InitInv == Init => HostInv
<1> SUFFICES ASSUME Init PROVE HostInv
  OBVIOUS
<1>1. Absent \in EntryType /\ Absent.lease = NoLease
  BY DEF Absent, EntryType
<1>2. AnnounceTypes /\ Progress
  BY <1>1, LenInfos DEF Init, DiscoveryInitial, AnnounceTypes, Progress
<1>3. ~ \E i \in 1 .. next - 1 : TRUE
  BY DEF Init, DiscoveryInitial
<1>4. FlagTypes
  BY Zenon DEF Init, DiscoveryInitial, FlagTypes
<1>5. Announced /\ SwitchStands
  BY <1>3, Zenon DEF Announced, SwitchStands
<1>6. C!Unused \in HandleType /\ C!Unused.reader = "done"
  <2>1. 0 \in 0 .. Cap
    BY HostAssumption
  <2> QED
    BY <2>1 DEF C!Unused, HandleType
<1>7. CaptureInv
  BY <1>6 DEF Init, C!CaptureInitial, CaptureInv, C!InUse, RangedIsOpen, NoUseAfterClose
<1>8. SharedInv
  BY Zenon DEF Init, C!CaptureInitial, SharedInv, QuietStart
<1> QED
  BY <1>2, <1>4, <1>5, <1>7, <1>8, Split DEF AnnounceInv

LEMMA PanicStep == HostInv /\ Panic => HostInv'
<1> SUFFICES ASSUME AnnounceInv, Panic PROVE AnnounceInv' /\ CaptureInv' /\ SharedInv'
  BY Split, SplitNext
<1>1. C!CaptureEnds
  BY Zenon DEF Panic, C!CaptureStartPanic
<1>2. pc' = "top"
  BY <1>1 DEF C!CaptureEnds
<1>3. SharedInv'
  BY <1>2, Zenon DEF SharedInv
<1> QED
  BY <1>1, <1>3, PanicAnnounce, EndsCapture

LEMMA MainStep == HostInv /\ Main => HostInv'
<1> SUFFICES ASSUME AnnounceInv, CaptureInv, SharedInv, Main
             PROVE  AnnounceInv' /\ CaptureInv' /\ SharedInv'
  BY Split, SplitNext
<1>1. UNCHANGED <<pc, Handle, conn, handle>> /\ proc # "up" /\ etcdok' = etcdok
  BY DEF Main, Start, ColInit, ClientInit, AgentInitLog, ClientDiscovery
<1>2. pc' = "top"
  BY <1>1, Zenon DEF SharedInv
<1>3. SharedInv'
  BY <1>2, Zenon DEF SharedInv
<1>4. FlagTypes'
  <2>1. asked' \in BOOLEAN
    BY Zenon DEF Main, FlagTypes, AnnounceInv
  <2> QED
    BY <1>1, <2>1, Zenon DEF FlagTypes, AnnounceInv
<1>5. ~ asked' => ~ asked \/ Infos[next] = "pcapswitch"
  BY Zenon DEF Main
<1>6. AnnounceInv'
  BY <1>4, <1>5, StartAnnounce, ClientInitAnnounce, ClientDiscoveryAnnounce, Zenon DEF Main
<1> QED
  BY <1>1, <1>3, <1>6, SameCapture

LEMMA DataCollectStep == HostInv /\ DataCollect => HostInv'
<1> SUFFICES ASSUME AnnounceInv, CaptureInv, SharedInv, DataCollect
             PROVE  AnnounceInv' /\ CaptureInv' /\ SharedInv'
  BY Split, SplitNext
<1>1. UNCHANGED <<pc, Handle, conn, handle>> /\ UNCHANGED asked /\ UNCHANGED proc /\ UNCHANGED pc
  BY Zenon DEF DataCollect, MannualCollect
<1>2. AnnounceInv'
  BY <1>1, MannualCollectAnnounce, Zenon DEF DataCollect
<1>3. SharedInv'
  BY <1>1, SMT DEF SharedInv
<1> QED
  BY <1>1, <1>2, <1>3, SameCapture

LEMMA EnvironmentStep == HostInv /\ Environment => HostInv'
<1> SUFFICES ASSUME AnnounceInv, CaptureInv, SharedInv, Environment
             PROVE  AnnounceInv' /\ CaptureInv' /\ SharedInv'
  BY Split, SplitNext
<1>1. UNCHANGED <<pc, Handle, conn, handle>> /\ UNCHANGED proc /\ UNCHANGED pc
  BY Zenon DEF Environment, Expire, SetSwitch, Cut
<1>2. asked' \in BOOLEAN /\ etcdok' \in BOOLEAN
  BY Zenon DEF Environment, Expire, SetSwitch, Cut, AnnounceInv, FlagTypes
<1>3. FlagTypes'
  BY <1>2, Zenon DEF FlagTypes
<1>4. ~ asked' => ~ asked
  BY Zenon DEF Environment
<1>5. AnnounceInv'
  <2>1. CASE \E l \in Leases : Expire(l) /\ asked' = (asked \/ l = lease)
    <3> PICK l \in Leases : Expire(l) /\ asked' = (asked \/ l = lease)
      BY <2>1
    <3>1. ~ asked' => ~ asked /\ l # lease
      BY Zenon
    <3> QED
      BY <1>3, <3>1, ExpireAnnounce, Zenon
  <2>2. CASE \E v \in {"ON", "OFF"} : SetSwitch(v) /\ asked' = (asked \/ v = "ON")
    <3> PICK v \in {"ON", "OFF"} : SetSwitch(v) /\ asked' = (asked \/ v = "ON")
      BY <2>2
    <3>1. ~ asked' => ~ asked /\ v # "ON"
      BY Zenon
    <3> QED
      BY <1>3, <3>1, SetSwitchAnnounce, Zenon
  <2>3. CASE Cut /\ UNCHANGED asked
    BY <1>3, <1>4, <2>3, CutAnnounce, Zenon
  <2> QED
    BY <2>1, <2>2, <2>3, Zenon DEF Environment
<1>6. SharedInv'
  BY <1>1, <1>4, SMT DEF SharedInv
<1> QED
  BY <1>1, <1>5, <1>6, SameCapture

\* Main put the switch before the agent runs, so PcapDump has reason to capture.
LEMMA DumpAsked == AnnounceInv /\ proc = "up" /\ C!PcapDump => asked \/ ~ etcdok
<1> SUFFICES ASSUME AnnounceInv, proc = "up", C!PcapDump, ~ asked PROVE ~ etcdok
  OBVIOUS
<1>1. next = Len(Infos) + 1
  BY DEF AnnounceInv, Progress
<1>2. \E i \in 1 .. next - 1 : Infos[i] = "pcapswitch"
  <2>1. \E i \in 1 .. Len(Infos) : Infos[i] = "pcapswitch"
    BY HostAssumption, DiscoveryAssumption, Zenon DEF Keys
  <2>2. 1 .. next - 1 = 1 .. Len(Infos)
    BY <1>1, LenInfos
  <2> QED
    BY <2>1, <2>2, Zenon
<1>3. store["pcapswitch"].val = "OFF"
  BY <1>2, Zenon DEF AnnounceInv, SwitchStands
<1> QED
  BY <1>3, Zenon DEF C!PcapDump, C!IsOff

LEMMA CapturingStep == HostInv /\ Capturing => HostInv'
<1> SUFFICES ASSUME AnnounceInv, CaptureInv, SharedInv, Capturing
             PROVE  AnnounceInv' /\ CaptureInv' /\ SharedInv'
  BY Split, SplitNext
<1>1. proc = "up" /\ C!Capturing /\ UNCHANGED <<discoveryVars, asked>>
  BY DEF Capturing
<1>2. UNCHANGED proc /\ UNCHANGED asked
  BY <1>1, Zenon DEF discoveryVars
<1>5. SharedInv'
  BY <1>1, <1>2, SMT DEF SharedInv
<1> QED
  BY <1>1, <1>5, SameAnnounce, CapturingCapture, Zenon

LEMMA ReadingStep == ASSUME HostInv, NEW h \in Handles, Reading(h) PROVE HostInv'
<1> SUFFICES ASSUME AnnounceInv, CaptureInv, SharedInv
             PROVE  AnnounceInv' /\ CaptureInv' /\ SharedInv'
  BY Split, SplitNext
<1>1. C!Reading(h) /\ UNCHANGED <<discoveryVars, asked>>
  BY DEF Reading
<1>2. UNCHANGED proc /\ UNCHANGED asked /\ UNCHANGED pc
  BY <1>1, Zenon DEF discoveryVars, C!Reading, C!ReadPacketData, C!Packet, C!PacketError, C!Send
<1>3. SharedInv'
  BY <1>2, SMT DEF SharedInv
<1> QED
  BY <1>1, <1>3, SameAnnounce, ReadingCapture, Zenon

LEMMA StutterStep == HostInv /\ UNCHANGED vars => HostInv'
<1> SUFFICES ASSUME AnnounceInv, CaptureInv, SharedInv, UNCHANGED vars
             PROVE  AnnounceInv' /\ CaptureInv' /\ SharedInv'
  BY Split, SplitNext
<1>1. /\ UNCHANGED <<discoveryVars, asked>> /\ UNCHANGED <<pc, Handle, conn, handle>>
      /\ UNCHANGED proc /\ UNCHANGED asked /\ UNCHANGED pc
  BY Zenon DEF vars, discoveryVars
<1>2. SharedInv'
  BY <1>1, SMT DEF SharedInv
<1> QED
  BY <1>1, <1>2, SameAnnounce, SameCapture, Zenon

\* HostInv is an invariant: of the announcement in etcd and the lease it hangs
\* on, of the switch, and of the handles that captures open, read and close.
THEOREM HostInvariant == Spec => []HostInv
<1>1. HostInv /\ [Next]_vars => HostInv'
  BY PanicStep, MainStep, DataCollectStep, EnvironmentStep, CapturingStep, ReadingStep, StutterStep, Zenon
     DEF Next
<1> QED
  BY <1>1, InitInv, PTL DEF Spec

\* Every variable keeps its type; the channel of a handle holds at most Cap packets.
THEOREM HostTypes == Spec => []TypeOK
<1>1. HostInv => TypeOK
  BY Zenon DEF HostInv
<1> QED
  BY <1>1, HostInvariant, PTL

\* While its lease lives, everything that main of a running agent announced is in
\* etcd, whichever leases of earlier processes expire.
THEOREM KeysKeptCorrect == Spec => []KeysKept
<1>1. HostInv => KeysKept
  <2> SUFFICES ASSUME AnnounceInv, proc = "up", lease \in live, NEW i \in 1 .. Len(Infos)
               PROVE  store[Infos[i]] # Absent
    BY Split, Zenon DEF KeysKept, Listed
  <2>1. next = Len(Infos) + 1
    BY DEF AnnounceInv, Progress
  <2>2. i \in 1 .. next - 1
    BY <2>1, LenInfos
  <2>3. store[Infos[i]].val # ""
    BY <2>2, Zenon DEF AnnounceInv, Announced
  <2>4. Absent.val = ""
    BY DEF Absent
  <2> QED
    BY <2>3, <2>4, Zenon
<1> QED
  BY <1>1, HostInvariant, PTL

\* libpcap is never called on a handle that Close has closed.
THEOREM NoUseAfterCloseCorrect == Spec => []NoUseAfterClose
<1>1. HostInv => NoUseAfterClose
  BY Zenon DEF HostInv
<1> QED
  BY <1>1, HostInvariant, PTL

\* The channel that CaptureStart ranges over never ends.
THEOREM RangedIsOpenCorrect == Spec => []RangedIsOpen
<1>1. HostInv => RangedIsOpen
  BY Zenon DEF HostInv
<1> QED
  BY <1>1, HostInvariant, PTL

\* Only PcapDump starts a capture.
LEMMA StartIsDump ==
  ASSUME [Next]_vars, pc = "top", pc' = "init"
  PROVE  proc = "up" /\ C!PcapDump
<1>1. ~ UNCHANGED pc /\ pc' # "top"
  OBVIOUS
<1>2. Capturing
  BY <1>1, Zenon DEF Next, vars, Panic, C!CaptureStartPanic, C!CaptureEnds, Main, DataCollect, Environment, Reading,
     C!Reading, C!ReadPacketData, C!Packet, C!PacketError, C!Send
<1> QED
  BY <1>2 DEF Capturing, C!Capturing, C!CaptureInit, C!CaptureInitError, C!CaptureStart, C!Receive,
              C!CheckOff, C!CheckOn, C!Write, C!WriteError, C!CloseCapture

\* A process that was started again does not capture because of a switch that was
\* on before: only a switch set to ON or a lease lost since then, or a read that
\* fails, starts a capture.
THEOREM QuietStartCorrect == Spec => QuietStart
<1>1. HostInv /\ [Next]_vars => [pc = "top" /\ pc' = "init" => asked \/ ~ etcdok]_vars
  <2> SUFFICES ASSUME AnnounceInv, [Next]_vars, pc = "top", pc' = "init"
               PROVE  asked \/ ~ etcdok
    BY Split, Zenon
  <2> QED
    BY StartIsDump, DumpAsked, Zenon
<1> QED
  BY <1>1, HostInvariant, PTL DEF Spec, QuietStart

=============================================================================
