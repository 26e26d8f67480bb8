----------------------------- MODULE TaskProofs -----------------------------
(* Proofs about Task, for any requests, ids and addresses. *)
EXTENDS Task, WellFoundedInduction, FiniteSetTheorems, SequenceTheorems, TLAPS

\* A part of the places of a sequence has a number of members.
LEMMA PartSize ==
  ASSUME NEW n \in Nat, NEW T \in SUBSET (1 .. n)
  PROVE  Cardinality(T) \in 0 .. n
<1>1. IsFiniteSet(1 .. n) /\ Cardinality(1 .. n) = n
  BY FS_Interval
<1>2. IsFiniteSet(T) /\ Cardinality(T) <= Cardinality(1 .. n)
  BY <1>1, FS_Subset
<1>3. Cardinality(T) \in Nat
  BY <1>2, FS_CardinalityType
<1> QED BY <1>1, <1>2, <1>3

LEMMA OccurrencesType ==
  ASSUME NEW r \in Requests, NEW ip
  PROVE  Occurrences(r, ip) \in Nat
<1>1. Len(IpList[r]) \in Nat
  BY RequestAssumption
<1>2. {i \in 1 .. Len(IpList[r]) : IpList[r][i] = ip} \in SUBSET (1 .. Len(IpList[r]))
  OBVIOUS
<1>3. Occurrences(r, ip) \in 0 .. Len(IpList[r])
  BY <1>1, <1>2, PartSize DEF Occurrences
<1> QED BY <1>1, <1>3

LEMMA JoinedType ==
  ASSUME NEW r \in Requests
  PROVE  Joined(IpList[r]) \in Seq(Addrs)
<1>1. PICK s \in Seq(Addrs) : s = IpList[r]
  BY RequestAssumption DEF Addrs
<1>2. Len(s) \in Nat
  OBVIOUS
<1>3. {i \in 1 .. Len(s) : \A k \in 1 .. i : s[k] = Empty} \in SUBSET (1 .. Len(s))
  OBVIOUS
<1>4. Leading(s) \in 0 .. Len(s)
  BY <1>2, <1>3, PartSize DEF Leading
<1>5. PICK l \in Nat : l = Leading(s) /\ l <= Len(s)
  BY <1>2, <1>4
<1>6. \A i \in l + 1 .. Len(s) : s[i] \in Addrs
  BY <1>2, <1>5
<1>7. SubSeq(s, l + 1, Len(s)) \in Seq(Addrs)
  BY <1>2, <1>5, <1>6, SubSeqProperties
<1>8. <<Empty>> \in Seq(Addrs)
  BY DEF Addrs
<1> QED BY <1>1, <1>5, <1>7, <1>8 DEF Joined

\* A message is a numbered copy of a request for an agent.
LEMMA MsgIs ==
  ASSUME NEW m
  PROVE  m \in Msgs <=> \E r \in Requests, ip \in Ips : \E n \in 1 .. Occurrences(r, ip) :
                           m = [req |-> r, n |-> n, ip |-> ip]
<1>1. ASSUME NEW r \in Requests, NEW ip \in Ips
      PROVE  m \in Range(Copies(r, ip))
               <=> \E n \in 1 .. Occurrences(r, ip) : m = [req |-> r, n |-> n, ip |-> ip]
  BY DEF Copies, Range
<1>2. m \in Msgs <=> \E r \in Requests : m \in UNION {Range(Copies(r, ip)) : ip \in Ips}
  BY Zenon DEF Msgs
<1>3. ASSUME NEW r \in Requests
      PROVE  m \in UNION {Range(Copies(r, ip)) : ip \in Ips} <=> \E ip \in Ips : m \in Range(Copies(r, ip))
  BY Zenon
<1> QED BY <1>1, <1>2, <1>3

LEMMA MsgFields ==
  ASSUME NEW m \in Msgs
  PROVE  m.req \in Requests /\ m.ip \in Ips /\ m # None
<1>1. PICK r \in Requests, ip \in Ips : \E n \in 1 .. Occurrences(r, ip) :
        m = [req |-> r, n |-> n, ip |-> ip]
  BY MsgIs
<1>2. PICK n \in Nat : m = [req |-> r, n |-> n, ip |-> ip]
  BY <1>1, OccurrencesType
<1>3. m \in [req : Requests, n : Nat, ip : Ips]
  BY <1>2
<1> QED BY <1>2, <1>3, RequestAssumption

Queued(s, m) == \E i \in 1 .. Len(s) : s[i] = m

\* What Multicast sends to an agent for a request: each of its messages, once.
LEMMA CopiesAre ==
  ASSUME NEW r \in Requests, NEW ip \in Ips
  PROVE  /\ Copies(r, ip) \in Seq(Msgs)
         /\ \A m \in Msgs : Once(Copies(r, ip), m)
         /\ \A m \in Msgs : Queued(Copies(r, ip), m) <=> m.req = r /\ m.ip = ip
<1>1. PICK k \in Nat : k = Occurrences(r, ip)
  BY OccurrencesType
<1>2. PICK c : c = Copies(r, ip)
  OBVIOUS
<1>3. c = [n \in 1 .. k |-> [req |-> r, n |-> n, ip |-> ip]]
  BY <1>1, <1>2 DEF Copies
<1>4. ASSUME NEW n \in 1 .. k PROVE [req |-> r, n |-> n, ip |-> ip] \in Msgs
  BY <1>1, MsgIs
<1>5. c \in [1 .. k -> Msgs]
  BY <1>3, <1>4
<1>6. c \in Seq(Msgs) /\ Len(c) = k
  BY <1>5
<1>7. ASSUME NEW i \in 1 .. Len(c)
      PROVE  c[i] = [req |-> r, n |-> i, ip |-> ip] /\ c[i].req = r /\ c[i].n = i /\ c[i].ip = ip
  BY <1>3, <1>6
<1>8. ASSUME NEW m \in Msgs PROVE Once(c, m)
  <2>1. ASSUME NEW i \in 1 .. Len(c), NEW j \in 1 .. Len(c), c[i] = m, c[j] = m PROVE i = j
    <3>1. c[i].n = i /\ c[j].n = j
      BY <1>7
    <3> QED BY <2>1, <3>1
  <2> QED BY <2>1 DEF Once
<1>9. ASSUME NEW m \in Msgs, Queued(c, m) PROVE m.req = r /\ m.ip = ip
  BY <1>7, <1>9 DEF Queued
<1>10. ASSUME NEW m \in Msgs, m.req = r, m.ip = ip PROVE Queued(c, m)
  <2>1. PICK q \in Requests, a \in Ips : \E n \in 1 .. Occurrences(q, a) :
          m = [req |-> q, n |-> n, ip |-> a]
    BY MsgIs
  <2>2. PICK n \in 1 .. Occurrences(q, a) : m = [req |-> q, n |-> n, ip |-> a]
    BY <2>1
  <2>3. q = r /\ a = ip
    BY <1>10, <2>2
  <2>4. n \in 1 .. Len(c)
    BY <1>1, <1>6, <2>3
  <2>5. c[n] = m
    BY <1>7, <2>2, <2>3, <2>4
  <2> QED BY <2>4, <2>5 DEF Queued
<1> QED BY <1>2, <1>6, <1>8, <1>9, <1>10

LEMMA ConcatQueue ==
  ASSUME NEW s \in Seq(Msgs), NEW c \in Seq(Msgs), NEW m
  PROVE  /\ s \o c \in Seq(Msgs)
         /\ Queued(s \o c, m) <=> Queued(s, m) \/ Queued(c, m)
         /\ Once(s, m) /\ Once(c, m) /\ ~ (Queued(s, m) /\ Queued(c, m)) => Once(s \o c, m)
<1>1. PICK k \in Nat, l \in Nat : k = Len(s) /\ l = Len(c)
  OBVIOUS
<1>2. PICK d : d = s \o c
  OBVIOUS
<1>3. /\ d \in Seq(Msgs) /\ Len(d) = k + l
      /\ \A i \in 1 .. k : d[i] = s[i]
      /\ \A i \in 1 .. l : d[k + i] = c[i]
  BY <1>1, <1>2
<1>4. ASSUME NEW i \in 1 .. k + l
      PROVE  \/ i \in 1 .. k /\ d[i] = s[i]
             \/ i - k \in 1 .. l /\ d[i] = c[i - k]
  <2>1. CASE i <= k
    BY <1>3, <2>1
  <2>2. CASE i > k
    <3>1. PICK j \in 1 .. l : i = k + j /\ j = i - k
      BY <2>2
    <3> QED BY <1>3, <3>1
  <2> QED BY <2>1, <2>2
<1>5. /\ \A i \in 1 .. k : i \in 1 .. k + l
      /\ \A i \in 1 .. l : k + i \in 1 .. k + l
  OBVIOUS
<1>6. Queued(d, m) <=> Queued(s, m) \/ Queued(c, m)
  <2>1. Queued(d, m) => Queued(s, m) \/ Queued(c, m)
    BY <1>1, <1>3, <1>4 DEF Queued
  <2>2. Queued(s, m) => Queued(d, m)
    BY <1>1, <1>3, <1>5 DEF Queued
  <2>3. Queued(c, m) => Queued(d, m)
    <3> SUFFICES ASSUME NEW i \in 1 .. l, c[i] = m PROVE \E j \in 1 .. k + l : d[j] = m
      BY <1>1, <1>3 DEF Queued
    <3> QED BY <1>3, <1>5
  <2> QED BY <2>1, <2>2, <2>3
<1>7. ASSUME Once(s, m), Once(c, m), ~ (Queued(s, m) /\ Queued(c, m)) PROVE Once(d, m)
  <2> SUFFICES ASSUME NEW i \in 1 .. k + l, NEW j \in 1 .. k + l, d[i] = m, d[j] = m
               PROVE  i = j
    BY <1>3 DEF Once
  <2>1. CASE i \in 1 .. k /\ d[i] = s[i] /\ j \in 1 .. k /\ d[j] = s[j]
    BY <1>1, <1>7, <2>1 DEF Once
  <2>2. CASE i - k \in 1 .. l /\ d[i] = c[i - k] /\ j - k \in 1 .. l /\ d[j] = c[j - k]
    <3>1. i - k = j - k
      BY <1>1, <1>7, <2>2 DEF Once
    <3> QED BY <3>1
  <2>3. ~ ((\E x \in 1 .. k : s[x] = m) /\ (\E x \in 1 .. l : c[x] = m))
    BY <1>1, <1>7 DEF Queued
  <2> QED BY <1>4, <2>1, <2>2, <2>3
<1> QED BY <1>2, <1>3, <1>6, <1>7

\* What GetSingleCfg returns is the result of one of the matching addresses.
LEMMA FirstMatch ==
  ASSUME NEW t, NEW ip, Matching(t, ip) # {}
  PROVE  \E j \in Matching(t, ip) : GetSingleCfg(t, ip) = result[t][j]
<1> DEFINE M == Matching(t, ip)
<1> DEFINE R == {Rank[j] : j \in M}
<1>1. M \subseteq Ips
  BY DEF Matching
<1>2. R \subseteq Nat /\ R # {}
  BY <1>1, KeyAssumption
<1>3. \E x \in R : \A y \in R : ~ (<<y, x>> \in OpToRel(<, Nat))
  <2> HIDE DEF R
  <2> QED BY <1>2, NatLessThanWellFounded, WFMin
<1>4. PICK x \in R : \A y \in R : ~ (<<y, x>> \in OpToRel(<, Nat))
  BY <1>3
<1>5. \A y \in R : x <= y
  <2> HIDE DEF R
  <2> SUFFICES ASSUME NEW y \in R, ~ (x <= y) PROVE FALSE
    OBVIOUS
  <2>1. x \in Nat /\ y \in Nat
    BY <1>2
  <2>2. y < x
    BY <2>1
  <2>3. <<y, x>> \in Nat \X Nat /\ <<y, x>>[1] = y /\ <<y, x>>[2] = x
    BY <2>1
  <2>4. <<y, x>>[1] < <<y, x>>[2]
    BY <2>2, <2>3
  <2>5. <<y, x>> \in OpToRel(<, Nat)
    BY <2>3, <2>4, Zenon DEF OpToRel
  <2> QED BY <1>4, <2>5, Zenon
<1>6. PICK j \in M : x = Rank[j]
  BY <1>4
<1>7. \E k \in M : \A l \in M : Rank[k] <= Rank[l]
  BY <1>5, <1>6
<1> QED BY <1>7 DEF GetSingleCfg

\* The initial state.
LEMMA InvInit == Init => TaskInv
<1> SUFFICES ASSUME Init PROVE TaskInv
  OBVIOUS
<1>1. TypeOK
  BY DEF Init, TypeOK, NoQuery, EmptyDict
<1>2. RequestInv /\ ResultsAuthentic /\ ListBeforeResults
  BY DEF Init, RequestInv, ResultsAuthentic, ListBeforeResults
<1>5. ListInv
  BY DEF Init, ListInv
<1>3. TransitInv
  BY DEF Init, TransitInv
<1>4. QueryInv /\ AnswerFromTask
  BY DEF Init, QueryInv, AnswerFromTask, NoQuery, EmptyDict
<1> QED BY <1>1, <1>2, <1>3, <1>4, <1>5 DEF TaskInv

\* Every step keeps the types.
LEMMA TypeStep == TaskInv /\ [Next]_vars => TypeOK'
<1> SUFFICES ASSUME TaskInv, [Next]_vars PROVE TypeOK'
  OBVIOUS
<1> USE DEF agentVars
<1>0. TypeOK
  BY DEF TaskInv
<1>1. ASSUME NEW r \in Requests, NEW t \in TaskIds, DrawTaskId(r, t) PROVE TypeOK'
  BY <1>0, <1>1 DEF TypeOK, DrawTaskId
<1>2. ASSUME NEW r \in Requests, PutIpList(r) PROVE TypeOK'
  BY <1>0, <1>2, JoinedType DEF TypeOK, PutIpList
<1>3. ASSUME NEW r \in Requests, PutIpListError(r) PROVE TypeOK'
  <2>1. list' = list \/ list' = [list EXCEPT ![id[r]] = Joined(IpList[r])]
    BY <1>3 DEF PutIpListError
  <2>2. list' \in [TaskIds -> Seq(Addrs) \cup {None}]
    BY <1>0, <2>1, JoinedType DEF TypeOK
  <2> QED BY <1>0, <1>3, <2>2 DEF TypeOK, PutIpListError
<1>4. ASSUME NEW r \in Requests, NEW next \in {"send", "failed"}, ReadFile(r, next) PROVE TypeOK'
  BY <1>0, <1>4 DEF TypeOK, ReadFile
<1>5. ASSUME NEW r \in Requests, Multicast(r) PROVE TypeOK'
  <2>1. \A ip \in Ips : inbox[ip] \o Copies(r, ip) \in Seq(Msgs)
    BY <1>0, CopiesAre, ConcatQueue DEF TypeOK
  <2>2. inbox' \in [Ips -> Seq(Msgs)]
    BY <1>0, <1>5, <2>1 DEF TypeOK, Multicast
  <2> QED BY <1>0, <1>5, <2>2 DEF TypeOK, Multicast
<1>6. ASSUME NEW ip \in Ips, HandleRunMsg(ip) PROVE TypeOK'
  <2>1. inbox[ip] \in Seq(Msgs) /\ inbox[ip] # << >>
    BY <1>0, <1>6 DEF TypeOK, HandleRunMsg
  <2>2. Tail(inbox[ip]) \in Seq(Msgs) /\ Head(inbox[ip]) \in Msgs
    BY <2>1
  <2> QED BY <1>0, <1>6, <2>2 DEF TypeOK, HandleRunMsg
<1>7. ASSUME NEW ip \in Ips, SendRsp(ip) PROVE TypeOK'
  <2>1. running[ip] \in Msgs
    BY <1>0, <1>7 DEF TypeOK, SendRsp
  <2>2. outbox' \in [Ips -> Seq(Msgs)]
    BY <1>0, <1>7, <2>1 DEF TypeOK, SendRsp
  <2>3. lost' \in SUBSET Msgs
    BY <1>0, <1>7, <2>1 DEF TypeOK, SendRsp
  <2> QED BY <1>0, <1>7, <2>2, <2>3 DEF TypeOK, SendRsp
<1>8. ASSUME NEW ip \in Ips, EndSilently(ip) PROVE TypeOK'
  <2>1. running[ip] \in Msgs
    BY <1>0, <1>8 DEF TypeOK, EndSilently
  <2> QED BY <1>0, <1>8, <2>1 DEF TypeOK, EndSilently
<1>9. ASSUME NEW ip \in Ips, Break(ip) PROVE TypeOK'
  <2>1. \A s \in Seq(Msgs) : {s[i] : i \in 1 .. Len(s)} \subseteq Msgs
    OBVIOUS
  <2>2. inbox[ip] \in Seq(Msgs) /\ outbox[ip] \in Seq(Msgs)
    BY <1>0 DEF TypeOK
  <2>3. lost' \in SUBSET Msgs
    BY <1>0, <1>9, <2>1, <2>2 DEF TypeOK, Break
  <2> QED BY <1>0, <1>9, <2>3 DEF TypeOK, Break
<1>10. ASSUME NEW ip \in Ips, Connect(ip) PROVE TypeOK'
  BY <1>0, <1>10 DEF TypeOK, Connect
<1>11. ASSUME NEW ip \in Ips, GetRsp(ip) PROVE TypeOK'
  <2>1. outbox[ip] \in Seq(Msgs) /\ outbox[ip] # << >>
    BY <1>0, <1>11 DEF TypeOK, GetRsp
  <2>2. Tail(outbox[ip]) \in Seq(Msgs) /\ Head(outbox[ip]) \in Msgs
    BY <2>1
  <2> QED BY <1>0, <1>11, <2>2 DEF TypeOK, GetRsp
<1>12. ASSUME NEW m \in Msgs, HandleShellRunRsp(m) PROVE TypeOK'
  <2>1. m.ip \in Ips /\ m.req \in Requests
    BY MsgFields
  <2>2. result' \in [TaskIds -> [Ips -> Msgs \cup {None}]]
    BY <1>0, <1>12, <2>1 DEF TypeOK, HandleShellRunRsp
  <2> QED BY <1>0, <1>12, <2>2 DEF TypeOK, HandleShellRunRsp
<1>13. ASSUME NEW m \in Msgs, PutResultError(m) PROVE TypeOK'
  <2>1. m.ip \in Ips /\ m.req \in Requests
    BY MsgFields
  <2>2. result' \in [TaskIds -> [Ips -> Msgs \cup {None}]]
    <3>1. result' = result \/ result' = [result EXCEPT ![id[m.req]][m.ip] = m]
      BY <1>13 DEF PutResultError
    <3>2. result \in [TaskIds -> [Ips -> Msgs \cup {None}]]
      BY <1>0 DEF TypeOK
    <3>3. [result EXCEPT ![id[m.req]][m.ip] = m] \in [TaskIds -> [Ips -> Msgs \cup {None}]]
      BY <3>2, <2>1
    <3> QED BY <3>1, <3>2, <3>3
  <2> QED BY <1>0, <1>13, <2>2 DEF TypeOK, PutResultError
<1>14. ASSUME NEW m \in Msgs, RefuseRsp(m) PROVE TypeOK'
  BY <1>0, <1>14 DEF TypeOK, RefuseRsp
<1>15. ASSUME NEW t \in TaskIds, GetIpList(t) PROVE TypeOK'
  BY <1>0, <1>15 DEF TypeOK, GetIpList, NoQuery, EmptyDict
<1>16. CASE ReadResult
  <2>1. query.left \in Seq(Addrs) /\ query.left # << >>
    BY <1>0, <1>16 DEF TypeOK, ReadResult
  <2>2. PICK ip \in Addrs : ip = Head(query.left)
    BY <2>1
  <2>3. Tail(query.left) \in Seq(Addrs)
    BY <2>1
  <2>4. query.task \in TaskIds /\ list[query.task] \in Seq(Addrs)
    BY <1>0, <1>16 DEF TypeOK, TaskInv, QueryInv, ReadResult
  <2>5. CASE GetResult(ip)
    <3>1. GetSingleCfg(query.task, ip) \in Msgs \cup [iplist : Seq(Addrs)]
      <4>1. CASE Matching(query.task, ip) = {}
        BY <2>4, <4>1 DEF GetSingleCfg
      <4>2. CASE Matching(query.task, ip) # {}
        <5>1. PICK j \in Matching(query.task, ip) : GetSingleCfg(query.task, ip) = result[query.task][j]
          BY <4>2, FirstMatch
        <5> QED BY <1>0, <2>4, <5>1 DEF TypeOK, Matching
      <4> QED BY <4>1, <4>2
    <3> QED BY <1>0, <1>16, <2>2, <2>3, <2>5, <3>1 DEF TypeOK, ReadResult, GetResult
  <2>6. CASE GetResultError(ip)
    BY <1>0, <1>16, <2>2, <2>3, <2>6 DEF TypeOK, ReadResult, GetResultError, EmptyDict
  <2> QED BY <1>16, <2>2, <2>5, <2>6 DEF ReadResult
<1>17. CASE Answer
  BY <1>0, <1>17 DEF TypeOK, Answer, NoQuery, EmptyDict
<1>18. CASE UNCHANGED vars
  BY <1>0, <1>18 DEF TypeOK, vars
<1> QED BY <1>1, <1>2, <1>3, <1>4, <1>5, <1>6, <1>7, <1>8, <1>9, <1>10, <1>11, <1>12,
           <1>13, <1>14, <1>15, <1>16, <1>17, <1>18 DEF Next, Request, AgentStep

\* The steps that change neither the requests nor the addresses in etcd.
LEMMA RequestsOnly ==
  ASSUME [Next]_vars
  PROVE  \/ \E r \in Requests, t \in TaskIds : DrawTaskId(r, t)
         \/ \E r \in Requests : PutIpList(r) \/ PutIpListError(r) \/ Multicast(r)
         \/ \E r \in Requests, next \in {"send", "failed"} : ReadFile(r, next)
         \/ UNCHANGED <<stage, id, list>>
<1>1. ASSUME NEW ip \in Ips, AgentStep(ip) \/ GetRsp(ip) PROVE UNCHANGED <<stage, id, list>>
  BY <1>1 DEF AgentStep, HandleRunMsg, SendRsp, EndSilently, Break, Connect, GetRsp
<1>2. ASSUME NEW m \in Msgs, HandleShellRunRsp(m) \/ PutResultError(m) \/ RefuseRsp(m)
      PROVE  UNCHANGED <<stage, id, list>>
  BY <1>2 DEF HandleShellRunRsp, PutResultError, RefuseRsp
<1>3. ASSUME NEW t \in TaskIds, GetIpList(t) PROVE UNCHANGED <<stage, id, list>>
  BY <1>3 DEF GetIpList
<1>4. ASSUME ReadResult \/ Answer PROVE UNCHANGED <<stage, id, list>>
  BY <1>4 DEF ReadResult, Answer
<1>5. ASSUME UNCHANGED vars PROVE UNCHANGED <<stage, id, list>>
  BY <1>5 DEF vars
<1> QED BY <1>1, <1>2, <1>3, <1>4, <1>5 DEF Next, Request

\* Ids are drawn once, addresses stay, and a request that is done stays so.
LEMMA RequestStep ==
  ASSUME TaskInv, [Next]_vars
  PROVE  /\ RequestInv'
         /\ \A r \in Requests : id[r] # None => id'[r] = id[r]
         /\ \A r \in Requests : stage[r] = "done" => stage'[r] = "done"
         /\ \A t \in TaskIds : list[t] # None => list'[t] # None
<1> DEFINE Goal == /\ RequestInv'
                   /\ \A r \in Requests : id[r] # None => id'[r] = id[r]
                   /\ \A r \in Requests : stage[r] = "done" => stage'[r] = "done"
                   /\ \A t \in TaskIds : list[t] # None => list'[t] # None
<1>0. RequestInv
  BY DEF TaskInv
<1>T. /\ stage \in [Requests -> {"new", "put", "send", "done", "failed"}]
      /\ id \in [Requests -> TaskIds \cup {None}]
      /\ list \in [TaskIds -> Seq(Addrs) \cup {None}]
      /\ None \notin TaskIds /\ None \notin Seq(Addrs)
  BY RequestAssumption DEF TaskInv, TypeOK, Addrs
<1>1. ASSUME NEW r \in Requests, NEW t \in TaskIds, DrawTaskId(r, t) PROVE Goal
  BY <1>0, <1>T, <1>1 DEF RequestInv, DrawTaskId
<1>2. ASSUME NEW r \in Requests, PutIpList(r) PROVE Goal
  <2>1. id[r] \in TaskIds /\ Joined(IpList[r]) # None /\ Kind[r] # "file"
    BY <1>0, <1>T, <1>2, JoinedType DEF RequestInv, PutIpList
  <2> QED BY <1>0, <1>T, <1>2, <2>1 DEF RequestInv, PutIpList
<1>3. ASSUME NEW r \in Requests, PutIpListError(r) PROVE Goal
  <2>1. id[r] \in TaskIds /\ Joined(IpList[r]) # None
    BY <1>0, <1>T, <1>3, JoinedType DEF RequestInv, PutIpListError
  <2>2. list' = list \/ list' = [list EXCEPT ![id[r]] = Joined(IpList[r])]
    BY <1>3 DEF PutIpListError
  <2>3. \A t \in TaskIds : list[t] # None => list'[t] # None
    BY <1>T, <2>1, <2>2
  <2>4. id' = id /\ stage' = [stage EXCEPT ![r] = "failed"]
    BY <1>3 DEF PutIpListError
  <2>5. RequestInv'
    BY <1>0, <1>T, <2>3, <2>4 DEF RequestInv
  <2> QED BY <1>T, <1>3, <2>3, <2>4, <2>5 DEF PutIpListError
<1>4. ASSUME NEW r \in Requests, NEW next \in {"send", "failed"}, ReadFile(r, next) PROVE Goal
  BY <1>0, <1>T, <1>4 DEF RequestInv, ReadFile
<1>5. ASSUME NEW r \in Requests, Multicast(r) PROVE Goal
  BY <1>0, <1>T, <1>5 DEF RequestInv, Multicast
<1>6. ASSUME UNCHANGED <<stage, id, list>> PROVE Goal
  BY <1>0, <1>6 DEF RequestInv
<1> HIDE DEF Goal
<1>7. Goal
  BY <1>1, <1>2, <1>3, <1>4, <1>5, <1>6, RequestsOnly
<1> QED BY <1>7 DEF Goal

\* Every step keeps the addresses of a task those of a request with its id.
LEMMA ListStep == TaskInv /\ [Next]_vars => ListInv'
<1> SUFFICES ASSUME TaskInv, [Next]_vars PROVE ListInv'
  OBVIOUS
<1>0. ListInv
  BY DEF TaskInv
<1>T. /\ id \in [Requests -> TaskIds \cup {None}]
      /\ list \in [TaskIds -> Seq(Addrs) \cup {None}]
      /\ None \notin TaskIds
  BY RequestAssumption DEF TaskInv, TypeOK
<1>D. \A r \in Requests : id[r] # None => id'[r] = id[r]
  BY RequestStep
<1> DEFINE Of(v, t) == \E r \in Requests : id'[r] = t /\ v = Joined(IpList[r])
<1>A. \A t \in TaskIds : list[t] # None => Of(list[t], t)
  BY <1>0, <1>T, <1>D DEF ListInv
<1>1. CASE list' = list
  BY <1>A, <1>1 DEF ListInv
<1>2. ASSUME NEW r \in Requests, PutIpList(r) \/ PutIpListError(r), list' # list PROVE ListInv'
  <2>1. stage[r] = "put" /\ list' = [list EXCEPT ![id[r]] = Joined(IpList[r])]
    BY <1>2 DEF PutIpList, PutIpListError
  <2>2. id[r] \in TaskIds /\ id'[r] = id[r]
    BY <1>D, <1>T, <2>1 DEF TaskInv, RequestInv
  <2>3. Of(Joined(IpList[r]), id[r])
    BY <2>2
  <2> HIDE DEF Of
  <2>4. \A t \in TaskIds : list'[t] # None => Of(list'[t], t)
    BY <1>A, <1>T, <2>1, <2>2, <2>3
  <2> QED BY <2>4 DEF ListInv, Of
<1>3. ASSUME list' # list PROVE \E r \in Requests : PutIpList(r) \/ PutIpListError(r)
  BY <1>3, RequestsOnly DEF DrawTaskId, Multicast, ReadFile
<1> QED BY <1>1, <1>2, <1>3

\* Every step keeps what is known of the commands and responses on their way.
LEMMA TransitStep == TaskInv /\ [Next]_vars => TransitInv'
<1> SUFFICES ASSUME TaskInv, [Next]_vars PROVE TransitInv'
  OBVIOUS
<1> USE DEF agentVars
<1>0. TransitInv
  BY DEF TaskInv
<1>T. /\ inbox \in [Ips -> Seq(Msgs)]
      /\ outbox \in [Ips -> Seq(Msgs)]
      /\ running \in [Ips -> Msgs \cup {None}]
      /\ handling \in SUBSET Msgs
  BY DEF TaskInv, TypeOK
<1> DEFINE Now(m, ip) == stage'[m.req] = "done" /\ m.ip = ip
<1> DEFINE In(s, ip)  == \A i \in 1 .. Len(s) : Now(s[i], ip)
<1> DEFINE Run(m, ip) == m # None => Now(m, ip)
<1> DEFINE Out(s, ip) == \A i \in 1 .. Len(s) : Now(s[i], ip) /\ Kind[s[i].req] # "file"
<1> DEFINE Hdl(m)     == Now(m, m.ip) /\ Kind[m.req] # "file"
<1>S. \A m \in Msgs : \A ip : Sent(m, ip) => Now(m, ip)
  BY RequestStep, MsgFields DEF Sent
<1>I. \A ip \in Ips : In(inbox[ip], ip)
  BY <1>0, <1>T, <1>S DEF TransitInv
<1>R. \A ip \in Ips : Run(running[ip], ip)
  BY <1>0, <1>T, <1>S DEF TransitInv
<1>O. \A ip \in Ips : Out(outbox[ip], ip)
  BY <1>0, <1>T, <1>S DEF TransitInv
<1>H. \A m \in handling : Hdl(m)
  BY <1>0, <1>T, <1>S DEF TransitInv
<1>G. ASSUME \A ip \in Ips : In(inbox'[ip], ip) /\ Run(running'[ip], ip) /\ Out(outbox'[ip], ip),
             \A m \in handling' : Hdl(m)
      PROVE  TransitInv'
  BY <1>G DEF TransitInv, Sent
<1>1. ASSUME NEW r \in Requests, Multicast(r) PROVE TransitInv'
  <2>1. stage'[r] = "done" /\ UNCHANGED <<running, outbox, handling>>
    BY <1>1 DEF Multicast, TaskInv, TypeOK
  <2>2. ASSUME NEW ip \in Ips PROVE In(inbox'[ip], ip)
    <3>1. inbox[ip] \in Seq(Msgs) /\ In(inbox[ip], ip)
      BY <1>T, <1>I
    <3>2. CASE up[ip]
      <4>1. inbox'[ip] = inbox[ip] \o Copies(r, ip)
        BY <1>1, <3>2 DEF Multicast
      <4>2. PICK d \in Seq(Msgs) : /\ d = inbox'[ip]
                                   /\ \A m \in Msgs : Queued(d, m) <=> Queued(inbox[ip], m) \/ Queued(Copies(r, ip), m)
        <5>1. PICK c \in Seq(Msgs) : c = Copies(r, ip)
          BY CopiesAre
        <5>2. PICK b \in Seq(Msgs) : b = inbox[ip]
          BY <3>1
        <5>3. b \o c \in Seq(Msgs) /\ \A m \in Msgs : Queued(b \o c, m) <=> Queued(b, m) \/ Queued(c, m)
          BY ConcatQueue
        <5> QED BY <4>1, <5>1, <5>2, <5>3, Zenon
      <4>3. ASSUME NEW m \in Msgs, Queued(Copies(r, ip), m) PROVE Now(m, ip)
        BY <2>1, <4>3, CopiesAre
      <4>4. ASSUME NEW m \in Msgs, Queued(inbox[ip], m) PROVE Now(m, ip)
        BY <3>1, <4>4 DEF Queued
      <4>5. \A i \in 1 .. Len(d) : d[i] \in Msgs /\ Queued(d, d[i])
        BY DEF Queued
      <4> HIDE DEF Now
      <4> QED BY <4>2, <4>3, <4>4, <4>5
    <3>3. CASE ~ up[ip]
      <4>1. inbox'[ip] = inbox[ip]
        BY <1>1, <3>3 DEF Multicast
      <4> QED BY <3>1, <4>1
    <3> QED BY <3>2, <3>3
  <2> QED BY <1>R, <1>O, <1>H, <1>G, <2>1, <2>2
<1> HIDE DEF Now
<1>2. ASSUME NEW ip \in Ips, HandleRunMsg(ip) PROVE TransitInv'
  <2>1. inbox[ip] \in Seq(Msgs) /\ inbox[ip] # << >> /\ In(inbox[ip], ip)
    BY <1>T, <1>I, <1>2 DEF HandleRunMsg
  <2>2. In(Tail(inbox[ip]), ip) /\ Now(Head(inbox[ip]), ip)
    BY <2>1
  <2>3. inbox' = [inbox EXCEPT ![ip] = Tail(inbox[ip])]
        /\ running' = [running EXCEPT ![ip] = Head(inbox[ip])] /\ UNCHANGED <<outbox, handling>>
    BY <1>2 DEF HandleRunMsg
  <2> HIDE DEF In, Out, Hdl
  <2>4. \A a \in Ips : In(inbox'[a], a) /\ Run(running'[a], a)
    BY <1>T, <1>I, <1>R, <2>2, <2>3
  <2> QED BY <1>O, <1>H, <1>G, <2>3, <2>4
<1>3. ASSUME NEW ip \in Ips, SendRsp(ip) PROVE TransitInv'
  <2>1. /\ running[ip] # None /\ Kind[running[ip].req] # "file" /\ UNCHANGED <<inbox, handling>>
        /\ running' = [running EXCEPT ![ip] = None]
        /\ outbox' = [outbox EXCEPT ![ip] = IF up[ip] THEN Append(outbox[ip], running[ip])
                                                      ELSE outbox[ip]]
    BY <1>3 DEF SendRsp
  <2>2. Now(running[ip], ip) /\ running[ip] \in Msgs
    BY <1>T, <1>R, <2>1
  <2>3. outbox[ip] \in Seq(Msgs) /\ Out(outbox[ip], ip)
    BY <1>T, <1>O
  <2>4. Out(Append(outbox[ip], running[ip]), ip)
    BY <2>1, <2>2, <2>3
  <2>5. \A a \in Ips : Run(running'[a], a)
    BY <1>T, <1>R, <2>1
  <2> HIDE DEF In, Out, Hdl, Run
  <2>6. \A a \in Ips : Out(outbox'[a], a)
    BY <1>T, <1>O, <2>1, <2>3, <2>4
  <2> QED BY <1>I, <1>H, <1>G, <2>1, <2>5, <2>6
<1>4. ASSUME NEW ip \in Ips, EndSilently(ip) PROVE TransitInv'
  <2>1. running' = [running EXCEPT ![ip] = None] /\ UNCHANGED <<inbox, outbox, handling>>
    BY <1>4 DEF EndSilently
  <2>2. \A a \in Ips : Run(running'[a], a)
    BY <1>T, <1>R, <2>1
  <2> HIDE DEF In, Out, Hdl, Run
  <2> QED BY <1>I, <1>O, <1>H, <1>G, <2>1, <2>2
<1>5. ASSUME NEW ip \in Ips, Break(ip) PROVE TransitInv'
  <2>1. /\ inbox' = [inbox EXCEPT ![ip] = << >>] /\ outbox' = [outbox EXCEPT ![ip] = << >>]
        /\ UNCHANGED <<running, handling>>
    BY <1>5 DEF Break
  <2>2. In(<< >>, ip) /\ Out(<< >>, ip)
    OBVIOUS
  <2> HIDE DEF In, Out, Hdl, Run
  <2>3. \A a \in Ips : In(inbox'[a], a) /\ Out(outbox'[a], a)
    BY <1>T, <1>I, <1>O, <2>1, <2>2
  <2> QED BY <1>R, <1>H, <1>G, <2>1, <2>3
<1>6. ASSUME NEW ip \in Ips, GetRsp(ip) PROVE TransitInv'
  <2>1. /\ outbox' = [outbox EXCEPT ![ip] = Tail(outbox[ip])]
        /\ handling' = handling \cup {Head(outbox[ip])}
        /\ UNCHANGED <<inbox, running>>
    BY <1>6 DEF GetRsp
  <2>2. outbox[ip] \in Seq(Msgs) /\ outbox[ip] # << >> /\ Out(outbox[ip], ip)
    BY <1>T, <1>O, <1>6 DEF GetRsp
  <2>3. Out(Tail(outbox[ip]), ip) /\ Now(Head(outbox[ip]), ip) /\ Kind[Head(outbox[ip]).req] # "file"
    BY <2>2
  <2>4. Hdl(Head(outbox[ip]))
    BY <2>3 DEF Now
  <2> HIDE DEF In, Out, Hdl, Run
  <2>5. \A a \in Ips : Out(outbox'[a], a)
    BY <1>T, <1>O, <2>1, <2>3
  <2> QED BY <1>I, <1>R, <1>H, <1>G, <2>1, <2>4, <2>5
<1> HIDE DEF In, Out, Hdl, Run
<1>7. ASSUME NEW m \in Msgs, HandleShellRunRsp(m) \/ PutResultError(m) \/ RefuseRsp(m)
      PROVE  TransitInv'
  <2>1. handling' = handling \ {m} /\ UNCHANGED <<inbox, running, outbox>>
    BY <1>7 DEF HandleShellRunRsp, PutResultError, RefuseRsp
  <2> QED BY <1>I, <1>R, <1>O, <1>H, <1>G, <2>1
<1>8. ASSUME UNCHANGED <<inbox, running, outbox, handling>> PROVE TransitInv'
  BY <1>I, <1>R, <1>O, <1>H, <1>G, <1>8
<1>9. ASSUME NEW r \in Requests,
             \/ \E t \in TaskIds : DrawTaskId(r, t)
             \/ PutIpList(r) \/ PutIpListError(r)
             \/ \E next \in {"send", "failed"} : ReadFile(r, next)
      PROVE  TransitInv'
  BY <1>8, <1>9 DEF DrawTaskId, PutIpList, PutIpListError, ReadFile
<1>10. ASSUME NEW ip \in Ips, Connect(ip) PROVE TransitInv'
  BY <1>8, <1>10 DEF Connect
<1>11. ASSUME NEW t \in TaskIds, GetIpList(t) PROVE TransitInv'
  BY <1>8, <1>11 DEF GetIpList
<1>12. CASE ReadResult \/ Answer
  BY <1>8, <1>12 DEF ReadResult, Answer
<1>13. CASE UNCHANGED vars
  BY <1>8, <1>13 DEF vars
<1> QED BY <1>1, <1>2, <1>3, <1>4, <1>5, <1>6, <1>7, <1>9, <1>10, <1>11, <1>12, <1>13
        DEF Next, Request, AgentStep

\* A result changes only by the put of a response, under its id and address.
LEMMA ResultsOnly ==
  ASSUME [Next]_vars, result' # result
  PROVE  \E m \in handling : /\ m \in Msgs
                             /\ Kind[m.req] = "shell"
                             /\ result' = [result EXCEPT ![id[m.req]][m.ip] = m]
<1> USE DEF agentVars
<1>1. ASSUME NEW r \in Requests, Request(r) PROVE result' = result
  BY <1>1 DEF Request, DrawTaskId, PutIpList, PutIpListError, ReadFile, Multicast
<1>2. ASSUME NEW ip \in Ips, AgentStep(ip) \/ GetRsp(ip) PROVE result' = result
  BY <1>2 DEF AgentStep, HandleRunMsg, SendRsp, EndSilently, Break, Connect, GetRsp
<1>3. ASSUME NEW t \in TaskIds, GetIpList(t) PROVE result' = result
  BY <1>3 DEF GetIpList
<1>4. ASSUME ReadResult \/ Answer PROVE result' = result
  BY <1>4 DEF ReadResult, Answer
<1>5. ASSUME UNCHANGED vars PROVE result' = result
  BY <1>5 DEF vars
<1>6. ASSUME NEW m \in Msgs, RefuseRsp(m) PROVE result' = result
  BY <1>6 DEF RefuseRsp
<1>7. PICK m \in Msgs : HandleShellRunRsp(m) \/ PutResultError(m)
  BY <1>1, <1>2, <1>3, <1>4, <1>5, <1>6 DEF Next
<1> QED BY <1>7 DEF HandleShellRunRsp, PutResultError

\* Every step keeps the results authentic and behind their addresses.
LEMMA ResultsStep == TaskInv /\ [Next]_vars => ResultsAuthentic' /\ ListBeforeResults'
<1> SUFFICES ASSUME TaskInv, [Next]_vars PROVE ResultsAuthentic' /\ ListBeforeResults'
  OBVIOUS
<1>0. ResultsAuthentic /\ ListBeforeResults
  BY DEF TaskInv
<1>T. /\ id \in [Requests -> TaskIds \cup {None}]
      /\ result \in [TaskIds -> [Ips -> Msgs \cup {None}]]
      /\ None \notin TaskIds
  BY RequestAssumption DEF TaskInv, TypeOK
<1>D. \A r \in Requests : id[r] # None => id'[r] = id[r]
  BY RequestStep
<1>L. \A t \in TaskIds : list[t] # None => list'[t] # None
  BY RequestStep
<1>S. \A r \in Requests : stage[r] = "done" => stage'[r] = "done"
  BY RequestStep
<1> DEFINE Auth(v, t, ip) == \E m \in Msgs : /\ v = m
                                             /\ id'[m.req] = t
                                             /\ Kind[m.req] = "shell"
                                             /\ stage'[m.req] = "done" /\ m.ip = ip
<1>A. \A t \in TaskIds, ip \in Ips : result[t][ip] # None => Auth(result[t][ip], t, ip)
  BY <1>0, <1>T, <1>D, <1>S, MsgFields DEF ResultsAuthentic, Sent
<1>B. \A t \in TaskIds, ip \in Ips : result[t][ip] # None => list'[t] # None
  BY <1>0, <1>L DEF ListBeforeResults
<1>1. CASE result' = result
  <2>1. ResultsAuthentic'
    BY <1>A, <1>1 DEF ResultsAuthentic, Sent
  <2>2. ListBeforeResults'
    BY <1>B, <1>1 DEF ListBeforeResults
  <2> QED BY <2>1, <2>2
<1>2. CASE result' # result
  <2>1. PICK m \in handling : /\ m \in Msgs
                              /\ Kind[m.req] = "shell"
                              /\ result' = [result EXCEPT ![id[m.req]][m.ip] = m]
    BY <1>2, ResultsOnly
  <2>2. m.req \in Requests /\ m.ip \in Ips
    BY <2>1, MsgFields
  <2>3. stage[m.req] = "done"
    BY <2>1 DEF TaskInv, TransitInv, Sent
  <2>4. id[m.req] # None /\ list[id[m.req]] # None
    BY <2>1, <2>2, <2>3 DEF TaskInv, RequestInv
  <2>5. id[m.req] \in TaskIds /\ id'[m.req] = id[m.req] /\ list'[id[m.req]] # None
    BY <1>T, <1>D, <1>L, <2>2, <2>4
  <2>6. Auth(m, id[m.req], m.ip)
    BY <1>S, <2>1, <2>2, <2>3, <2>5
  <2> HIDE DEF Auth
  <2>7. ASSUME NEW t \in TaskIds, NEW ip \in Ips, result'[t][ip] # None
        PROVE  Auth(result'[t][ip], t, ip) /\ list'[t] # None
    <3>1. CASE t = id[m.req] /\ ip = m.ip
      <4>1. result'[t][ip] = m
        BY <1>T, <2>1, <2>2, <2>5, <3>1
      <4> QED BY <2>5, <2>6, <3>1, <4>1
    <3>2. CASE ~ (t = id[m.req] /\ ip = m.ip)
      <4>1. result'[t][ip] = result[t][ip]
        BY <1>T, <2>1, <2>2, <2>5, <3>2
      <4> QED BY <1>A, <1>B, <2>7, <4>1
    <3> QED BY <3>1, <3>2
  <2>8. ResultsAuthentic'
    BY <2>7 DEF ResultsAuthentic, Auth, Sent
  <2>9. ListBeforeResults'
    BY <2>7 DEF ListBeforeResults
  <2> QED BY <2>8, <2>9
<1> QED BY <1>1, <1>2

\* A query changes only by GetShellResult.
LEMMA QueryOnly ==
  ASSUME [Next]_vars, query' # query
  PROVE  ReadResult \/ Answer \/ \E t \in TaskIds : GetIpList(t)
<1>1. ASSUME NEW r \in Requests, Request(r) PROVE query' = query
  BY <1>1 DEF Request, DrawTaskId, PutIpList, PutIpListError, ReadFile, Multicast
<1>2. ASSUME NEW ip \in Ips, AgentStep(ip) \/ GetRsp(ip) PROVE query' = query
  BY <1>2 DEF AgentStep, HandleRunMsg, SendRsp, EndSilently, Break, Connect, GetRsp
<1>3. ASSUME NEW m \in Msgs, HandleShellRunRsp(m) \/ PutResultError(m) \/ RefuseRsp(m)
      PROVE  query' = query
  BY <1>3 DEF HandleShellRunRsp, PutResultError, RefuseRsp
<1>4. ASSUME UNCHANGED vars PROVE query' = query
  BY <1>4 DEF vars
<1> QED BY <1>1, <1>2, <1>3, <1>4 DEF Next

\* Every step keeps the rows of an answer to the queried task.
LEMMA AnswerStep == TaskInv /\ [Next]_vars => QueryInv' /\ AnswerFromTask'
<1> SUFFICES ASSUME TaskInv, [Next]_vars PROVE QueryInv' /\ AnswerFromTask'
  OBVIOUS
<1>0. QueryInv /\ AnswerFromTask /\ ResultsAuthentic /\ ListInv
  BY DEF TaskInv
<1>T. /\ id \in [Requests -> TaskIds \cup {None}]
      /\ query \in [at : {"idle", "read"}, task : TaskIds \cup {None}, left : Seq(Addrs),
                    dict : [ip : Addrs \cup {None}, status : {"failed", "success"},
                            output : Msgs \cup [iplist : Seq(Addrs)] \cup {None}]]
      /\ None \notin TaskIds
  BY RequestAssumption DEF TaskInv, TypeOK
<1>D. \A r \in Requests : id[r] # None => id'[r] = id[r]
  BY RequestStep
<1>L. \A t \in TaskIds : list[t] # None => list'[t] # None
  BY RequestStep
<1> DEFINE Shows(dict, t) ==
      \/ \E m \in Msgs : dict.output = m /\ id'[m.req] = t /\ StartsWith(m.ip, dict.ip)
      \/ /\ dict.ip = Empty
         /\ \E r \in Requests : id'[r] = t /\ dict.output = [iplist |-> Joined(IpList[r])]
<1>A. ASSUME query'.dict.status = "success" => Shows(query'.dict, query'.task) PROVE AnswerFromTask'
  BY <1>A DEF AnswerFromTask, StartsWith
<1>1. CASE query' = query
  <2>1. QueryInv'
    BY <1>0, <1>1, <1>L, <1>T DEF QueryInv
  <2>2. CASE query.dict.status = "success"
    <3>1. query.at = "read" /\ query.task # None
      BY <1>0, <1>T, <2>2 DEF QueryInv
    <3>2. \A r \in Requests : id[r] = query.task => id'[r] = query.task
      BY <1>D, <3>1
    <3>3. Shows(query.dict, query.task)
      BY <1>0, <2>2, <3>2, MsgFields DEF AnswerFromTask
    <3> HIDE DEF Shows
    <3> QED BY <1>1, <1>A, <2>1, <3>3
  <2>3. CASE query.dict.status # "success"
    BY <1>1, <2>1, <2>3 DEF AnswerFromTask
  <2> QED BY <2>2, <2>3
<1>2. CASE Answer
  BY <1>2 DEF Answer, NoQuery, EmptyDict, QueryInv, AnswerFromTask
<1>3. ASSUME NEW t \in TaskIds, GetIpList(t) PROVE QueryInv' /\ AnswerFromTask'
  BY <1>T, <1>3 DEF GetIpList, NoQuery, EmptyDict, QueryInv, AnswerFromTask
<1>4. CASE ReadResult
  <2>1. query.at = "read" /\ query.task \in TaskIds /\ list[query.task] # None /\ id' = id /\ list' = list
    BY <1>0, <1>T, <1>4 DEF ReadResult, QueryInv
  <2>2. PICK ip : ip = Head(query.left)
    OBVIOUS
  <2>3. CASE GetResultError(ip)
    <3>1. query'.at = "read" /\ query'.task = query.task /\ query'.dict.status = "failed"
      BY <1>T, <2>1, <2>3 DEF GetResultError, EmptyDict
    <3> QED BY <2>1, <1>T, <3>1 DEF QueryInv, AnswerFromTask
  <2>4. CASE GetResult(ip)
    <3>1. PICK v : v = GetSingleCfg(query.task, ip)
      OBVIOUS
    <3>2. /\ query'.at = "read" /\ query'.task = query.task
          /\ query'.dict = [ip |-> ip, status |-> "success", output |-> v]
      BY <1>T, <2>1, <2>4, <3>1 DEF GetResult
    <3>3. query'.dict.ip = ip /\ query'.dict.output = v
      BY <3>2
    <3>4. QueryInv'
      BY <1>T, <2>1, <3>2 DEF QueryInv
    <3>5. CASE Matching(query.task, ip) # {}
      <4>1. PICK j \in Matching(query.task, ip) : v = result[query.task][j]
        BY <3>1, <3>5, FirstMatch
      <4>2. j \in Ips /\ result[query.task][j] # None /\ StartsWith(j, ip)
        BY <4>1 DEF Matching
      <4>3. PICK m \in Msgs : v = m /\ id[m.req] = query.task /\ m.ip = j
        BY <1>0, <2>1, <4>1, <4>2 DEF ResultsAuthentic, Sent
      <4>4. Shows(query'.dict, query'.task)
        BY <2>1, <3>2, <3>3, <4>2, <4>3
      <4> QED BY <1>A, <3>4, <4>4
    <3>6. CASE Matching(query.task, ip) = {}
      <4>1. ip = Empty /\ v = [iplist |-> list[query.task]]
        BY <2>4, <3>1, <3>6 DEF GetResult, GetSingleCfg
      <4>2. PICK r \in Requests : id[r] = query.task /\ list[query.task] = Joined(IpList[r])
        BY <1>0, <2>1 DEF ListInv
      <4>3. Shows(query'.dict, query'.task)
        BY <2>1, <3>2, <3>3, <4>1, <4>2
      <4> QED BY <1>A, <3>4, <4>3
    <3> QED BY <3>5, <3>6
  <2> QED BY <1>4, <2>2, <2>3, <2>4 DEF ReadResult
<1> QED BY <1>1, <1>2, <1>3, <1>4, QueryOnly

\* The invariant of a task's way through the server, the agents and etcd.
THEOREM TaskInvariant == Spec => []TaskInv
<1>1. TaskInv /\ [Next]_vars => TaskInv'
  BY TypeStep, RequestStep, ListStep, TransitStep, ResultsStep, AnswerStep DEF TaskInv
<1> QED BY InvInit, <1>1, PTL DEF Spec

-----------------------------------------------------------------------------
(* A message is in one place of its way at a time. *)

OneAt(m) == \A p, q \in Stations : IsAt(p, m) /\ IsAt(q, m) => p = q

LEMMA TailQueue ==
  ASSUME NEW s \in Seq(Msgs), s # << >>, NEW m, Once(s, m)
  PROVE  /\ Once(Tail(s), m)
         /\ Queued(Tail(s), m) => Queued(s, m) /\ m # Head(s)
         /\ Queued(s, Head(s))
<1>1. /\ Len(s) \in Nat \ {0} /\ Len(Tail(s)) = Len(s) - 1 /\ Head(s) = s[1]
      /\ \A i \in 1 .. Len(s) - 1 : Tail(s)[i] = s[i + 1]
  OBVIOUS
<1>2. Once(Tail(s), m)
  <2> SUFFICES ASSUME NEW i \in 1 .. Len(Tail(s)), NEW j \in 1 .. Len(Tail(s)),
                      Tail(s)[i] = m, Tail(s)[j] = m
               PROVE  i = j
    BY DEF Once
  <2>1. i + 1 \in 1 .. Len(s) /\ j + 1 \in 1 .. Len(s) /\ s[i + 1] = m /\ s[j + 1] = m
    BY <1>1
  <2>2. i + 1 = j + 1
    BY <2>1 DEF Once
  <2> QED BY <2>2
<1>3. ASSUME Queued(Tail(s), m) PROVE Queued(s, m) /\ m # Head(s)
  <2>1. PICK i \in 1 .. Len(Tail(s)) : Tail(s)[i] = m
    BY <1>3 DEF Queued
  <2>2. i + 1 \in 1 .. Len(s) /\ s[i + 1] = m /\ 1 \in 1 .. Len(s) /\ i + 1 # 1
    BY <1>1, <2>1
  <2> QED BY <1>1, <2>2 DEF Queued, Once
<1>4. Queued(s, Head(s))
  BY <1>1 DEF Queued
<1> QED BY <1>2, <1>3, <1>4

LEMMA AppendQueue ==
  ASSUME NEW s \in Seq(Msgs), NEW q \in Msgs, NEW m, Once(s, m), q = m => ~ Queued(s, m)
  PROVE  /\ Once(Append(s, q), m)
         /\ Queued(Append(s, q), m) => Queued(s, m) \/ m = q
<1>1. /\ Len(s) \in Nat /\ Len(Append(s, q)) = Len(s) + 1 /\ Append(s, q)[Len(s) + 1] = q
      /\ \A i \in 1 .. Len(s) : Append(s, q)[i] = s[i]
  OBVIOUS
<1>2. \A i \in 1 .. Len(s) + 1 : i \in 1 .. Len(s) \/ i = Len(s) + 1
  BY <1>1
<1>3. ASSUME NEW i \in 1 .. Len(s) + 1, Append(s, q)[i] = m
      PROVE  (i \in 1 .. Len(s) /\ s[i] = m) \/ (i = Len(s) + 1 /\ m = q)
  BY <1>1, <1>2, <1>3
<1> QED BY <1>1, <1>3 DEF Once, Queued

\* A command that stays where it is, is dropped, or moves from p to q is not in
\* two places after the step if it was not before.
LEMMA Stays ==
  ASSUME NEW m, OneAt(m), \A x \in Stations : IsAt(x, m)' => IsAt(x, m)
  PROVE  OneAt(m)'
BY Zenon DEF OneAt

LEMMA Moves ==
  ASSUME NEW m, OneAt(m), NEW p \in Stations, NEW q \in Stations, IsAt(p, m),
         \A x \in Stations : IsAt(x, m)' => x = q \/ (x # p /\ IsAt(x, m))
  PROVE  OneAt(m)'
BY Zenon DEF OneAt

Stored(m) == \E t \in TaskIds : result[t][m.ip] = m

LEMMA Station ==
  ASSUME NEW m
  PROVE  /\ IsAt("inbox", m) <=> Queued(inbox[m.ip], m)
         /\ IsAt("running", m) <=> running[m.ip] = m
         /\ IsAt("outbox", m) <=> Queued(outbox[m.ip], m)
         /\ IsAt("handling", m) <=> m \in handling
         /\ IsAt("etcd", m) <=> Stored(m)
BY DEF IsAt, Queued, Stored

LEMMA StationNext ==
  ASSUME NEW m
  PROVE  /\ IsAt("inbox", m)' <=> Queued(inbox'[m.ip], m)
         /\ IsAt("running", m)' <=> running'[m.ip] = m
         /\ IsAt("outbox", m)' <=> Queued(outbox'[m.ip], m)
         /\ IsAt("handling", m)' <=> m \in handling'
         /\ IsAt("etcd", m)' <=> Stored(m)'
BY DEF IsAt, Queued, Stored

LEMMA Keep ==
  ASSUME NEW m, OneAt(m),
         Queued(inbox'[m.ip], m) => Queued(inbox[m.ip], m), running'[m.ip] = m => running[m.ip] = m,
         Queued(outbox'[m.ip], m) => Queued(outbox[m.ip], m),
         m \in handling' => m \in handling,
         Stored(m)' => Stored(m)
  PROVE  OneAt(m)'
<1>1. \A x \in Stations : IsAt(x, m)' => IsAt(x, m)
  <2>1. IsAt("inbox", m)' => IsAt("inbox", m)
    BY Station, StationNext
  <2>2. IsAt("running", m)' => IsAt("running", m)
    BY Station, StationNext
  <2>3. IsAt("outbox", m)' => IsAt("outbox", m)
    BY Station, StationNext
  <2>4. IsAt("handling", m)' => IsAt("handling", m)
    BY Station, StationNext
  <2>5. IsAt("etcd", m)' => IsAt("etcd", m)
    BY Station, StationNext
  <2>6. ASSUME NEW x \in Stations, IsAt(x, m)'
        PROVE  IsAt(x, m)
    <3>1. CASE x = "inbox"
      BY <2>6, <2>1, <3>1
    <3>2. CASE x = "running"
      BY <2>6, <2>2, <3>2
    <3>3. CASE x = "outbox"
      BY <2>6, <2>3, <3>3
    <3>4. CASE x = "handling"
      BY <2>6, <2>4, <3>4
    <3>5. CASE x = "etcd"
      BY <2>6, <2>5, <3>5
    <3> QED BY <3>1, <3>2, <3>3, <3>4, <3>5 DEF Stations
  <2> QED BY <2>6
<1> QED BY <1>1, Stays

LEMMA Shift ==
  ASSUME NEW m, OneAt(m), NEW p \in Stations, NEW q \in Stations, IsAt(p, m),
         Queued(inbox'[m.ip], m) => q = "inbox" \/ (p # "inbox" /\ Queued(inbox[m.ip], m)),
         running'[m.ip] = m => q = "running" \/ (p # "running" /\ running[m.ip] = m),
         Queued(outbox'[m.ip], m) => q = "outbox" \/ (p # "outbox" /\ Queued(outbox[m.ip], m)),
         m \in handling' => q = "handling" \/ (p # "handling" /\ m \in handling),
         Stored(m)' => q = "etcd" \/ (p # "etcd" /\ Stored(m))
  PROVE  OneAt(m)'
<1>1. \A x \in Stations : IsAt(x, m)' => x = q \/ (x # p /\ IsAt(x, m))
  <2>1. IsAt("inbox", m)' => "inbox" = q \/ ("inbox" # p /\ IsAt("inbox", m))
    BY Station, StationNext
  <2>2. IsAt("running", m)' => "running" = q \/ ("running" # p /\ IsAt("running", m))
    BY Station, StationNext
  <2>3. IsAt("outbox", m)' => "outbox" = q \/ ("outbox" # p /\ IsAt("outbox", m))
    BY Station, StationNext
  <2>4. IsAt("handling", m)' => "handling" = q \/ ("handling" # p /\ IsAt("handling", m))
    BY Station, StationNext
  <2>5. IsAt("etcd", m)' => "etcd" = q \/ ("etcd" # p /\ IsAt("etcd", m))
    BY Station, StationNext
  <2>6. ASSUME NEW x \in Stations, IsAt(x, m)'
        PROVE  x = q \/ (x # p /\ IsAt(x, m))
    <3>1. CASE x = "inbox"
      BY <2>6, <2>1, <3>1
    <3>2. CASE x = "running"
      BY <2>6, <2>2, <3>2
    <3>3. CASE x = "outbox"
      BY <2>6, <2>3, <3>3
    <3>4. CASE x = "handling"
      BY <2>6, <2>4, <3>4
    <3>5. CASE x = "etcd"
      BY <2>6, <2>5, <3>5
    <3> QED BY <3>1, <3>2, <3>3, <3>4, <3>5 DEF Stations
  <2> QED BY <2>6
<1> QED BY <1>1, Moves

\* What is somewhere was sent.
LEMMA AtSent ==
  ASSUME TaskInv, NEW m \in Msgs, NEW x \in Stations, IsAt(x, m)
  PROVE  stage[m.req] = "done"
<1>1. TransitInv /\ ResultsAuthentic /\ m.ip \in Ips /\ m # None
  BY MsgFields DEF TaskInv
<1>2. x = "inbox" \/ x = "running" \/ x = "outbox" \/ x = "handling" \/ x = "etcd"
  BY DEF Stations
<1>3. CASE x = "inbox"
  BY <1>1, <1>3, Station DEF TransitInv, Queued, Sent
<1>4. CASE x = "running"
  BY <1>1, <1>4, Station DEF TransitInv, Sent
<1>5. CASE x = "outbox"
  BY <1>1, <1>5, Station DEF TransitInv, Queued, Sent
<1>6. CASE x = "handling"
  BY <1>1, <1>6, Station DEF TransitInv, Sent
<1>7. CASE x = "etcd"
  BY <1>1, <1>7, Station DEF Stored, ResultsAuthentic, Sent
<1> QED BY <1>2, <1>3, <1>4, <1>5, <1>6, <1>7

\* Every step keeps a message in one place of its way.
LEMMA OnceStep == TaskInv /\ OncePerMention /\ [Next]_vars => OncePerMention'
<1> SUFFICES ASSUME TaskInv, OncePerMention, [Next]_vars, NEW m \in Msgs
             PROVE  Once(inbox'[m.ip], m) /\ Once(outbox'[m.ip], m) /\ OneAt(m)'
  BY DEF OncePerMention, OneAt, Once
<1> DEFINE Goal == Once(inbox'[m.ip], m) /\ Once(outbox'[m.ip], m) /\ OneAt(m)'
<1> USE DEF agentVars
<1>T. /\ inbox \in [Ips -> Seq(Msgs)]
      /\ outbox \in [Ips -> Seq(Msgs)]
      /\ running \in [Ips -> Msgs \cup {None}]
      /\ m # None /\ m.ip \in Ips
  BY MsgFields DEF TaskInv, TypeOK
<1>O. Once(inbox[m.ip], m) /\ Once(outbox[m.ip], m) /\ OneAt(m)
  BY DEF OncePerMention, OneAt
<1>Q. inbox[m.ip] \in Seq(Msgs) /\ outbox[m.ip] \in Seq(Msgs)
  BY <1>T
<1>1. ASSUME NEW s \in Requests, Multicast(s) PROVE Goal
  <2>1. /\ stage[s] = "send" /\ UNCHANGED <<running, outbox, handling, result>>
        /\ inbox'[m.ip] = IF up[m.ip] THEN inbox[m.ip] \o Copies(s, m.ip) ELSE inbox[m.ip]
    BY <1>1, <1>T DEF Multicast
  <2>2. Stored(m)' => Stored(m)
    BY <2>1 DEF Stored
  <2>3. CASE inbox'[m.ip] = inbox[m.ip]
    BY <1>O, <2>1, <2>2, <2>3, Keep
  <2>4. CASE inbox'[m.ip] = inbox[m.ip] \o Copies(s, m.ip)
    <3>1. m.req = s => \A x \in Stations : ~ IsAt(x, m)
      BY <2>1, AtSent
    <3>2. PICK c \in Seq(Msgs) : c = Copies(s, m.ip) /\ Once(c, m) /\ (Queued(c, m) <=> m.req = s)
      BY <1>T, CopiesAre
    <3>3. ~ (Queued(inbox[m.ip], m) /\ Queued(c, m))
      BY <3>1, <3>2, Station DEF Stations
    <3>4. Once(inbox'[m.ip], m) /\ (Queued(inbox'[m.ip], m) => Queued(inbox[m.ip], m) \/ m.req = s)
      BY <1>O, <1>Q, <2>4, <3>2, <3>3, ConcatQueue
    <3>5. CASE m.req # s
      BY <1>O, <2>1, <2>2, <3>4, <3>5, Keep
    <3>6. CASE m.req = s
      <4>1. \A x \in Stations : IsAt(x, m)' => x = "inbox"
        <5>1. ~ IsAt("running", m)' /\ ~ IsAt("outbox", m)' /\ ~ IsAt("handling", m)' /\ ~ IsAt("etcd", m)'
          BY <2>1, <2>2, <3>1, <3>6, Station, StationNext DEF Stations
        <5> QED BY <5>1 DEF Stations
      <4>2. OneAt(m)'
        BY <4>1, Zenon DEF OneAt
      <4> QED BY <1>O, <2>1, <3>4, <4>2
    <3> QED BY <3>5, <3>6
  <2> QED BY <2>1, <2>3, <2>4
<1>2. ASSUME NEW a \in Ips, HandleRunMsg(a) PROVE Goal
  <2>1. /\ inbox[a] \in Seq(Msgs) /\ inbox[a] # << >>
        /\ inbox' = [inbox EXCEPT ![a] = Tail(inbox[a])]
        /\ running' = [running EXCEPT ![a] = Head(inbox[a])]
        /\ running[a] = None
        /\ UNCHANGED <<outbox, handling, result>>
    BY <1>T, <1>2 DEF HandleRunMsg
  <2>2. Stored(m)' => Stored(m)
    BY <2>1 DEF Stored
  <2>3. CASE a # m.ip
    <3>1. inbox'[m.ip] = inbox[m.ip] /\ running'[m.ip] = running[m.ip]
      BY <1>T, <2>1, <2>3
    <3> QED BY <1>O, <2>1, <2>2, <3>1, Keep
  <2>4. CASE a = m.ip
    <3>1. inbox'[m.ip] = Tail(inbox[m.ip]) /\ running'[m.ip] = Head(inbox[m.ip])
      BY <1>T, <2>1, <2>4
    <3>2. /\ Once(Tail(inbox[m.ip]), m) /\ Queued(inbox[m.ip], Head(inbox[m.ip]))
          /\ Queued(Tail(inbox[m.ip]), m) => Queued(inbox[m.ip], m) /\ m # Head(inbox[m.ip])
      <4>1. inbox[m.ip] # << >>
        BY <2>1, <2>4
      <4> QED BY <1>O, <1>Q, <4>1, TailQueue
    <3>3. /\ Once(inbox'[m.ip], m) /\ Queued(inbox[m.ip], Head(inbox[m.ip]))
          /\ Queued(inbox'[m.ip], m) => Queued(inbox[m.ip], m) /\ m # Head(inbox[m.ip])
      BY <3>1, <3>2
    <3>4. CASE m # Head(inbox[m.ip])
      BY <1>O, <2>1, <2>2, <3>1, <3>3, <3>4, Keep
    <3>5. CASE m = Head(inbox[m.ip])
      <4>1. IsAt("inbox", m) /\ "inbox" \in Stations /\ "running" \in Stations
        BY <3>3, <3>5, Station DEF Stations
      <4>2. OneAt(m)'
        BY <1>O, <2>1, <2>2, <3>3, <3>5, <4>1, Shift
      <4> QED BY <1>O, <2>1, <3>3, <4>2
    <3> QED BY <3>4, <3>5
  <2> QED BY <2>3, <2>4
<1>3. ASSUME NEW a \in Ips, SendRsp(a) PROVE Goal
  <2>1. /\ running[a] \in Msgs
        /\ running' = [running EXCEPT ![a] = None]
        /\ outbox' = [outbox EXCEPT ![a] = IF up[a] THEN Append(outbox[a], running[a]) ELSE outbox[a]]
        /\ UNCHANGED <<inbox, handling, result>>
    BY <1>T, <1>3 DEF SendRsp
  <2>2. Stored(m)' => Stored(m)
    BY <2>1 DEF Stored
  <2>3. CASE a # m.ip
    <3>1. outbox'[m.ip] = outbox[m.ip] /\ running'[m.ip] = running[m.ip]
      BY <1>T, <2>1, <2>3
    <3> QED BY <1>O, <2>1, <2>2, <3>1, Keep
  <2>4. CASE a = m.ip
    <3>1. running'[m.ip] = None /\ (outbox'[m.ip] = outbox[m.ip] \/ outbox'[m.ip] = Append(outbox[m.ip], running[m.ip]))
      BY <1>T, <2>1, <2>4
    <3>2. CASE outbox'[m.ip] = outbox[m.ip]
      BY <1>O, <1>T, <2>1, <2>2, <3>1, <3>2, Keep
    <3>3. CASE outbox'[m.ip] = Append(outbox[m.ip], running[m.ip])
      <4>1. "running" \in Stations /\ "outbox" \in Stations
        BY DEF Stations
      <4>2. running[m.ip] = m => IsAt("running", m) /\ ~ Queued(outbox[m.ip], m)
        BY <1>O, <4>1, Station DEF OneAt
      <4>3. Once(outbox'[m.ip], m) /\ (Queued(outbox'[m.ip], m) => Queued(outbox[m.ip], m) \/ m = running[m.ip])
        BY <1>O, <1>Q, <2>1, <2>4, <3>3, <4>2, AppendQueue
      <4>4. CASE m # running[m.ip]
        BY <1>O, <1>T, <2>1, <2>2, <3>1, <4>3, <4>4, Keep
      <4>5. CASE m = running[m.ip]
        <5>1. OneAt(m)'
          BY <1>O, <1>T, <2>1, <2>2, <3>1, <4>1, <4>2, <4>5, Shift
        <5> QED BY <1>O, <2>1, <4>3, <5>1
      <4> QED BY <4>4, <4>5
    <3> QED BY <3>1, <3>2, <3>3
  <2> QED BY <2>3, <2>4
<1>4. ASSUME NEW a \in Ips, EndSilently(a) PROVE Goal
  <2>1. running' = [running EXCEPT ![a] = None] /\ UNCHANGED <<inbox, outbox, handling, result>>
    BY <1>4 DEF EndSilently
  <2>2. Stored(m)' => Stored(m)
    BY <2>1 DEF Stored
  <2>3. running'[m.ip] = m => running[m.ip] = m
    BY <1>T, <2>1
  <2> QED BY <1>O, <2>1, <2>2, <2>3, Keep
<1>5. ASSUME NEW a \in Ips, Break(a) PROVE Goal
  <2>1. /\ inbox' = [inbox EXCEPT ![a] = << >>] /\ outbox' = [outbox EXCEPT ![a] = << >>]
        /\ UNCHANGED <<running, handling, result>>
    BY <1>5 DEF Break
  <2>2. Stored(m)' => Stored(m)
    BY <2>1 DEF Stored
  <2>3. /\ inbox'[m.ip] = inbox[m.ip] \/ inbox'[m.ip] = << >>
        /\ outbox'[m.ip] = outbox[m.ip] \/ outbox'[m.ip] = << >>
    BY <1>T, <2>1
  <2>4. Once(<< >>, m) /\ ~ Queued(<< >>, m)
    BY DEF Once, Queued
  <2>5. /\ Once(inbox'[m.ip], m) /\ Once(outbox'[m.ip], m)
        /\ Queued(inbox'[m.ip], m) => Queued(inbox[m.ip], m)
        /\ Queued(outbox'[m.ip], m) => Queued(outbox[m.ip], m)
    BY <1>O, <2>3, <2>4
  <2> QED BY <1>O, <2>1, <2>2, <2>5, Keep
<1>6. ASSUME NEW a \in Ips, GetRsp(a) PROVE Goal
  <2>1. /\ outbox[a] \in Seq(Msgs) /\ outbox[a] # << >>
        /\ outbox' = [outbox EXCEPT ![a] = Tail(outbox[a])]
        /\ handling' = handling \cup {Head(outbox[a])}
        /\ UNCHANGED <<inbox, running, result>>
    BY <1>T, <1>6 DEF GetRsp
  <2>2. Stored(m)' => Stored(m)
    BY <2>1 DEF Stored
  <2>3. m \in handling' => m \in handling \/ (m.ip = a /\ m = Head(outbox[a]))
    <3>1. Head(outbox[a]) = outbox[a][1] /\ 1 \in 1 .. Len(outbox[a])
      BY <2>1
    <3>2. Head(outbox[a]).ip = a
      BY <3>1 DEF TaskInv, TransitInv, Sent
    <3> QED BY <2>1, <3>2
  <2>4. CASE a # m.ip
    <3>1. outbox'[m.ip] = outbox[m.ip]
      BY <1>T, <2>1, <2>4
    <3> QED BY <1>O, <2>1, <2>2, <2>3, <2>4, <3>1, Keep
  <2>5. CASE a = m.ip
    <3>1. outbox'[m.ip] = Tail(outbox[m.ip])
      BY <1>T, <2>1, <2>5
    <3>2. /\ Once(Tail(outbox[m.ip]), m) /\ Queued(outbox[m.ip], Head(outbox[m.ip]))
          /\ Queued(Tail(outbox[m.ip]), m) => Queued(outbox[m.ip], m) /\ m # Head(outbox[m.ip])
      <4>1. outbox[m.ip] # << >>
        BY <2>1, <2>5
      <4> QED BY <1>O, <1>Q, <4>1, TailQueue
    <3>3. /\ Once(outbox'[m.ip], m) /\ Queued(outbox[m.ip], Head(outbox[m.ip]))
          /\ Queued(outbox'[m.ip], m) => Queued(outbox[m.ip], m) /\ m # Head(outbox[m.ip])
      BY <3>1, <3>2
    <3>4. CASE m # Head(outbox[m.ip])
      BY <1>O, <2>1, <2>2, <2>3, <2>5, <3>3, <3>4, Keep
    <3>5. CASE m = Head(outbox[m.ip])
      <4>1. IsAt("outbox", m) /\ "outbox" \in Stations /\ "handling" \in Stations
        BY <3>3, <3>5, Station DEF Stations
      <4>2. OneAt(m)'
        BY <1>O, <2>1, <2>2, <3>3, <3>5, <4>1, Shift
      <4> QED BY <1>O, <2>1, <3>3, <4>2
    <3> QED BY <3>4, <3>5
  <2> QED BY <2>4, <2>5
<1>7. ASSUME NEW k \in Msgs, HandleShellRunRsp(k) \/ PutResultError(k) \/ RefuseRsp(k) PROVE Goal
  <2>1. k \in handling /\ handling' = handling \ {k} /\ UNCHANGED <<inbox, running, outbox>>
    BY <1>7 DEF HandleShellRunRsp, PutResultError, RefuseRsp
  <2>2. result' = result \/ result' = [result EXCEPT ![id[k.req]][k.ip] = k]
    BY <1>7 DEF HandleShellRunRsp, PutResultError, RefuseRsp
  <2>3. Stored(m)' => Stored(m) \/ k = m
    <3> SUFFICES ASSUME NEW t \in TaskIds, result'[t][m.ip] = m, k # m
                 PROVE  result[t][m.ip] = m
      BY DEF Stored
    <3>1. result \in [TaskIds -> [Ips -> Msgs \cup {None}]]
      BY DEF TaskInv, TypeOK
    <3>2. PICK i \in Ips : i = m.ip
      BY <1>T
    <3>3. result'[t][i] = result[t][i] \/ result'[t][i] = k
      BY <2>2, <3>1
    <3> QED BY <3>2, <3>3
  <2>4. CASE k # m
    BY <1>O, <2>1, <2>3, <2>4, Keep
  <2>5. CASE k = m
    <3>1. IsAt("handling", m) /\ "handling" \in Stations /\ "etcd" \in Stations
      BY <2>1, <2>5, Station DEF Stations
    <3>2. OneAt(m)'
      BY <1>O, <2>1, <2>5, <3>1, Shift
    <3> QED BY <1>O, <2>1, <3>2
  <2> QED BY <2>4, <2>5
<1>8. ASSUME UNCHANGED <<inbox, running, outbox, handling, result>> PROVE Goal
  <2>1. Stored(m)' => Stored(m)
    BY <1>8 DEF Stored
  <2> QED BY <1>O, <1>8, <2>1, Keep
<1> HIDE DEF Goal
<1>9. ASSUME NEW s \in Requests,
             \/ \E t \in TaskIds : DrawTaskId(s, t)
             \/ PutIpList(s) \/ PutIpListError(s)
             \/ \E next \in {"send", "failed"} : ReadFile(s, next)
      PROVE  Goal
  BY <1>8, <1>9 DEF DrawTaskId, PutIpList, PutIpListError, ReadFile
<1>10. ASSUME NEW a \in Ips, Connect(a) PROVE Goal
  BY <1>8, <1>10 DEF Connect
<1>11. ASSUME NEW t \in TaskIds, GetIpList(t) PROVE Goal
  BY <1>8, <1>11 DEF GetIpList
<1>12. ASSUME ReadResult \/ Answer PROVE Goal
  BY <1>8, <1>12 DEF ReadResult, Answer
<1>13. ASSUME UNCHANGED vars PROVE Goal
  BY <1>8, <1>13 DEF vars
<1>14. Goal
  BY <1>1, <1>2, <1>3, <1>4, <1>5, <1>6, <1>7, <1>9, <1>10, <1>11, <1>12, <1>13
     DEF Next, Request, AgentStep
<1> QED BY <1>14 DEF Goal

\* However connections break and responses are handled, no message is in two
\* places, so an agent runs a command no more often than the request names it.
THEOREM OncePerMentionCorrect == Spec => []OncePerMention
<1>1. Init => OncePerMention
  <2> SUFFICES ASSUME Init, NEW m \in Msgs
               PROVE  /\ Once(inbox[m.ip], m) /\ Once(outbox[m.ip], m)
                      /\ \A p \in Stations : ~ IsAt(p, m)
    BY DEF OncePerMention
  <2>1. inbox[m.ip] = << >> /\ outbox[m.ip] = << >> /\ running[m.ip] # m /\ handling = {}
    BY MsgFields DEF Init
  <2>2. ~ Queued(<< >>, m) /\ Once(<< >>, m)
    BY DEF Once, Queued
  <2>3. ~ Stored(m)
    BY MsgFields DEF Init, Stored
  <2>4. \A p \in Stations : ~ IsAt(p, m)
    <3>1. /\ ~ IsAt("inbox", m) /\ ~ IsAt("running", m) /\ ~ IsAt("outbox", m)
          /\ ~ IsAt("handling", m) /\ ~ IsAt("etcd", m)
      BY <2>1, <2>2, <2>3, Station
    <3> QED BY <3>1 DEF Stations
  <2> QED BY <2>1, <2>2, <2>4
<1> QED BY <1>1, OnceStep, TaskInvariant, PTL DEF Spec

-----------------------------------------------------------------------------
(* A message moves through its places as module Delivery says. *)

LEMMA TailQueued ==
  ASSUME NEW s \in Seq(Msgs), s # << >>, NEW m, m # Head(s)
  PROVE  Queued(Tail(s), m) <=> Queued(s, m)
<1>1. /\ Len(s) \in Nat \ {0} /\ Len(Tail(s)) = Len(s) - 1 /\ Head(s) = s[1]
      /\ \A i \in 1 .. Len(s) - 1 : Tail(s)[i] = s[i + 1]
  OBVIOUS
<1>2. ASSUME NEW i \in 1 .. Len(Tail(s)), Tail(s)[i] = m PROVE Queued(s, m)
  <2>1. i + 1 \in 1 .. Len(s) /\ s[i + 1] = m
    BY <1>1, <1>2
  <2> QED BY <2>1 DEF Queued
<1>3. ASSUME NEW i \in 1 .. Len(s), s[i] = m PROVE Queued(Tail(s), m)
  <2>1. i # 1 /\ i - 1 \in 1 .. Len(Tail(s)) /\ Tail(s)[i - 1] = m
    BY <1>1, <1>3
  <2> QED BY <2>1 DEF Queued
<1> QED BY <1>2, <1>3 DEF Queued

LEMMA AppendQueued ==
  ASSUME NEW s \in Seq(Msgs), NEW q \in Msgs, NEW m
  PROVE  Queued(Append(s, q), m) <=> Queued(s, m) \/ m = q
<1>1. /\ Len(s) \in Nat /\ Len(Append(s, q)) = Len(s) + 1 /\ Append(s, q)[Len(s) + 1] = q
      /\ \A i \in 1 .. Len(s) : Append(s, q)[i] = s[i]
  OBVIOUS
<1>2. /\ \A i \in 1 .. Len(s) + 1 : i \in 1 .. Len(s) \/ i = Len(s) + 1
      /\ \A i \in 1 .. Len(s) : i \in 1 .. Len(s) + 1
      /\ Len(s) + 1 \in 1 .. Len(s) + 1
  BY <1>1
<1> QED BY <1>1, <1>2 DEF Queued

LEMMA WhereIs ==
  ASSUME NEW m, stage[m.req] = "done", OneAt(m), NEW x \in Stations, IsAt(x, m)
  PROVE  Where(m) = x
<1>1. \A y \in Stations : IsAt(y, m) <=> y = x
  BY DEF OneAt
<1>2. /\ Queued(inbox[m.ip], m) <=> x = "inbox"
      /\ running[m.ip] = m <=> x = "running"
      /\ Queued(outbox[m.ip], m) <=> x = "outbox"
      /\ m \in handling <=> x = "handling"
      /\ Stored(m) <=> x = "etcd"
  BY <1>1, Station DEF Stations
<1> QED BY <1>2 DEF Where, Queued, Stored, Stations

LEMMA WhereWillBe ==
  ASSUME NEW m, stage'[m.req] = "done", OneAt(m)', NEW x \in Stations, IsAt(x, m)'
  PROVE  Where(m)' = x
<1>1. \A y \in Stations : IsAt(y, m)' <=> y = x
  BY DEF OneAt
<1>2. /\ Queued(inbox'[m.ip], m) <=> x = "inbox"
      /\ running'[m.ip] = m <=> x = "running"
      /\ Queued(outbox'[m.ip], m) <=> x = "outbox"
      /\ m \in handling' <=> x = "handling"
      /\ Stored(m)' <=> x = "etcd"
  BY <1>1, StationNext DEF Stations
<1> QED BY <1>2 DEF Where, Queued, Stored, Stations

LEMMA WhereLost ==
  ASSUME NEW m, stage'[m.req] = "done", ~ Queued(inbox'[m.ip], m), running'[m.ip] # m,
         ~ Queued(outbox'[m.ip], m), m \notin handling', ~ Stored(m)'
  PROVE  Where(m)' = "gone"
BY DEF Where, Queued, Stored

LEMMA WhereStays ==
  ASSUME NEW m, stage'[m.req] = "done" <=> stage[m.req] = "done",
         Queued(inbox'[m.ip], m) <=> Queued(inbox[m.ip], m), running'[m.ip] = m <=> running[m.ip] = m,
         Queued(outbox'[m.ip], m) <=> Queued(outbox[m.ip], m),
         m \in handling' <=> m \in handling,
         Stored(m)' <=> Stored(m)
  PROVE  Where(m)' = Where(m)
BY DEF Where, Queued, Stored

\* A step that leaves the other places alone does so in Delivery.
LEMMA OnlyThere ==
  ASSUME NEW S, \A m \in Msgs : m \in S \/ Where(m)' = Where(m)
  PROVE  Del!Only(S)
<1>1. \A m \in Msgs : Where(m)' \in Del!Places
  BY DEF Where, Del!Places, Del!InTransit
<1> QED BY <1>1 DEF Del!Only

\* Multicast sends the messages of a request to the agents that are connected.
LEMMA MulticastRefines ==
  ASSUME TaskInv, OncePerMention', NEW r \in Requests, Multicast(r)
  PROVE  Del!Send(r)
<1>1. /\ stage \in [Requests -> {"new", "put", "send", "done", "failed"}]
      /\ inbox \in [Ips -> Seq(Msgs)]
      /\ stage[r] = "send" /\ stage' = [stage EXCEPT ![r] = "done"]
      /\ UNCHANGED <<running, outbox, handling, result, lost>>
      /\ \A i \in Ips : inbox'[i] = IF up[i] THEN inbox[i] \o Copies(r, i) ELSE inbox[i]
  BY DEF Multicast, TaskInv, TypeOK
<1>2. ASSUME NEW m \in Msgs, up[m.ip]
      PROVE  Queued(inbox'[m.ip], m) <=> Queued(inbox[m.ip], m) \/ m.req = r
  <2>1. PICK i \in Ips : i = m.ip
    BY MsgFields
  <2>2. PICK c \in Seq(Msgs) : c = Copies(r, i) /\ (Queued(c, m) <=> m.req = r)
    BY <2>1, CopiesAre
  <2>3. PICK b \in Seq(Msgs) : b = inbox[i]
    BY <1>1
  <2>4. Queued(b \o c, m) <=> Queued(b, m) \/ m.req = r
    BY <2>2, ConcatQueue
  <2> QED BY <1>1, <1>2, <2>1, <2>2, <2>3, <2>4
<1>3. ASSUME NEW m \in Msgs, m.req = r
      PROVE  /\ Where(m) = "unsent"
             /\ Where(m)' = IF up[m.ip] THEN "inbox" ELSE "gone"
  <2>1. Where(m) = "unsent"
    BY <1>1, <1>3 DEF Where
  <2>2. stage'[m.req] = "done"
    BY <1>1, <1>3
  <2>3. \A x \in Stations : ~ IsAt(x, m)
    BY <1>1, <1>3, AtSent
  <2>4. /\ ~ Queued(inbox[m.ip], m) /\ running[m.ip] # m /\ ~ Queued(outbox[m.ip], m)
        /\ m \notin handling /\ ~ Stored(m)
    BY <2>3, Station DEF Stations
  <2>5. ~ Stored(m)'
    BY <1>1, <2>4 DEF Stored
  <2>6. CASE up[m.ip]
    <3>1. Queued(inbox'[m.ip], m)
      BY <1>2, <1>3, <2>6
    <3>2. IsAt("inbox", m)' /\ "inbox" \in Stations /\ OneAt(m)'
      BY <3>1, StationNext DEF Stations, OncePerMention, OneAt
    <3> QED BY <2>1, <2>2, <2>6, <3>2, WhereWillBe
  <2>7. CASE ~ up[m.ip]
    <3>1. ~ Queued(inbox'[m.ip], m)
      BY <1>1, <2>4, <2>7, MsgFields
    <3> QED BY <1>1, <2>1, <2>2, <2>4, <2>5, <2>7, <3>1, WhereLost
  <2> QED BY <2>6, <2>7
<1>4. ASSUME NEW m \in Msgs, m.req # r PROVE Where(m)' = Where(m)
  <2>1. Queued(inbox'[m.ip], m) <=> Queued(inbox[m.ip], m)
    BY <1>1, <1>2, <1>4, MsgFields
  <2>2. Stored(m)' <=> Stored(m)
    BY <1>1 DEF Stored
  <2>3. stage'[m.req] = stage[m.req]
    BY <1>1, <1>4, MsgFields
  <2> QED BY <1>1, <2>1, <2>2, <2>3, WhereStays
<1>5. Del!Only({m \in Msgs : m.req = r})
  BY <1>4, OnlyThere
<1>6. \A m, k \in Msgs : m.req = r /\ k.req = r /\ m.ip = k.ip => Where(m)' = Where(k)'
  BY <1>3
<1> QED BY <1>1, <1>3, <1>5, <1>6 DEF Del!Send

LEMMA AdvanceBy ==
  ASSUME NEW s \in Msgs, Del!Only({s}), UNCHANGED lost,
         \/ /\ Where(s) = "inbox" /\ Where(s)' = "running"
            /\ \A q \in Msgs : q.ip = s.ip => Where(q) # "running"
         \/ Where(s) = "running" /\ Where(s)' = "outbox" /\ Kind[s.req] # "file"
         \/ Where(s) = "outbox" /\ Where(s)' = "handling"
  PROVE  Del!Advance(s)
<1>1. /\ DOMAIN Del!After = {"inbox", "running", "outbox"}
      /\ Del!After["inbox"] = "running"
      /\ Del!After["running"] = "outbox"
      /\ Del!After["outbox"] = "handling"
  BY DEF Del!After
<1> QED BY <1>1 DEF Del!Advance

\* The message Listen takes was next, and nothing else is running.
LEMMA RunRefines ==
  ASSUME TaskInv, OncePerMention, OncePerMention', NEW a \in Ips, HandleRunMsg(a)
  PROVE  \E m \in Msgs : Del!Advance(m)
<1>1. /\ inbox \in [Ips -> Seq(Msgs)] /\ inbox[a] \in Seq(Msgs) /\ inbox[a] # << >>
      /\ running \in [Ips -> Msgs \cup {None}]
      /\ inbox' = [inbox EXCEPT ![a] = Tail(inbox[a])]
      /\ running' = [running EXCEPT ![a] = Head(inbox[a])]
      /\ running[a] = None
      /\ UNCHANGED <<stage, outbox, handling, result, lost>>
  BY DEF HandleRunMsg, TaskInv, TypeOK
<1>s. PICK s \in Msgs : s = Head(inbox[a]) /\ s = inbox[a][1]
  BY <1>1
<1>a. s.ip = a /\ s # None
  <2>1. 1 \in 1 .. Len(inbox[a])
    BY <1>1
  <2> QED BY <1>s, <2>1, MsgFields DEF TaskInv, TransitInv, Sent
<1>2. Queued(inbox[a], s) /\ inbox'[a] = Tail(inbox[a]) /\ running'[a] = s
  <2>1. 1 \in 1 .. Len(inbox[a])
    BY <1>1
  <2> QED BY <1>1, <1>s, <2>1 DEF Queued
<1>3. "inbox" \in Stations /\ "running" \in Stations /\ OneAt(s) /\ OneAt(s)'
  BY DEF OncePerMention, OneAt, Stations
<1>4. IsAt("inbox", s) /\ IsAt("running", s)'
  BY <1>2, <1>a, Station, StationNext
<1>5. stage[s.req] = "done" /\ stage'[s.req] = "done"
  BY <1>1, <1>3, <1>4, AtSent
<1>6. Where(s) = "inbox" /\ Where(s)' = "running"
  BY <1>3, <1>4, <1>5, WhereIs, WhereWillBe
<1>7. ASSUME NEW q \in Msgs, q # s PROVE Where(q)' = Where(q)
  <2>1. Stored(q)' <=> Stored(q)
    BY <1>1 DEF Stored
  <2>2. PICK i \in Ips : i = q.ip /\ q # None
    BY MsgFields
  <2>3. CASE i # a
    <3>1. inbox'[i] = inbox[i] /\ running'[i] = running[i]
      BY <1>1, <2>3
    <3> QED BY <1>1, <2>1, <2>2, <3>1, WhereStays
  <2>4. CASE i = a
    <3>1. Queued(inbox'[i], q) <=> Queued(inbox[i], q)
      BY <1>1, <1>2, <1>7, <1>s, <2>4, TailQueued
    <3>2. running'[i] = q <=> running[i] = q
      BY <1>1, <1>2, <1>7, <2>2, <2>4
    <3> QED BY <1>1, <2>1, <2>2, <3>1, <3>2, WhereStays
  <2> QED BY <2>3, <2>4
<1>8. Del!Only({s})
  BY <1>7, OnlyThere
<1>9. ASSUME NEW q \in Msgs, q.ip = s.ip PROVE Where(q) # "running"
  BY <1>1, <1>9, <1>a, MsgFields DEF Where
<1> QED BY <1>1, <1>6, <1>8, <1>9, AdvanceBy

\* One message that is on its way leaves it.
LEMMA OneLost ==
  ASSUME TaskInv, OncePerMention, NEW s \in Msgs, NEW x \in Del!InTransit,
         IsAt(x, s), Where(s)' = "gone",
         lost' = lost \cup {s} \/ (UNCHANGED lost /\ Kind[s.req] # "shell"),
         \A q \in Msgs : q = s \/ Where(q)' = Where(q)
  PROVE  Del!Lose
<1>1. x \in Stations /\ OneAt(s)
  BY DEF Del!InTransit, Stations, OncePerMention, OneAt
<1>2. stage[s.req] = "done"
  BY <1>1, AtSent
<1>3. Where(s) \in Del!InTransit
  BY <1>1, <1>2, WhereIs
<1>4. Del!Only({s})
  BY OnlyThere
<1>5. \E T \in SUBSET {s} : lost' = lost \cup T /\ \A m \in {s} \ T : Kind[m.req] # "shell"
  <2>1. CASE lost' = lost \cup {s}
    BY <2>1
  <2>2. CASE UNCHANGED lost /\ Kind[s.req] # "shell"
    <3>1. lost' = lost \cup {} /\ {} \in SUBSET {s}
      BY <2>2
    <3> QED BY <2>2, <3>1
  <2> QED BY <2>1, <2>2
<1>6. {s} \in SUBSET {m \in Msgs : Where(m) \in Del!InTransit} /\ {s} # {}
  BY <1>3
<1> QED BY <1>4, <1>5, <1>6 DEF Del!Lose

\* The command that ends is answered, or its answer is lost.
LEMMA EndRefines ==
  ASSUME TaskInv, OncePerMention, OncePerMention', NEW a \in Ips, SendRsp(a) \/ EndSilently(a)
  PROVE  (\E m \in Msgs : Del!Advance(m)) \/ Del!Lose
<1>s. PICK s \in Msgs : running[a] = s
  BY DEF SendRsp, EndSilently, TaskInv, TypeOK
<1>a. s.ip = a /\ s # None
  BY <1>s, MsgFields DEF TaskInv, TransitInv, Sent
<1>1. /\ outbox \in [Ips -> Seq(Msgs)] /\ outbox[a] \in Seq(Msgs)
      /\ running \in [Ips -> Msgs \cup {None}]
      /\ running' = [running EXCEPT ![a] = None] /\ running'[a] = None
      /\ UNCHANGED <<stage, inbox, handling, result>>
  BY DEF SendRsp, EndSilently, TaskInv, TypeOK
<1>2. \/ outbox' = outbox /\ lost' = lost \cup {s}
      \/ outbox' = [outbox EXCEPT ![a] = Append(outbox[a], s)] /\ Kind[s.req] # "file" /\ lost' = lost
  BY <1>1, <1>s DEF SendRsp, EndSilently
<1>4. "running" \in Stations /\ "outbox" \in Stations /\ OneAt(s) /\ OneAt(s)'
  BY DEF OncePerMention, OneAt, Stations
<1>5. IsAt("running", s)
  BY <1>a, <1>s, Station
<1>6. stage[s.req] = "done" /\ stage'[s.req] = "done"
  BY <1>1, <1>4, <1>5, AtSent
<1>7. Where(s) = "running"
  BY <1>4, <1>5, <1>6, WhereIs
<1>8. ASSUME NEW q \in Msgs, q # s PROVE Where(q)' = Where(q)
  <2>1. Stored(q)' <=> Stored(q)
    BY <1>1 DEF Stored
  <2>2. PICK i \in Ips : i = q.ip /\ q # None
    BY MsgFields
  <2>3. running'[i] = q <=> running[i] = q
    BY <1>1, <1>s, <1>8, <2>2
  <2>4. Queued(outbox'[i], q) <=> Queued(outbox[i], q)
    <3>1. CASE outbox'[i] = outbox[i]
      BY <3>1
    <3>2. CASE i = a /\ outbox'[a] = Append(outbox[a], s)
      BY <1>1, <1>8, <3>2, AppendQueued
    <3> QED BY <1>1, <1>2, <3>1, <3>2
  <2> QED BY <1>1, <2>1, <2>2, <2>3, <2>4, WhereStays
<1>9. CASE outbox' = outbox /\ lost' = lost \cup {s}
  <2>1. ~ IsAt("inbox", s) /\ ~ IsAt("outbox", s) /\ ~ IsAt("handling", s) /\ ~ IsAt("etcd", s)
    BY <1>4, <1>5 DEF OneAt, Stations
  <2>2. ~ Stored(s)'
    BY <1>1, <2>1, Station DEF Stored
  <2>3. Where(s)' = "gone"
    BY <1>1, <1>6, <1>9, <1>a, <2>1, <2>2, Station, WhereLost
  <2>4. "running" \in Del!InTransit
    BY DEF Del!InTransit
  <2> QED BY <1>5, <1>8, <1>9, <2>3, <2>4, OneLost
<1>10. CASE outbox' = [outbox EXCEPT ![a] = Append(outbox[a], s)] /\ Kind[s.req] # "file" /\ lost' = lost
  <2>1. Queued(outbox'[a], s)
    BY <1>1, <1>10, AppendQueued
  <2>2. IsAt("outbox", s)'
    BY <1>a, <2>1, StationNext
  <2>3. Where(s)' = "outbox"
    BY <1>4, <1>6, <2>2, WhereWillBe
  <2>4. Del!Only({s})
    BY <1>8, OnlyThere
  <2> QED BY <1>7, <1>10, <2>3, <2>4, AdvanceBy
<1> QED BY <1>2, <1>9, <1>10

Mapped == [m \in Msgs |-> Where(m)]

LEMMA NothingMoves ==
  ASSUME \A m \in Msgs : Where(m)' = Where(m)
  PROVE  UNCHANGED Mapped
BY DEF Mapped

\* A connection that breaks loses what is on it, if anything is.
LEMMA BreakRefines ==
  ASSUME TaskInv, OncePerMention, NEW a \in Ips, Break(a)
  PROVE  Del!Lose \/ UNCHANGED <<Mapped, lost>>
<1>1. /\ inbox \in [Ips -> Seq(Msgs)] /\ outbox \in [Ips -> Seq(Msgs)]
      /\ inbox' = [inbox EXCEPT ![a] = << >>] /\ outbox' = [outbox EXCEPT ![a] = << >>]
      /\ UNCHANGED <<stage, running, handling, result>>
  BY DEF Break, TaskInv, TypeOK
<1>2. /\ inbox'[a] = << >> /\ outbox'[a] = << >>
      /\ \A i \in Ips \ {a} : inbox'[i] = inbox[i] /\ outbox'[i] = outbox[i]
      /\ \A q : ~ Queued(<< >>, q)
  BY <1>1 DEF Queued
<1>S. PICK S \in SUBSET Msgs : \A q \in Msgs : q \in S <=> Queued(inbox[a], q) \/ Queued(outbox[a], q)
  <2>1. /\ {q \in Msgs : Queued(inbox[a], q) \/ Queued(outbox[a], q)} \in SUBSET Msgs
        /\ \A q \in Msgs : q \in {p \in Msgs : Queued(inbox[a], p) \/ Queued(outbox[a], p)}
                             <=> Queued(inbox[a], q) \/ Queued(outbox[a], q)
    OBVIOUS
  <2> QED BY <2>1
<1>a. \A q \in S : q \in Msgs /\ q.ip = a
  BY <1>S DEF Queued, TaskInv, TransitInv, Sent
<1>3. ASSUME NEW q \in S PROVE Where(q) \in Del!InTransit /\ Where(q)' = "gone"
  <2>1. PICK x \in {"inbox", "outbox"} : IsAt(x, q)
    BY <1>S, <1>a, Station
  <2>2. x \in Stations /\ q \in Msgs /\ OneAt(q)
    BY <1>a DEF Stations, OncePerMention, OneAt
  <2>3. stage[q.req] = "done"
    BY <2>1, <2>2, AtSent
  <2>4. Where(q) = x
    BY <2>1, <2>2, <2>3, WhereIs
  <2>5. ~ IsAt("running", q) /\ ~ IsAt("handling", q) /\ ~ IsAt("etcd", q)
    BY <2>1, <2>2 DEF OneAt, Stations
  <2>6. ~ Stored(q)'
    BY <1>1, <2>5, Station DEF Stored
  <2>7. stage'[q.req] = "done" /\ running'[q.ip] # q /\ q \notin handling'
    BY <1>1, <2>3, <2>5, Station
  <2>8. ~ Queued(inbox'[q.ip], q) /\ ~ Queued(outbox'[q.ip], q)
    BY <1>2, <1>a
  <2>9. Where(q)' = "gone"
    BY <2>6, <2>7, <2>8, WhereLost
  <2> QED BY <2>4, <2>9 DEF Del!InTransit
<1>4. ASSUME NEW q \in Msgs, q \notin S PROVE Where(q)' = Where(q)
  <2>1. Stored(q)' <=> Stored(q)
    BY <1>1 DEF Stored
  <2>2. /\ Queued(inbox'[q.ip], q) <=> Queued(inbox[q.ip], q)
        /\ Queued(outbox'[q.ip], q) <=> Queued(outbox[q.ip], q)
    BY <1>2, <1>4, <1>S, MsgFields
  <2> QED BY <1>1, <2>1, <2>2, WhereStays
<1>L. lost' = lost \cup S
  <2>1. lost' = lost \cup {inbox[a][i] : i \in 1 .. Len(inbox[a])}
                     \cup {outbox[a][i] : i \in 1 .. Len(outbox[a])}
    BY DEF Break
  <2>2. /\ \A i \in 1 .. Len(inbox[a]) : inbox[a][i] \in S
        /\ \A i \in 1 .. Len(outbox[a]) : outbox[a][i] \in S
    <3>1. /\ \A i \in 1 .. Len(inbox[a]) : inbox[a][i] \in Msgs
          /\ \A i \in 1 .. Len(outbox[a]) : outbox[a][i] \in Msgs
      BY <1>1
    <3> QED BY <1>S, <3>1 DEF Queued
  <2>3. \A m \in S : \/ \E i \in 1 .. Len(inbox[a]) : inbox[a][i] = m
                     \/ \E i \in 1 .. Len(outbox[a]) : outbox[a][i] = m
    BY <1>S DEF Queued
  <2> QED BY <2>1, <2>2, <2>3, Zenon
<1>5. CASE S = {}
  BY <1>4, <1>5, <1>L, NothingMoves
<1>6. CASE S # {}
  <2>1. Del!Only(S)
    BY <1>4, OnlyThere
  <2>2. S \in SUBSET {m \in Msgs : Where(m) \in Del!InTransit}
    BY <1>3, <1>S
  <2>3. \E T \in SUBSET S : lost' = lost \cup T /\ \A m \in S \ T : Kind[m.req] # "shell"
    BY <1>L
  <2>4. \A m, k \in S : m.ip = k.ip
    BY <1>a
  <2>5. \A m \in S : Where(m)' = "gone" /\ m \in Msgs
    BY <1>3, <1>a
  <2> QED BY <1>6, <2>1, <2>2, <2>3, <2>4, <2>5 DEF Del!Lose
<1> QED BY <1>5, <1>6

\* The response GetMsg returns was on the connection.
LEMMA GetRspRefines ==
  ASSUME TaskInv, OncePerMention, OncePerMention', NEW a \in Ips, GetRsp(a)
  PROVE  \E m \in Msgs : Del!Advance(m)
<1>1. /\ outbox \in [Ips -> Seq(Msgs)] /\ outbox[a] \in Seq(Msgs) /\ outbox[a] # << >>
      /\ outbox' = [outbox EXCEPT ![a] = Tail(outbox[a])]
      /\ handling' = handling \cup {Head(outbox[a])}
      /\ UNCHANGED <<stage, inbox, running, result, lost>>
  BY DEF GetRsp, TaskInv, TypeOK
<1>s. PICK s \in Msgs : s = Head(outbox[a]) /\ s = outbox[a][1]
  BY <1>1
<1>l. 1 \in 1 .. Len(outbox[a])
  BY <1>1
<1>a. s.ip = a
  BY <1>l, <1>s DEF TaskInv, TransitInv, Sent
<1>2. Queued(outbox[a], s) /\ outbox'[a] = Tail(outbox[a]) /\ s \in handling'
  BY <1>1, <1>l, <1>s DEF Queued
<1>3. "outbox" \in Stations /\ "handling" \in Stations /\ OneAt(s) /\ OneAt(s)'
  BY DEF OncePerMention, OneAt, Stations
<1>4. IsAt("outbox", s) /\ IsAt("handling", s)'
  BY <1>2, <1>a, Station, StationNext
<1>5. stage[s.req] = "done" /\ stage'[s.req] = "done"
  BY <1>1, <1>3, <1>4, AtSent
<1>6. Where(s) = "outbox" /\ Where(s)' = "handling"
  BY <1>3, <1>4, <1>5, WhereIs, WhereWillBe
<1>7. ASSUME NEW q \in Msgs, q # s PROVE Where(q)' = Where(q)
  <2>1. Stored(q)' <=> Stored(q)
    BY <1>1 DEF Stored
  <2>2. q \in handling' <=> q \in handling
    BY <1>1, <1>7, <1>s
  <2>i. PICK i \in Ips : i = q.ip
    BY MsgFields
  <2>3. Queued(outbox'[i], q) <=> Queued(outbox[i], q)
    <3>1. CASE i # a
      BY <1>1, <3>1
    <3>2. CASE i = a
      BY <1>1, <1>2, <1>7, <1>s, <3>2, TailQueued
    <3> QED BY <3>1, <3>2
  <2> QED BY <1>1, <2>1, <2>2, <2>3, <2>i, WhereStays
<1>8. Del!Only({s})
  BY <1>7, OnlyThere
<1> QED BY <1>1, <1>6, <1>8, AdvanceBy

\* What HandleMsg does with a response: it is dropped, or stored in the place of
\* at most one other.
LEMMA HandleRefines ==
  ASSUME TaskInv, OncePerMention, OncePerMention', NEW s \in Msgs,
         HandleShellRunRsp(s) \/ PutResultError(s) \/ RefuseRsp(s)
  PROVE  Del!Store(s) \/ Del!Lose
<1>a. PICK a \in Ips : s.ip = a /\ s.req \in Requests /\ s # None
  BY MsgFields
<1>1. /\ result \in [TaskIds -> [Ips -> Msgs \cup {None}]]
      /\ id \in [Requests -> TaskIds \cup {None}]
      /\ RequestInv /\ ResultsAuthentic
      /\ s \in handling /\ handling' = handling \ {s}
      /\ UNCHANGED <<stage, id, inbox, running, outbox>>
  BY DEF HandleShellRunRsp, PutResultError, RefuseRsp, TaskInv, TypeOK, agentVars
<1>2. \/ /\ result' = result
         /\ lost' = lost \cup {s} \/ (UNCHANGED lost /\ Kind[s.req] # "shell")
      \/ /\ result' = [result EXCEPT ![id[s.req]][a] = s] /\ Kind[s.req] = "shell"
         /\ UNCHANGED lost \/ lost' = lost \cup {s}
  BY <1>a DEF HandleShellRunRsp, PutResultError, RefuseRsp
<1>3. "handling" \in Stations /\ "etcd" \in Stations /\ OneAt(s) /\ OneAt(s)'
  BY DEF OncePerMention, OneAt, Stations
<1>4. IsAt("handling", s)
  BY <1>1, Station
<1>5. stage[s.req] = "done" /\ stage'[s.req] = "done"
  BY <1>1, <1>3, <1>4, AtSent
<1>6. Where(s) = "handling"
  BY <1>3, <1>4, <1>5, WhereIs
<1>7. ~ IsAt("inbox", s) /\ ~ IsAt("running", s) /\ ~ IsAt("outbox", s) /\ ~ IsAt("etcd", s)
  BY <1>3, <1>4 DEF OneAt, Stations
<1>8. ASSUME NEW q \in Msgs, q # s, Stored(q)' <=> Stored(q) PROVE Where(q)' = Where(q)
  <2>1. q \in handling' <=> q \in handling
    BY <1>1, <1>8
  <2> QED BY <1>1, <1>8, <2>1, WhereStays
<1>9. CASE result' = result /\ (lost' = lost \cup {s} \/ (UNCHANGED lost /\ Kind[s.req] # "shell"))
  <2>1. \A q : Stored(q)' <=> Stored(q)
    BY <1>9 DEF Stored
  <2>2. Where(s)' = "gone"
    BY <1>1, <1>5, <1>7, <2>1, Station, WhereLost
  <2>3. \A q \in Msgs : q = s \/ Where(q)' = Where(q)
    BY <1>8, <2>1
  <2>4. "handling" \in Del!InTransit
    BY DEF Del!InTransit
  <2> QED BY <1>4, <1>9, <2>2, <2>3, <2>4, OneLost
<1>10. CASE /\ result' = [result EXCEPT ![id[s.req]][a] = s] /\ Kind[s.req] = "shell"
            /\ UNCHANGED lost \/ lost' = lost \cup {s}
  <2>t. PICK t \in TaskIds : id[s.req] = t
    BY <1>1, <1>5, <1>10, <1>a DEF RequestInv
  <2>1. /\ result'[t][a] = s
        /\ \A u \in TaskIds, i \in Ips : u # t \/ i # a => result'[u][i] = result[u][i]
    BY <1>1, <1>10, <2>t
  <2>2. IsAt("etcd", s)'
    BY <1>a, <2>1, StationNext DEF Stored
  <2>3. Where(s)' = "etcd"
    BY <1>3, <1>5, <2>2, WhereWillBe
  <2>4. ASSUME NEW q \in Msgs, q # s, q.ip = a => result[t][a] # q
        PROVE  Where(q)' = Where(q)
    <3>1. PICK i \in Ips : i = q.ip
      BY MsgFields
    <3>2. ASSUME NEW u \in TaskIds PROVE result'[u][i] = q <=> result[u][i] = q
      BY <2>1, <2>4, <3>1
    <3>3. Stored(q)' <=> Stored(q)
      BY <3>1, <3>2 DEF Stored
    <3> QED BY <1>8, <2>4, <3>3
  <2>5. CASE \A q \in Msgs : result[t][a] # q
    <3>1. \A q \in Msgs : q \in {s, s} \/ Where(q)' = Where(q)
      BY <2>4, <2>5
    <3>2. Del!Only({s, s})
      BY <3>1, OnlyThere
    <3>3. Del!Store(s)
      BY <1>6, <1>10, <2>3, <3>2 DEF Del!Store
    <3> QED BY <3>3
  <2>6. ASSUME NEW d \in Msgs, result[t][a] = d PROVE Del!Store(s)
    <3>0. d # None
      BY MsgFields
    <3>5. ASSUME NEW u \in TaskIds, result[u][a] = d PROVE id[d.req] = u /\ d.ip = a
      BY <1>1, <3>0, <3>5 DEF ResultsAuthentic, Sent
    <3>d. d.ip = a
      BY <2>6, <3>5
    <3>1. IsAt("etcd", d)
      BY <2>6, <3>d, Station DEF Stored
    <3>2. d # s /\ OneAt(d)
      BY <1>7, <3>1 DEF OncePerMention, OneAt
    <3>3. stage[d.req] = "done" /\ stage'[d.req] = "done"
      BY <1>1, <1>3, <3>1, AtSent
    <3>4. Where(d) = "etcd"
      BY <1>3, <3>1, <3>2, <3>3, WhereIs
    <3>6. ~ Stored(d)'
      <4>1. ASSUME NEW u \in TaskIds, result'[u][a] = d PROVE FALSE
        <5>1. u # t /\ result[u][a] = d
          BY <2>1, <3>2, <4>1
        <5> QED BY <2>6, <3>5, <5>1
      <4> QED BY <3>d, <4>1 DEF Stored
    <3>7. ~ IsAt("inbox", d) /\ ~ IsAt("running", d) /\ ~ IsAt("outbox", d) /\ ~ IsAt("handling", d)
      BY <1>3, <3>1, <3>2 DEF OneAt, Stations
    <3>8. Where(d)' = "gone"
      BY <1>1, <3>3, <3>6, <3>7, Station, WhereLost
    <3>9. ASSUME NEW q \in Msgs, q \notin {d, s} PROVE Where(q)' = Where(q)
      BY <2>4, <2>6, <3>9
    <3>10. Del!Only({d, s})
      BY <3>9, OnlyThere
    <3> QED BY <1>6, <1>10, <1>a, <2>3, <3>4, <3>8, <3>10, <3>d DEF Del!Store
  <2> QED BY <2>5, <2>6
<1> QED BY <1>2, <1>9, <1>10

\* The steps of the handlers before Multicast, of a dial and of GetShellResult
\* move nothing.
LEMMA QuietSteps ==
  ASSUME TaskInv,
         \/ \E r \in Requests :
              \/ \E t \in TaskIds : DrawTaskId(r, t)
              \/ PutIpList(r) \/ PutIpListError(r)
              \/ \E next \in {"send", "failed"} : ReadFile(r, next)
         \/ \E ip \in Ips : Connect(ip)
         \/ \E t \in TaskIds : GetIpList(t)
         \/ ReadResult \/ Answer \/ UNCHANGED vars
  PROVE  UNCHANGED <<Mapped, lost>>
<1>1. UNCHANGED <<inbox, running, outbox, handling, result, lost>>
  BY DEF DrawTaskId, PutIpList, PutIpListError, ReadFile, Connect, GetIpList, ReadResult, Answer,
         vars, agentVars
<1>2. stage \in [Requests -> {"new", "put", "send", "done", "failed"}]
  BY DEF TaskInv, TypeOK
<1>3. ASSUME NEW q \in Requests PROVE stage'[q] = "done" <=> stage[q] = "done"
  BY <1>2 DEF DrawTaskId, PutIpList, PutIpListError, ReadFile, Connect, GetIpList, ReadResult, Answer,
              vars, agentVars
<1>4. ASSUME NEW m \in Msgs PROVE Where(m)' = Where(m)
  <2>1. Stored(m)' <=> Stored(m)
    BY <1>1 DEF Stored
  <2> QED BY <1>1, <1>3, <2>1, MsgFields, WhereStays
<1> QED BY <1>1, <1>4, NothingMoves

\* A message goes its way as module Delivery says: Multicast sends it once, it moves forward only, Listen runs one at a time, a shell command
\* is lost only by a failure, and in etcd its result is replaced only by one of the
\* same agent.
THEOREM TaskRefinesDelivery == Spec => DeliverySpec
<1>1. Init => Del!Init
  BY MsgFields DEF Init, Del!Init, Where
<1>2. ASSUME TaskInv, OncePerMention, OncePerMention', [Next]_vars PROVE Del!Next \/ UNCHANGED <<Mapped, lost>>
  <2>1. ASSUME NEW r \in Requests, Multicast(r) PROVE Del!Next \/ UNCHANGED <<Mapped, lost>>
    <3>1. Del!Send(r)
      BY <1>2, <2>1, MulticastRefines
    <3>2. CASE \E m \in Msgs : m.req = r
      BY <3>1, <3>2 DEF Del!Next
    <3>3. CASE ~ \E m \in Msgs : m.req = r
      <4>1. UNCHANGED lost /\ \A m \in Msgs : Where(m)' = Where(m)
        BY <3>1, <3>3 DEF Del!Send, Del!Only
      <4> QED BY <4>1, NothingMoves
    <3> QED BY <3>2, <3>3
  <2>2. ASSUME NEW a \in Ips, HandleRunMsg(a) PROVE Del!Next
    BY <1>2, <2>2, RunRefines DEF Del!Next
  <2>3. ASSUME NEW a \in Ips, SendRsp(a) \/ EndSilently(a) PROVE Del!Next
    BY <1>2, <2>3, EndRefines DEF Del!Next
  <2>4. ASSUME NEW a \in Ips, Break(a) PROVE Del!Next \/ UNCHANGED <<Mapped, lost>>
    BY <1>2, <2>4, BreakRefines DEF Del!Next
  <2>5. ASSUME NEW a \in Ips, GetRsp(a) PROVE Del!Next
    BY <1>2, <2>5, GetRspRefines DEF Del!Next
  <2>6. ASSUME NEW m \in Msgs, HandleShellRunRsp(m) \/ PutResultError(m) \/ RefuseRsp(m)
        PROVE  Del!Next
    BY <1>2, <2>6, HandleRefines DEF Del!Next
  <2> QED BY <1>2, <2>1, <2>2, <2>3, <2>4, <2>5, <2>6, QuietSteps DEF Next, Request, AgentStep
<1> QED BY <1>1, <1>2, TaskInvariant, OncePerMentionCorrect, PTL DEF Spec, DeliverySpec, Del!Spec, Del!vars, Mapped

\* Every variable of the task's way keeps its type.
THEOREM TaskTypes == Spec => []TypeOK
<1>1. TaskInv => TypeOK
  BY DEF TaskInv
<1> QED BY TaskInvariant, <1>1, PTL

\* A stored result is the output of the agent it is stored under, for a shell
\* command with that id that was sent to the agent.
THEOREM ResultsCorrect == Spec => []ResultsAuthentic
<1>1. TaskInv => ResultsAuthentic
  BY DEF TaskInv
<1> QED BY TaskInvariant, <1>1, PTL

\* A task that has a result has its addresses, so the result can be asked for.
THEOREM ResultsListed == Spec => []ListBeforeResults
<1>1. TaskInv => ListBeforeResults
  BY DEF TaskInv
<1> QED BY TaskInvariant, <1>1, PTL

\* An answer shows outputs of the queried task id only, and the addresses of a
\* request with that id where the row's address is empty.
THEOREM AnswersCorrect == Spec => []AnswerFromTask
<1>1. TaskInv => AnswerFromTask
  BY DEF TaskInv
<1> QED BY TaskInvariant, <1>1, PTL
=============================================================================
