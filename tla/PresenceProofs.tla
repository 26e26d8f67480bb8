--------------------------- MODULE PresenceProofs ---------------------------
(* Proofs about module Presence, for all timeouts and delays. *)
EXTENDS Presence, TLAPS

States == {"none", "closed", "accepted", "judge", "read", "invalid"}

\* The type of one connection.
ConnType == [at : States, ok : BOOLEAN, silent : Nat, last : Nat \cup {Never},
             buf : Nat \cup {Never}, up : Seq(Nat),
             work : SUBSET (0 .. HandledBy), down : Seq(0 .. Delay), gone : Nat]

AgentType == [at : {"sleep", "up", "ending"}, conn : Conns \cup {NoConn},
              timer : Nat, silent : 0 .. ReadTimeout]

\* What PresenceInv says of one connection.
ConnInv(c) ==
  /\ GoneInv(c)
  /\ TravelInv(c)
  /\ NewsInv(c)

\* Only connection c changes, and into record r.
Becomes(c, r) ==
  /\ r \in ConnType
  /\ conn' \in [Conns -> ConnType]
  /\ conn'[c] = r
  /\ \A d \in Conns \ {c} : conn'[d] = conn[d]

LEMMA Bounds ==
  /\ HeartbeatEvery \in Nat /\ Delay \in Nat /\ LockWait \in Nat /\ ReadTimeout \in Nat
  /\ ReadBy \in Nat /\ HandledBy \in Nat
  /\ Delay <= ReadBy /\ LockWait <= ReadBy /\ ReadBy <= HandledBy /\ HandledBy = ReadBy + Delay
BY TimeAssumption DEF ReadBy, HandledBy

LEMMA Element ==
  ASSUME NEW S, NEW q \in Seq(S)
  PROVE  \A i \in 1 .. Len(q) : q[i] \in S
OBVIOUS

LEMMA HeadTail ==
  ASSUME NEW S, NEW q \in Seq(S), q # << >>
  PROVE  /\ Head(q) \in S /\ Tail(q) \in Seq(S)
         /\ Head(q) = q[1] /\ 1 \in 1 .. Len(q) /\ Len(Tail(q)) = Len(q) - 1
         /\ \A i \in 1 .. Len(Tail(q)) : i + 1 \in 1 .. Len(q) /\ Tail(q)[i] = q[i + 1]
OBVIOUS

LEMMA FreeType == Free \in ConnType
<1>1. 0 \in Nat /\ Never \in Nat \cup {Never} BY DEF Never
<1>2. << >> \in Seq(0 .. Delay) /\ << >> \in Seq(Nat) OBVIOUS
<1> QED BY <1>1, <1>2 DEF Free, ConnType, States

LEMMA ClosedType ==
  ASSUME NEW c \in Conns, conn[c] \in ConnType
  PROVE  Closed(c) \in ConnType
<1>1. CASE ~ Holds(c) BY <1>1, FreeType DEF Closed
<1>2. CASE Holds(c)
  <2>1. Closed(c) = [Free EXCEPT !.at = "closed", !.ok = conn[c].ok, !.down = conn[c].down]
    BY <1>2 DEF Closed
  <2> QED BY <2>1, FreeType DEF ConnType, States
<1> QED BY <1>1, <1>2

LEMMA OlderType ==
  ASSUME NEW seq \in Seq(0 .. Delay), Delay \in Nat,
         \A i \in 1 .. Len(seq) : seq[i] < Delay
  PROVE  /\ Older(seq) \in Seq(0 .. Delay)
         /\ Len(Older(seq)) = Len(seq)
         /\ \A i \in 1 .. Len(seq) : Older(seq)[i] = seq[i] + 1
<1>1. \A i \in 1 .. Len(seq) : seq[i] + 1 \in 0 .. Delay OBVIOUS
<1>2. Older(seq) \in [1 .. Len(seq) -> 0 .. Delay] BY <1>1 DEF Older
<1>3. Len(seq) \in Nat OBVIOUS
<1> QED BY <1>2, <1>3 DEF Older

LEMMA OlderAges ==
  ASSUME NEW seq \in Seq(Nat)
  PROVE  /\ Older(seq) \in Seq(Nat)
         /\ Len(Older(seq)) = Len(seq)
         /\ \A i \in 1 .. Len(seq) : Older(seq)[i] = seq[i] + 1
<1>1. \A i \in 1 .. Len(seq) : seq[i] + 1 \in Nat OBVIOUS
<1>2. Older(seq) \in [1 .. Len(seq) -> Nat] BY <1>1 DEF Older
<1>3. Len(seq) \in Nat OBVIOUS
<1> QED BY <1>2, <1>3 DEF Older

-----------------------------------------------------------------------------
(* What each step does to the fields of the connection it is about. *)

LEMMA Except ==
  ASSUME conn \in [Conns -> ConnType], NEW c \in Conns, NEW r \in ConnType,
         conn' = [conn EXCEPT ![c] = r]
  PROVE  Becomes(c, r)
BY DEF Becomes

LEMMA AtEffect ==
  ASSUME conn \in [Conns -> ConnType], NEW c \in Conns,
         NEW a \in States,
         conn' = [conn EXCEPT ![c].at = a]
  PROVE  /\ Becomes(c, conn'[c])
         /\ conn'[c].at = a /\ conn'[c].ok = conn[c].ok
         /\ conn'[c].silent = conn[c].silent /\ conn'[c].last = conn[c].last
         /\ conn'[c].buf = conn[c].buf /\ conn'[c].up = conn[c].up
         /\ conn'[c].work = conn[c].work /\ conn'[c].down = conn[c].down
         /\ conn'[c].gone = conn[c].gone
<1> DEFINE r == [conn[c] EXCEPT !.at = a]
<1>1. conn[c] \in ConnType OBVIOUS
<1>2. /\ r \in ConnType
      /\ r.at = a /\ r.ok = conn[c].ok /\ r.silent = conn[c].silent
      /\ r.last = conn[c].last /\ r.buf = conn[c].buf /\ r.up = conn[c].up
      /\ r.work = conn[c].work /\ r.down = conn[c].down /\ r.gone = conn[c].gone
  BY <1>1 DEF ConnType
<1>3. conn' = [conn EXCEPT ![c] = r] OBVIOUS
<1>4. Becomes(c, r) BY <1>2, <1>3, Except
<1>5. conn'[c] = r BY <1>4 DEF Becomes
<1> QED BY <1>2, <1>4, <1>5

LEMMA UpEffect ==
  ASSUME conn \in [Conns -> ConnType], NEW c \in Conns,
         NEW u \in Seq(Nat),
         conn' = [conn EXCEPT ![c].up = u]
  PROVE  /\ Becomes(c, conn'[c])
         /\ conn'[c].at = conn[c].at /\ conn'[c].ok = conn[c].ok
         /\ conn'[c].silent = conn[c].silent /\ conn'[c].last = conn[c].last
         /\ conn'[c].buf = conn[c].buf /\ conn'[c].up = u
         /\ conn'[c].work = conn[c].work /\ conn'[c].down = conn[c].down
         /\ conn'[c].gone = conn[c].gone
<1> DEFINE r == [conn[c] EXCEPT !.up = u]
<1>1. conn[c] \in ConnType OBVIOUS
<1>2. /\ r \in ConnType
      /\ r.at = conn[c].at /\ r.ok = conn[c].ok /\ r.silent = conn[c].silent
      /\ r.last = conn[c].last /\ r.buf = conn[c].buf /\ r.up = u
      /\ r.work = conn[c].work /\ r.down = conn[c].down /\ r.gone = conn[c].gone
  BY <1>1 DEF ConnType
<1>3. conn' = [conn EXCEPT ![c] = r] OBVIOUS
<1>4. Becomes(c, r) BY <1>2, <1>3, Except
<1>5. conn'[c] = r BY <1>4 DEF Becomes
<1> QED BY <1>2, <1>4, <1>5

LEMMA DownEffect ==
  ASSUME conn \in [Conns -> ConnType], NEW c \in Conns,
         NEW d \in Seq(0 .. Delay),
         conn' = [conn EXCEPT ![c].down = d]
  PROVE  /\ Becomes(c, conn'[c])
         /\ conn'[c].at = conn[c].at /\ conn'[c].ok = conn[c].ok
         /\ conn'[c].silent = conn[c].silent /\ conn'[c].last = conn[c].last
         /\ conn'[c].buf = conn[c].buf /\ conn'[c].up = conn[c].up
         /\ conn'[c].work = conn[c].work /\ conn'[c].down = d
         /\ conn'[c].gone = conn[c].gone
<1> DEFINE r == [conn[c] EXCEPT !.down = d]
<1>1. conn[c] \in ConnType OBVIOUS
<1>2. /\ r \in ConnType
      /\ r.at = conn[c].at /\ r.ok = conn[c].ok /\ r.silent = conn[c].silent
      /\ r.last = conn[c].last /\ r.buf = conn[c].buf /\ r.up = conn[c].up
      /\ r.work = conn[c].work /\ r.down = d /\ r.gone = conn[c].gone
  BY <1>1 DEF ConnType
<1>3. conn' = [conn EXCEPT ![c] = r] OBVIOUS
<1>4. Becomes(c, r) BY <1>2, <1>3, Except
<1>5. conn'[c] = r BY <1>4 DEF Becomes
<1> QED BY <1>2, <1>4, <1>5

LEMMA DeadlineEffect ==
  ASSUME conn \in [Conns -> ConnType], NEW c \in Conns,
         NEW a \in States, NEW s \in Nat,
         conn' = [conn EXCEPT ![c].at = a, ![c].silent = s]
  PROVE  /\ Becomes(c, conn'[c])
         /\ conn'[c].at = a /\ conn'[c].ok = conn[c].ok /\ conn'[c].silent = s
         /\ conn'[c].last = conn[c].last /\ conn'[c].buf = conn[c].buf
         /\ conn'[c].up = conn[c].up /\ conn'[c].work = conn[c].work
         /\ conn'[c].down = conn[c].down /\ conn'[c].gone = conn[c].gone
<1> DEFINE r == [conn[c] EXCEPT !.at = a, !.silent = s]
<1>1. conn[c] \in ConnType OBVIOUS
<1>2. /\ r \in ConnType
      /\ r.at = a /\ r.ok = conn[c].ok /\ r.silent = s /\ r.last = conn[c].last
      /\ r.buf = conn[c].buf /\ r.up = conn[c].up /\ r.work = conn[c].work
      /\ r.down = conn[c].down /\ r.gone = conn[c].gone
  BY <1>1 DEF ConnType
<1>3. conn' = [conn EXCEPT ![c] = r] OBVIOUS
<1>4. Becomes(c, r) BY <1>2, <1>3, Except
<1>5. conn'[c] = r BY <1>4 DEF Becomes
<1> QED BY <1>2, <1>4, <1>5

-----------------------------------------------------------------------------
(* The invariant, conjunct by conjunct. *)

\* The type invariant in terms of the two record types.
Typed == /\ agent \in AgentType /\ Clients \in Conns \cup {NoConn}
         /\ conn \in [Conns -> ConnType] /\ calm \in BOOLEAN /\ zone \in Zones

AgentInv == /\ agent.at = "sleep" <=> agent.conn = NoConn
            /\ agent.at = "up" => agent.timer <= HeartbeatEvery

LEMMA Split ==
  PresenceInv <=> Typed /\ AgentInv /\ OneConnection /\ \A c \in Conns : ConnInv(c)
BY DEF PresenceInv, TypeOK, Typed, AgentInv, ConnInv, AgentType, ConnType, States

LEMMA SplitNext ==
  Typed' /\ AgentInv' /\ OneConnection' /\ (\A c \in Conns : ConnInv(c)') => PresenceInv'
BY DEF PresenceInv, TypeOK, Typed, AgentInv, ConnInv, AgentType, ConnType, States

\* A connection that does not change, while the agent does not change either or
\* has nothing to do with it.
LEMMA Untouched ==
  ASSUME NEW d \in Conns, ConnInv(d), conn'[d] = conn[d],
         agent' = agent \/ agent'.conn # d
  PROVE  ConnInv(d)'
<1>1. CASE agent' = agent
  BY <1>1 DEF ConnInv, GoneInv, TravelInv, NewsInv, Healthy, Holds, Reading, Pending
<1>2. CASE agent'.conn # d
  BY <1>2 DEF ConnInv, GoneInv, TravelInv, NewsInv, Healthy, Holds, Reading, Pending
<1> QED BY <1>1, <1>2

LEMMA DialStep ==
  ASSUME PresenceInv, NEW c \in Conns, Dial(c)
  PROVE  PresenceInv'
<1>1. Typed /\ AgentInv /\ OneConnection /\ \A d \in Conns : ConnInv(d) BY Split
<1>2. conn' = [conn EXCEPT ![c].at = "accepted"] BY DEF Dial
<1>3. conn \in [Conns -> ConnType] BY <1>1 DEF Typed
<1>4. /\ Becomes(c, conn'[c])
      /\ conn'[c].at = "accepted" /\ conn'[c].ok = conn[c].ok
      /\ conn'[c].silent = conn[c].silent /\ conn'[c].last = conn[c].last
      /\ conn'[c].buf = conn[c].buf /\ conn'[c].up = conn[c].up
      /\ conn'[c].work = conn[c].work /\ conn'[c].down = conn[c].down
      /\ conn'[c].gone = conn[c].gone
  BY <1>2, <1>3, AtEffect DEF States
<1>5. /\ conn[c].at = "none" /\ conn[c].buf = Never /\ conn[c].up = << >>
      /\ conn[c].gone = 0 /\ conn[c].last = Never /\ conn[c].silent = 0
  BY DEF Dial, Free
<1>6. /\ agent'.at = "up" /\ agent'.conn = c
      /\ agent'.timer = HeartbeatEvery /\ agent'.silent = 0
      /\ agent' \in AgentType
  BY TimeAssumption DEF Dial, AgentType
<1>7. Clients' = Clients /\ calm' = calm /\ zone' = zone BY DEF Dial
<1>8. Typed' BY <1>1, <1>4, <1>6, <1>7 DEF Typed, Becomes
<1>9. AgentInv' BY <1>6, TimeAssumption DEF AgentInv
<1>10. OneConnection' BY <1>1, <1>4, <1>5, <1>7 DEF OneConnection, Becomes
<1>11. ConnInv(c)'
  BY <1>4, <1>5, <1>6, Bounds DEF ConnInv, GoneInv, TravelInv, NewsInv
<1>12. ASSUME NEW d \in Conns \ {c} PROVE ConnInv(d)'
  BY <1>1, <1>4, <1>6, Untouched DEF Becomes
<1> QED BY <1>8, <1>9, <1>10, <1>11, <1>12, SplitNext

\* DialFail and Calm touch no connection.
LEMMA IdleStep ==
  ASSUME PresenceInv, DialFail \/ Calm \/ UNCHANGED vars
  PROVE  PresenceInv'
<1>1. Typed /\ AgentInv /\ OneConnection /\ \A d \in Conns : ConnInv(d) BY Split
<1>2. conn' = conn /\ Clients' = Clients /\ zone' = zone /\ calm' \in BOOLEAN
  BY <1>1 DEF DialFail, Calm, vars, Typed
<1>3. agent' = agent \/ agent' = Asleep BY DEF DialFail, Calm, vars
<1>4. Asleep \in AgentType /\ Asleep.at = "sleep" /\ Asleep.conn = NoConn
  BY TimeAssumption DEF Asleep, AgentType
<1>5. Typed' BY <1>1, <1>2, <1>3, <1>4 DEF Typed
<1>6. AgentInv' BY <1>1, <1>3, <1>4 DEF AgentInv
<1>7. OneConnection' BY <1>1, <1>2 DEF OneConnection
<1>8. ASSUME NEW d \in Conns PROVE ConnInv(d)'
  <2>1. NoConn # d BY TimeAssumption
  <2>2. agent' = agent \/ agent'.conn # d BY <1>3, <1>4, <2>1
  <2> QED BY <1>1, <1>2, <2>2, Untouched
<1> QED BY <1>5, <1>6, <1>7, <1>8, SplitNext

LEMMA HeartbeatStep ==
  ASSUME PresenceInv, Heartbeat
  PROVE  PresenceInv'
<1>1. Typed /\ AgentInv /\ OneConnection /\ \A d \in Conns : ConnInv(d) BY Split
<1>2. PICK c \in Conns : agent.conn = c BY <1>1 DEF Heartbeat, Typed, AgentType, AgentInv
<1>3. /\ agent.at = "up" /\ agent.timer = HeartbeatEvery
      /\ agent'.at = "up" /\ agent'.conn = c /\ agent'.timer = 0
      /\ agent'.silent = agent.silent /\ agent' \in AgentType
  BY <1>1, <1>2 DEF Heartbeat, Typed, AgentType
<1>4. Clients' = Clients /\ calm' = calm /\ zone' = zone BY DEF Heartbeat
<1>5. AgentInv' BY <1>2, <1>3, TimeAssumption DEF AgentInv
<1>6. CASE ~ (Open(c) /\ conn[c].ok)
  <2>1. conn' = conn BY <1>2, <1>6 DEF Heartbeat
  <2>2. Typed' BY <1>1, <1>3, <1>4, <2>1 DEF Typed
  <2>3. OneConnection' BY <1>1, <1>4, <2>1 DEF OneConnection
  <2>4. ConnInv(c)'
    <3>1. ConnInv(c) BY <1>1, <1>2
    <3>2. Healthy(c) /\ Reading(c) => Open(c) /\ conn[c].ok BY DEF Healthy, Reading, Open
    <3>3. (Healthy(c)' <=> Healthy(c)) /\ (Reading(c)' <=> Reading(c))
      BY <1>2, <1>3, <2>1 DEF Healthy, Holds, Reading
    <3>4. NewsInv(c)' BY <1>6, <3>2, <3>3 DEF NewsInv
    <3>5. GoneInv(c)' BY <2>1, <3>1, <3>3 DEF ConnInv, GoneInv
    <3>6. TravelInv(c)' BY <2>1, <3>1 DEF ConnInv, TravelInv
    <3> QED BY <3>4, <3>5, <3>6 DEF ConnInv
  <2>5. ASSUME NEW d \in Conns \ {c} PROVE ConnInv(d)' BY <1>1, <1>3, <2>1, Untouched
  <2> QED BY <1>2, <1>5, <2>2, <2>3, <2>4, <2>5, SplitNext
<1>7. CASE Open(c) /\ conn[c].ok
  <2> DEFINE u == Append(conn[c].up, 0)
  <2>1. conn' = [conn EXCEPT ![c].up = u] BY <1>2, <1>7 DEF Heartbeat
  <2>2. conn \in [Conns -> ConnType] BY <1>1 DEF Typed
  <2>3. conn[c].up \in Seq(Nat) BY <1>2, <2>2 DEF ConnType
  <2>4. /\ u \in Seq(Nat) /\ Len(u) = Len(conn[c].up) + 1 /\ Len(conn[c].up) \in Nat
        /\ u[Len(u)] = 0 /\ \A i \in 1 .. Len(conn[c].up) : u[i] = conn[c].up[i]
    BY <2>3, TimeAssumption
  <2> HIDE DEF u
  <2>5. /\ Becomes(c, conn'[c])
        /\ conn'[c].at = conn[c].at /\ conn'[c].ok = conn[c].ok
        /\ conn'[c].silent = conn[c].silent /\ conn'[c].last = conn[c].last
        /\ conn'[c].buf = conn[c].buf /\ conn'[c].up = u
        /\ conn'[c].work = conn[c].work /\ conn'[c].down = conn[c].down
        /\ conn'[c].gone = conn[c].gone
    BY <1>2, <2>1, <2>2, <2>4, UpEffect
  <2>6. Typed' BY <1>1, <1>3, <1>4, <2>5 DEF Typed, Becomes
  <2>7. OneConnection' BY <1>1, <1>4, <2>5 DEF OneConnection, Becomes
  <2>8. ConnInv(c) /\ Healthy(c) BY <1>1, <1>2, <1>3, <1>7 DEF Healthy, Holds
  <2>9. GoneInv(c)'
    <3>1. conn[c].gone = 0 BY <2>8 DEF ConnInv, GoneInv
    <3>2. \A i \in 1 .. Len(u) : u[i] \in Nat BY <2>4, Element
    <3> QED BY <2>5, <2>8, <3>1, <3>2 DEF ConnInv, GoneInv
  <2>10. 0 \in Pending(c)' /\ Pending(c) \subseteq Pending(c)'
    <3>1. Len(u) \in 1 .. Len(u) BY <2>4
    <3>2. 0 \in Pending(c)' BY <2>4, <2>5, <3>1 DEF Pending
    <3>3. \A i \in 1 .. Len(conn[c].up) : i \in 1 .. Len(u) BY <2>4
    <3> QED BY <2>4, <2>5, <3>2, <3>3 DEF Pending
  <2>11. NewsInv(c)'
    <3> SUFFICES ASSUME Reading(c)' PROVE NewsInv(c)' BY DEF NewsInv
    <3>1. NewsInv(c) /\ Reading(c) BY <2>5, <2>8 DEF ConnInv, Reading
    <3>2. /\ conn[c].last \in Nat \cup {Never} /\ conn[c].silent \in Nat
          /\ agent.silent \in Nat /\ HeartbeatEvery \in Nat /\ HandledBy \in Nat
      BY <1>1, <1>2, Bounds DEF Typed, ConnType, AgentType
    <3>3. conn'[c].last = Never
          \/ \E g \in Pending(c)' : conn'[c].last <= HandledBy + HeartbeatEvery + g
      BY <1>3, <2>5, <2>8, <2>10, <3>1, <3>2 DEF NewsInv
    <3>4. ASSUME conn'[c].at = "read"
          PROVE  \E i \in 1 .. Len(u) : conn'[c].silent <= HeartbeatEvery + u[i]
      <4>1. Len(u) \in 1 .. Len(u) /\ \A i \in 1 .. Len(conn[c].up) : i \in 1 .. Len(u)
        BY <2>4
      <4>2. \/ conn[c].silent <= HeartbeatEvery
            \/ \E i \in 1 .. Len(conn[c].up) : conn[c].silent <= HeartbeatEvery + conn[c].up[i]
        BY <1>3, <2>5, <2>8, <3>1, <3>4 DEF NewsInv
      <4>3. CASE conn[c].silent <= HeartbeatEvery
        <5>1. conn'[c].silent <= HeartbeatEvery + u[Len(u)] BY <2>4, <2>5, <3>2, <4>3
        <5> QED BY <4>1, <5>1
      <4> QED BY <2>4, <2>5, <4>1, <4>2, <4>3
    <3>5. \/ \E g \in Pending(c)' : agent'.silent <= HeartbeatEvery + g
          \/ \E i \in 1 .. Len(conn'[c].down) :
                agent'.silent <= HeartbeatEvery + HandledBy + conn'[c].down[i]
      BY <1>3, <2>5, <2>8, <2>10, <3>1, <3>2 DEF NewsInv
    <3> QED BY <2>5, <3>3, <3>4, <3>5 DEF NewsInv
  <2>12. TravelInv(c)'
    <3>1. TravelInv(c) BY <2>8 DEF ConnInv
    <3>2. \A i \in 1 .. Len(u) : i \in 1 .. Len(conn[c].up) \/ u[i] = 0 BY <2>4
    <3>3. conn[c].silent \in Nat BY <1>1, <1>2 DEF Typed, ConnType
    <3>4. ASSUME NEW i \in 1 .. Len(u)
          PROVE  /\ conn[c].at = "accepted" => u[i] <= conn[c].silent
                 /\ conn[c].at \in {"judge", "read"} => u[i] <= ReadBy
      <4>1. CASE u[i] = 0 BY <3>3, <4>1, Bounds
      <4>2. CASE i \in 1 .. Len(conn[c].up) BY <2>4, <3>1, <4>2 DEF TravelInv
      <4> QED BY <3>2, <4>1, <4>2
    <3> QED BY <2>5, <3>1, <3>4 DEF TravelInv
  <2>13. ConnInv(c)' BY <2>9, <2>11, <2>12 DEF ConnInv
  <2>14. ASSUME NEW d \in Conns \ {c} PROVE ConnInv(d)'
    BY <1>1, <1>3, <2>5, Untouched DEF Becomes
  <2> QED BY <1>2, <1>5, <2>6, <2>7, <2>13, <2>14, SplitNext
<1> QED BY <1>6, <1>7

LEMMA AgentReadStep ==
  ASSUME PresenceInv, AgentRead
  PROVE  PresenceInv'
<1>1. Typed /\ AgentInv /\ OneConnection /\ \A d \in Conns : ConnInv(d) BY Split
<1>2. PICK c \in Conns : agent.conn = c BY <1>1 DEF AgentRead, Typed, AgentType, AgentInv
<1>3. /\ agent'.at = agent.at /\ agent'.conn = c /\ agent'.timer = agent.timer
      /\ agent'.silent = 0 /\ agent' \in AgentType
  BY <1>1, <1>2, TimeAssumption DEF AgentRead, Typed, AgentType
<1>4. Clients' = Clients /\ calm' = calm /\ zone' = zone BY DEF AgentRead
<1>5. conn \in [Conns -> ConnType] BY <1>1 DEF Typed
<1>6. conn[c].down \in Seq(0 .. Delay) /\ conn[c].down # << >>
  BY <1>2, <1>5 DEF AgentRead, ConnType
<1>7. PICK q \in Seq(0 .. Delay) : q = Tail(conn[c].down) BY <1>6, HeadTail
<1>8. conn' = [conn EXCEPT ![c].down = q] BY <1>2, <1>7 DEF AgentRead
<1>9. /\ Becomes(c, conn'[c])
      /\ conn'[c].at = conn[c].at /\ conn'[c].ok = conn[c].ok
      /\ conn'[c].silent = conn[c].silent /\ conn'[c].last = conn[c].last
      /\ conn'[c].buf = conn[c].buf /\ conn'[c].up = conn[c].up
      /\ conn'[c].work = conn[c].work /\ conn'[c].gone = conn[c].gone
  BY <1>5, <1>8, DownEffect
<1>10. Typed' BY <1>1, <1>3, <1>4, <1>9 DEF Typed, Becomes
<1>11. AgentInv' BY <1>1, <1>2, <1>3 DEF AgentInv
<1>12. OneConnection' BY <1>1, <1>4, <1>9 DEF OneConnection, Becomes
<1>13. ConnInv(c)'
  <2>1. Pending(c)' = Pending(c) BY <1>9 DEF Pending
  <2>2. (Healthy(c)' <=> Healthy(c)) /\ (Reading(c)' <=> Reading(c))
    BY <1>2, <1>3, <1>9 DEF Healthy, Holds, Reading
  <2>3. agent'.silent <= agent'.timer BY <1>3 DEF AgentType
  <2>4. NewsInv(c) /\ GoneInv(c) /\ TravelInv(c) BY <1>1 DEF ConnInv
  <2>5. NewsInv(c)' BY <1>3, <1>9, <2>1, <2>2, <2>3, <2>4 DEF NewsInv
  <2>6. GoneInv(c)' BY <1>9, <2>2, <2>4 DEF GoneInv
  <2>7. TravelInv(c)' BY <1>9, <2>4 DEF TravelInv
  <2> QED BY <2>5, <2>6, <2>7 DEF ConnInv
<1>14. ASSUME NEW d \in Conns \ {c} PROVE ConnInv(d)'
  BY <1>1, <1>3, <1>9, Untouched DEF Becomes
<1> QED BY <1>10, <1>11, <1>12, <1>13, <1>14, SplitNext

LEMMA AgentGiveUpStep ==
  ASSUME PresenceInv, AgentGiveUp
  PROVE  PresenceInv'
<1>1. Typed /\ AgentInv /\ OneConnection /\ \A d \in Conns : ConnInv(d) BY Split
<1>2. PICK c \in Conns : agent.conn = c BY <1>1 DEF AgentGiveUp, Typed, AgentType, AgentInv
<1>3. /\ agent'.at = "ending" /\ agent'.conn = c /\ agent'.timer = 0
      /\ agent'.silent = 0 /\ agent' \in AgentType
  <2>1. agent' = [agent EXCEPT !.at = "ending", !.timer = 0, !.silent = 0] BY DEF AgentGiveUp
  <2>2. agent \in AgentType BY <1>1 DEF Typed
  <2>3. 0 \in 0 .. ReadTimeout /\ 0 \in Nat BY TimeAssumption
  <2>4. agent' = [at |-> "ending", conn |-> agent.conn, timer |-> 0, silent |-> 0]
    BY <2>1, <2>2 DEF AgentType
  <2> QED BY <1>2, <2>2, <2>3, <2>4 DEF AgentType
<1>4. Clients' = Clients /\ calm' = calm /\ zone' = zone BY DEF AgentGiveUp
<1>5. conn \in [Conns -> ConnType] BY <1>1 DEF Typed
<1>6. << >> \in Seq(0 .. Delay) OBVIOUS
<1>7. conn' = [conn EXCEPT ![c].down = << >>] BY <1>2 DEF AgentGiveUp
<1>8. /\ Becomes(c, conn'[c])
      /\ conn'[c].at = conn[c].at /\ conn'[c].silent = conn[c].silent
      /\ conn'[c].buf = conn[c].buf /\ conn'[c].up = conn[c].up
      /\ conn'[c].gone = conn[c].gone
  BY <1>5, <1>6, <1>7, DownEffect
<1>9. Typed' BY <1>1, <1>3, <1>4, <1>8 DEF Typed, Becomes
<1>10. AgentInv' BY <1>3, TimeAssumption DEF AgentInv
<1>11. OneConnection' BY <1>1, <1>4, <1>8 DEF OneConnection, Becomes
<1>12. ConnInv(c)'
  <2>1. ~ Healthy(c)' BY <1>3 DEF Healthy
  <2>2. ConnInv(c) BY <1>1
  <2> QED BY <1>8, <2>1, <2>2 DEF ConnInv, GoneInv, TravelInv, NewsInv
<1>13. ASSUME NEW d \in Conns \ {c} PROVE ConnInv(d)'
  BY <1>1, <1>3, <1>8, Untouched DEF Becomes
<1> QED BY <1>9, <1>10, <1>11, <1>12, <1>13, SplitNext

\* A connection that the server has closed.
LEMMA Gone ==
  ASSUME NEW c \in Conns, conn' \in [Conns -> ConnType],
         conn'[c].at \in {"none", "closed"}, conn'[c].buf = Never,
         conn'[c].up = << >>, conn'[c].gone = 0
  PROVE  ConnInv(c)'
BY DEF ConnInv, GoneInv, TravelInv, NewsInv, Reading

LEMMA ClosedFields ==
  ASSUME NEW c \in Conns
  PROVE  /\ Closed(c).at \in {"none", "closed"} /\ Closed(c).buf = Never
         /\ Closed(c).up = << >> /\ Closed(c).gone = 0
BY DEF Closed, Free

LEMMA AgentCloseStep ==
  ASSUME PresenceInv, AgentClose
  PROVE  PresenceInv'
<1>1. Typed /\ AgentInv /\ OneConnection /\ \A d \in Conns : ConnInv(d) BY Split
<1>2. PICK c \in Conns : agent.conn = c BY <1>1 DEF AgentClose, Typed, AgentType, AgentInv
<1>3. agent' \in AgentType /\ agent'.at = "sleep" /\ agent'.conn = NoConn
  BY TimeAssumption DEF AgentClose, Asleep, AgentType
<1>4. Clients' = Clients /\ calm' = calm /\ zone' = zone BY DEF AgentClose
<1>5. conn \in [Conns -> ConnType] BY <1>1 DEF Typed
<1>6. AgentInv' BY <1>3 DEF AgentInv
<1>7. \A d \in Conns : agent'.conn # d BY <1>3, TimeAssumption
<1>8. CASE Open(c)
  <2>1. conn' = conn BY <1>2, <1>8 DEF AgentClose
  <2>2. Typed' /\ OneConnection' BY <1>1, <1>3, <1>4, <2>1 DEF Typed, OneConnection
  <2>3. \A d \in Conns : ConnInv(d)' BY <1>1, <1>7, <2>1, Untouched
  <2> QED BY <1>6, <2>2, <2>3, SplitNext
<1>9. CASE ~ Open(c)
  <2>1. conn' = [conn EXCEPT ![c] = Free] BY <1>2, <1>9 DEF AgentClose
  <2>2. Becomes(c, Free) BY <1>5, <2>1, FreeType, Except
  <2>3. Free.at = "none" /\ Free.buf = Never /\ Free.up = << >> /\ Free.gone = 0 BY DEF Free
  <2>4. Typed' BY <1>1, <1>3, <1>4, <2>2 DEF Typed, Becomes
  <2>5. OneConnection' BY <1>1, <1>4, <1>9, <2>2, <2>3 DEF OneConnection, Becomes, Open
  <2>6. ConnInv(c)' BY <2>2, <2>3, Gone DEF Becomes
  <2>7. \A d \in Conns \ {c} : ConnInv(d)' BY <1>1, <1>7, <2>2, Untouched DEF Becomes
  <2> QED BY <1>6, <2>4, <2>5, <2>6, <2>7, SplitNext
<1> QED BY <1>8, <1>9

LEMMA RegisterConnStep ==
  ASSUME PresenceInv, NEW c \in Conns, RegisterConn(c)
  PROVE  PresenceInv'
<1>1. Typed /\ AgentInv /\ OneConnection /\ \A d \in Conns : ConnInv(d) BY Split
<1>2. conn \in [Conns -> ConnType] BY <1>1 DEF Typed
<1>3. /\ conn[c].at = "accepted" /\ Clients = NoConn /\ Clients' = c
      /\ conn' = [conn EXCEPT ![c].at = "judge"]
      /\ agent' = agent /\ calm' = calm /\ zone' = zone
  BY DEF RegisterConn
<1>4. /\ Becomes(c, conn'[c])
      /\ conn'[c].at = "judge" /\ conn'[c].ok = conn[c].ok
      /\ conn'[c].last = conn[c].last /\ conn'[c].buf = conn[c].buf
      /\ conn'[c].up = conn[c].up /\ conn'[c].work = conn[c].work
      /\ conn'[c].down = conn[c].down /\ conn'[c].gone = conn[c].gone
  BY <1>2, <1>3, AtEffect DEF States
<1>5. Typed' BY <1>1, <1>3, <1>4 DEF Typed, Becomes
<1>6. AgentInv' BY <1>1, <1>3 DEF AgentInv
<1>7. OneConnection'
  <2>1. \A d \in Conns : conn[d].at \notin {"judge", "read", "invalid"}
    BY <1>1, <1>3, TimeAssumption DEF OneConnection
  <2> QED BY <1>3, <1>4, <2>1 DEF OneConnection, Becomes
<1>8. ConnInv(c)'
  <2>1. NewsInv(c) /\ GoneInv(c) /\ TravelInv(c) BY <1>1 DEF ConnInv
  <2>2. /\ Pending(c)' = Pending(c)
        /\ Reading(c)' /\ Reading(c)
        /\ Healthy(c)' <=> Healthy(c)
    <3>1. Pending(c)' = Pending(c) BY <1>4 DEF Pending
    <3>2. Reading(c)' /\ Reading(c) BY <1>3, <1>4 DEF Reading
    <3>3. Healthy(c)' <=> Healthy(c) BY <1>3, <1>4 DEF Healthy, Holds
    <3> QED BY <3>1, <3>2, <3>3
  <2>3. NewsInv(c)' BY <1>3, <1>4, <2>1, <2>2 DEF NewsInv
  <2>4. /\ conn[c].gone \in Nat /\ conn[c].silent \in Nat /\ conn[c].up \in Seq(Nat)
        /\ conn[c].silent <= ReadBy
    <3>1. conn[c] \in ConnType BY <1>2
    <3>2. conn[c].gone \in Nat /\ conn[c].silent \in Nat /\ conn[c].up \in Seq(Nat)
      BY <3>1 DEF ConnType
    <3> QED BY <1>3, <2>1, <3>2, Bounds DEF GoneInv
  <2>5. GoneInv(c)'
    <3>1. conn'[c].gone <= ReadBy BY <1>3, <1>4, <2>1, <2>4, Bounds DEF GoneInv
    <3> QED BY <1>3, <1>4, <2>1, <2>2, <3>1 DEF GoneInv
  <2>6. TravelInv(c)'
    <3>1. ASSUME NEW i \in 1 .. Len(conn[c].up) PROVE conn[c].up[i] <= ReadBy
      <4>1. conn[c].up[i] \in Nat /\ conn[c].up[i] <= conn[c].silent
        BY <1>3, <2>1, <2>4, Element DEF TravelInv
      <4> QED BY <2>4, <4>1, Bounds
    <3> QED BY <1>3, <1>4, <2>1, <3>1 DEF TravelInv
  <2> QED BY <2>3, <2>5, <2>6 DEF ConnInv
<1>9. ASSUME NEW d \in Conns \ {c} PROVE ConnInv(d)'
  BY <1>1, <1>3, <1>4, Untouched DEF Becomes
<1> QED BY <1>5, <1>6, <1>7, <1>8, <1>9, SplitNext

LEMMA RefuseConnStep ==
  ASSUME PresenceInv, NEW c \in Conns, RefuseConn(c)
  PROVE  PresenceInv'
<1>1. Typed /\ AgentInv /\ OneConnection /\ \A d \in Conns : ConnInv(d) BY Split
<1>2. conn \in [Conns -> ConnType] BY <1>1 DEF Typed
<1>3. /\ conn[c].at = "accepted" /\ conn' = [conn EXCEPT ![c] = Closed(c)]
      /\ agent' = agent /\ Clients' = Clients /\ calm' = calm /\ zone' = zone
  BY DEF RefuseConn
<1>4. Becomes(c, Closed(c)) BY <1>2, <1>3, ClosedType, Except
<1>5. Typed' BY <1>1, <1>3, <1>4 DEF Typed, Becomes
<1>6. AgentInv' BY <1>1, <1>3 DEF AgentInv
<1>7. OneConnection' BY <1>1, <1>3, <1>4, ClosedFields DEF OneConnection, Becomes
<1>8. ConnInv(c)' BY <1>4, ClosedFields, Gone DEF Becomes
<1>9. ASSUME NEW d \in Conns \ {c} PROVE ConnInv(d)'
  BY <1>1, <1>3, <1>4, Untouched DEF Becomes
<1> QED BY <1>5, <1>6, <1>7, <1>8, <1>9, SplitNext

LEMMA InValidClientStep ==
  ASSUME PresenceInv, NEW c \in Conns, InValidClient(c)
  PROVE  PresenceInv'
<1>1. Typed /\ AgentInv /\ OneConnection /\ \A d \in Conns : ConnInv(d) BY Split
<1>2. conn \in [Conns -> ConnType] BY <1>1 DEF Typed
<1>3. /\ conn[c].at = "invalid" /\ conn' = [conn EXCEPT ![c] = Closed(c)] /\ Clients' = NoConn
      /\ agent' = agent /\ calm' = calm /\ zone' = zone
  BY DEF InValidClient
<1>4. Becomes(c, Closed(c)) BY <1>2, <1>3, ClosedType, Except
<1>5. Typed' BY <1>1, <1>3, <1>4 DEF Typed, Becomes
<1>6. AgentInv' BY <1>1, <1>3 DEF AgentInv
<1>7. OneConnection'
  <2>1. \A d \in Conns \ {c} : conn[d].at \notin {"judge", "read", "invalid"}
    BY <1>1, <1>3 DEF OneConnection
  <2>2. \A d \in Conns : conn'[d].at \notin {"judge", "read", "invalid"}
    BY <1>4, <2>1, ClosedFields DEF Becomes
  <2> QED BY <1>3, <2>2, TimeAssumption DEF OneConnection
<1>8. ConnInv(c)' BY <1>4, ClosedFields, Gone DEF Becomes
<1>9. ASSUME NEW d \in Conns \ {c} PROVE ConnInv(d)'
  BY <1>1, <1>3, <1>4, Untouched DEF Becomes
<1> QED BY <1>5, <1>6, <1>7, <1>8, <1>9, SplitNext

\* JudgeInvalid and ReadError: the client waits to be removed.
LEMMA GetMsgErrorStep ==
  ASSUME PresenceInv, NEW c \in Conns, conn[c].at \in {"judge", "read"}, GetMsgError(c)
  PROVE  PresenceInv'
<1>1. Typed /\ AgentInv /\ OneConnection /\ \A d \in Conns : ConnInv(d) BY Split
<1>2. conn \in [Conns -> ConnType] BY <1>1 DEF Typed
<1>3. /\ conn' = [conn EXCEPT ![c].at = "invalid", ![c].silent = 0]
      /\ agent' = agent /\ Clients' = Clients /\ calm' = calm /\ zone' = zone
  BY DEF GetMsgError
<1>4. /\ Becomes(c, conn'[c])
      /\ conn'[c].at = "invalid" /\ conn'[c].ok = conn[c].ok /\ conn'[c].silent = 0
      /\ conn'[c].buf = conn[c].buf /\ conn'[c].up = conn[c].up /\ conn'[c].gone = conn[c].gone
  <2>1. "invalid" \in States /\ 0 \in Nat BY DEF States
  <2> QED BY <1>2, <1>3, <2>1, DeadlineEffect
<1>5. Typed' BY <1>1, <1>3, <1>4 DEF Typed, Becomes
<1>6. AgentInv' BY <1>1, <1>3 DEF AgentInv
<1>7. OneConnection' BY <1>1, <1>3, <1>4 DEF OneConnection, Becomes
<1>8. ConnInv(c)'
  <2>1. GoneInv(c) /\ TravelInv(c) BY <1>1 DEF ConnInv
  <2>2. Healthy(c)' <=> Healthy(c) BY <1>3, <1>4 DEF Healthy, Holds
  <2>3. NewsInv(c)' BY <1>4 DEF NewsInv, Reading
  <2>4. TravelInv(c)' BY <1>4, <2>1 DEF TravelInv
  <2>5. conn'[c].gone <= ReadTimeout + ReadBy + conn'[c].silent /\ conn'[c].silent <= LockWait
    <3>1. conn[c].gone \in Nat /\ conn[c].silent \in Nat
      <4>1. conn[c] \in ConnType BY <1>2
      <4> QED BY <4>1 DEF ConnType
    <3>2. conn[c].gone <= ReadTimeout + ReadBy BY <2>1, <3>1, Bounds DEF GoneInv
    <3> QED BY <1>4, <3>1, <3>2, Bounds
  <2>6. GoneInv(c)' BY <1>4, <2>1, <2>2, <2>5 DEF GoneInv
  <2> QED BY <2>3, <2>4, <2>6 DEF ConnInv
<1>9. ASSUME NEW d \in Conns \ {c} PROVE ConnInv(d)'
  BY <1>1, <1>3, <1>4, Untouched DEF Becomes
<1> QED BY <1>5, <1>6, <1>7, <1>8, <1>9, SplitNext

\* The read deadline starts anew.
LEMMA DeadlineStep ==
  ASSUME PresenceInv, NEW c \in Conns, JudgeValid(c), conn[c].buf = Never
  PROVE  PresenceInv'
<1>1. Typed /\ AgentInv /\ OneConnection /\ \A d \in Conns : ConnInv(d) BY Split
<1>2. conn \in [Conns -> ConnType] BY <1>1 DEF Typed
<1>3. /\ conn[c].at = "judge" /\ conn' = [conn EXCEPT ![c].at = "read", ![c].silent = 0]
      /\ agent' = agent /\ Clients' = Clients /\ calm' = calm /\ zone' = zone
  BY DEF JudgeValid
<1>4. /\ Becomes(c, conn'[c])
      /\ conn'[c].at = "read" /\ conn'[c].ok = conn[c].ok /\ conn'[c].silent = 0
      /\ conn'[c].last = conn[c].last /\ conn'[c].buf = conn[c].buf
      /\ conn'[c].up = conn[c].up /\ conn'[c].work = conn[c].work
      /\ conn'[c].down = conn[c].down /\ conn'[c].gone = conn[c].gone
  <2>1. "read" \in States /\ 0 \in Nat BY DEF States
  <2> QED BY <1>2, <1>3, <2>1, DeadlineEffect
<1>5. Typed' BY <1>1, <1>3, <1>4 DEF Typed, Becomes
<1>6. AgentInv' BY <1>1, <1>3 DEF AgentInv
<1>7. OneConnection' BY <1>1, <1>3, <1>4 DEF OneConnection, Becomes
<1>8. ConnInv(c)'
  <2>1. NewsInv(c) /\ GoneInv(c) /\ TravelInv(c) BY <1>1 DEF ConnInv
  <2>2. /\ Pending(c)' = Pending(c)
        /\ Reading(c)' /\ Reading(c)
        /\ Healthy(c)' <=> Healthy(c)
    <3>1. Pending(c)' = Pending(c) BY <1>4 DEF Pending
    <3>2. Reading(c)' /\ Reading(c) BY <1>3, <1>4 DEF Reading
    <3>3. Healthy(c)' <=> Healthy(c) BY <1>3, <1>4 DEF Healthy, Holds
    <3> QED BY <3>1, <3>2, <3>3
  <2>3. 0 <= agent.timer BY <1>1 DEF Typed, AgentType
  <2>4. NewsInv(c)' BY <1>3, <1>4, <2>1, <2>2, <2>3 DEF NewsInv
  <2>5. conn'[c].gone <= conn'[c].silent + ReadBy /\ conn'[c].silent <= ReadTimeout
    <3>1. conn[c].gone <= ReadBy BY <1>3, <2>1 DEF GoneInv
    <3>2. conn[c].gone \in Nat BY <1>2 DEF ConnType
    <3> QED BY <1>4, <3>1, <3>2, Bounds
  <2>6. GoneInv(c)' BY <1>3, <1>4, <2>1, <2>2, <2>5 DEF GoneInv
  <2>7. TravelInv(c)'
    <3>1. conn'[c].buf = Never BY <1>4
    <3> QED BY <1>3, <1>4, <2>1, <3>1 DEF TravelInv
  <2> QED BY <2>4, <2>6, <2>7 DEF ConnInv
<1>9. ASSUME NEW d \in Conns \ {c} PROVE ConnInv(d)'
  BY <1>1, <1>3, <1>4, Untouched DEF Becomes
<1> QED BY <1>5, <1>6, <1>7, <1>8, <1>9, SplitNext

\* A handler is started for the heartbeat that was read.
LEMMA StartStep ==
  ASSUME PresenceInv, NEW c \in Conns, JudgeValid(c), conn[c].buf # Never
  PROVE  PresenceInv'
<1>1. Typed /\ AgentInv /\ OneConnection /\ \A d \in Conns : ConnInv(d) BY Split
<1>2. conn \in [Conns -> ConnType] BY <1>1 DEF Typed
<1>3. /\ conn[c].at = "judge"
      /\ conn' = [conn EXCEPT ![c].work = @ \cup {conn[c].buf}, ![c].buf = Never]
      /\ agent' = agent /\ Clients' = Clients /\ calm' = calm /\ zone' = zone
  BY DEF JudgeValid
<1>4. conn[c].work \cup {conn[c].buf} \in SUBSET (0 .. HandledBy)
  <2>1. conn[c].work \in SUBSET (0 .. HandledBy) /\ conn[c].buf \in Nat
    BY <1>2 DEF ConnType
  <2>2. conn[c].buf <= ReadBy BY <1>1 DEF ConnInv, TravelInv
  <2> QED BY <2>1, <2>2, Bounds
<1>5. /\ Becomes(c, conn'[c])
      /\ conn'[c].at = conn[c].at /\ conn'[c].ok = conn[c].ok
      /\ conn'[c].last = conn[c].last /\ conn'[c].buf = Never
      /\ conn'[c].up = conn[c].up /\ conn'[c].work = conn[c].work \cup {conn[c].buf}
      /\ conn'[c].down = conn[c].down /\ conn'[c].gone = conn[c].gone
  <2>1. Never \in Nat \cup {Never} OBVIOUS
  <2>2. PICK w \in SUBSET (0 .. HandledBy) : w = conn[c].work \cup {conn[c].buf} BY <1>4
  <2>3. conn' = [conn EXCEPT ![c].work = w, ![c].buf = Never] BY <1>3, <2>2
  <2> DEFINE r == [conn[c] EXCEPT !.work = w, !.buf = Never]
  <2>4. conn' = [conn EXCEPT ![c] = r] BY <1>2, <2>3
  <2>5. conn[c] \in ConnType BY <1>2
  <2>6. /\ r \in ConnType
        /\ r.at = conn[c].at /\ r.ok = conn[c].ok /\ r.last = conn[c].last /\ r.buf = Never
        /\ r.up = conn[c].up /\ r.work = w /\ r.down = conn[c].down /\ r.gone = conn[c].gone
    BY <2>1, <2>5 DEF ConnType
  <2> HIDE DEF r
  <2>7. Becomes(c, r) BY <1>2, <2>4, <2>6, Except
  <2>8. conn'[c] = r BY <2>7 DEF Becomes
  <2> QED BY <2>2, <2>6, <2>7, <2>8
<1>6. Typed' BY <1>1, <1>3, <1>5 DEF Typed, Becomes
<1>7. AgentInv' BY <1>1, <1>3 DEF AgentInv
<1>8. OneConnection' BY <1>1, <1>3, <1>5 DEF OneConnection, Becomes
<1>9. ConnInv(c)'
  <2>1. NewsInv(c) /\ GoneInv(c) /\ TravelInv(c) BY <1>1 DEF ConnInv
  <2>2. Pending(c)' = Pending(c) BY <1>5 DEF Pending
  <2>3. Reading(c)' /\ Reading(c) /\ (Healthy(c)' <=> Healthy(c))
    BY <1>3, <1>5 DEF Reading, Healthy, Holds
  <2>4. NewsInv(c)' BY <1>3, <1>5, <2>1, <2>2, <2>3 DEF NewsInv
  <2>5. GoneInv(c)' BY <1>3, <1>5, <2>1, <2>3 DEF GoneInv
  <2>6. TravelInv(c)' BY <1>3, <1>5, <2>1 DEF TravelInv
  <2> QED BY <2>4, <2>5, <2>6 DEF ConnInv
<1>10. ASSUME NEW d \in Conns \ {c} PROVE ConnInv(d)'
  BY <1>1, <1>3, <1>5, Untouched DEF Becomes
<1> QED BY <1>6, <1>7, <1>8, <1>9, <1>10, SplitNext

LEMMA ReadStep ==
  ASSUME PresenceInv, NEW c \in Conns, Read(c)
  PROVE  PresenceInv'
<1>1. Typed /\ AgentInv /\ OneConnection /\ \A d \in Conns : ConnInv(d) BY Split
<1>2. conn \in [Conns -> ConnType] BY <1>1 DEF Typed
<1>3. /\ conn[c].at = "read" /\ conn[c].up # << >>
      /\ conn' = [conn EXCEPT ![c].at = "judge", ![c].buf = Head(conn[c].up), ![c].up = Tail(@)]
      /\ agent' = agent /\ Clients' = Clients /\ calm' = calm /\ zone' = zone
  BY DEF Read
<1>4. conn[c].up \in Seq(Nat) BY <1>2 DEF ConnType
<1>5. PICK b \in Nat, u \in Seq(Nat) : b = Head(conn[c].up) /\ u = Tail(conn[c].up)
  BY <1>3, <1>4, HeadTail
<1>6. /\ b = conn[c].up[1] /\ 1 \in 1 .. Len(conn[c].up)
      /\ \A i \in 1 .. Len(u) : i + 1 \in 1 .. Len(conn[c].up) /\ u[i] = conn[c].up[i + 1]
  BY <1>3, <1>4, <1>5, HeadTail
<1>7. /\ Becomes(c, conn'[c])
      /\ conn'[c].at = "judge" /\ conn'[c].ok = conn[c].ok
      /\ conn'[c].last = conn[c].last /\ conn'[c].buf = b /\ conn'[c].up = u
      /\ conn'[c].work = conn[c].work /\ conn'[c].down = conn[c].down
      /\ conn'[c].gone = conn[c].gone
  <2>1. b \in Nat \cup {Never} BY TimeAssumption
  <2> DEFINE r == [conn[c] EXCEPT !.at = "judge", !.buf = b, !.up = u]
  <2>2. conn' = [conn EXCEPT ![c] = r] BY <1>3, <1>5
  <2>3. conn[c] \in ConnType BY <1>2
  <2>4. /\ r \in ConnType
        /\ r.at = "judge" /\ r.ok = conn[c].ok /\ r.last = conn[c].last /\ r.buf = b
        /\ r.up = u /\ r.work = conn[c].work /\ r.down = conn[c].down /\ r.gone = conn[c].gone
    BY <2>1, <2>3 DEF ConnType, States
  <2>5. Becomes(c, r) BY <1>2, <2>2, <2>4, Except
  <2>6. conn'[c] = r BY <2>5 DEF Becomes
  <2> QED BY <2>4, <2>5, <2>6
<1>8. Typed' BY <1>1, <1>3, <1>7 DEF Typed, Becomes
<1>9. AgentInv' BY <1>1, <1>3 DEF AgentInv
<1>10. OneConnection' BY <1>1, <1>3, <1>7 DEF OneConnection, Becomes
<1>11. NewsInv(c) /\ GoneInv(c) /\ TravelInv(c) /\ conn[c].buf = Never
  BY <1>1, <1>3 DEF ConnInv, TravelInv
<1>12. /\ Reading(c)' /\ Reading(c)
       /\ Healthy(c)' <=> Healthy(c)
  <2>1. Reading(c)' /\ Reading(c) BY <1>3, <1>7 DEF Reading
  <2>2. Healthy(c)' <=> Healthy(c) BY <1>3, <1>7 DEF Healthy, Holds
  <2> QED BY <2>1, <2>2
<1>13. Pending(c) \subseteq Pending(c)'
  <2>1. conn[c].work \subseteq Pending(c)' BY <1>7 DEF Pending
  <2>2. ASSUME NEW i \in 1 .. Len(conn[c].up) PROVE conn[c].up[i] \in Pending(c)'
    <3>1. CASE i = 1
      <4>1. b # Never BY DEF Never
      <4> QED BY <1>6, <1>7, <3>1, <4>1 DEF Pending
    <3>2. CASE i # 1
      <4>1. PICK n \in Nat : n = Len(conn[c].up) BY <1>4
      <4>2. Len(u) = n - 1 BY <1>3, <1>4, <1>5, <4>1, HeadTail
      <4>3. i - 1 \in 1 .. Len(u) /\ (i - 1) + 1 = i BY <3>2, <4>1, <4>2
      <4>4. u[i - 1] = conn[c].up[i] BY <1>6, <4>3
      <4> QED BY <1>7, <4>3, <4>4 DEF Pending
    <3> QED BY <3>1, <3>2
  <2> QED BY <1>11, <2>1, <2>2 DEF Pending
<1>14. NewsInv(c)' BY <1>3, <1>7, <1>11, <1>12, <1>13 DEF NewsInv
<1>15. GoneInv(c)' /\ TravelInv(c)'
  <2>1. conn[c].gone \in Nat BY <1>2 DEF ConnType
  <2>2. b <= ReadBy /\ conn'[c].gone <= ReadBy
    <3>1. b <= ReadBy BY <1>3, <1>6, <1>11 DEF TravelInv
    <3>2. conn[c].gone <= b BY <1>6, <1>11 DEF GoneInv
    <3> QED BY <1>7, <2>1, <3>1, <3>2, Bounds
  <2>3. \A i \in 1 .. Len(u) : u[i] >= conn'[c].gone BY <1>6, <1>7, <1>11 DEF GoneInv
  <2>4. GoneInv(c)' BY <1>7, <1>11, <1>12, <2>2, <2>3 DEF GoneInv
  <2>5. \A i \in 1 .. Len(u) : u[i] <= ReadBy BY <1>3, <1>6, <1>11 DEF TravelInv
  <2>6. TravelInv(c)' BY <1>7, <2>2, <2>5 DEF TravelInv
  <2> QED BY <2>4, <2>6
<1>16. ConnInv(c)' BY <1>7, <1>14, <1>15 DEF ConnInv
<1>17. ASSUME NEW d \in Conns \ {c} PROVE ConnInv(d)'
  BY <1>1, <1>3, <1>7, Untouched DEF Becomes
<1> QED BY <1>8, <1>9, <1>10, <1>16, <1>17, SplitNext

LEMMA HandleStep ==
  ASSUME PresenceInv, NEW c \in Conns, NEW m \in conn[c].work, HandleHeartBeatMsg(c, m)
  PROVE  PresenceInv'
<1>1. Typed /\ AgentInv /\ OneConnection /\ \A d \in Conns : ConnInv(d) BY Split
<1>2. conn \in [Conns -> ConnType] BY <1>1 DEF Typed
<1>3. /\ conn' = [conn EXCEPT ![c].work = @ \ {m}, ![c].last = m,
                    ![c].down = IF Healthy(c) THEN Append(@, 0) ELSE @]
      /\ agent' = agent /\ Clients' = Clients /\ calm' = calm /\ zone' = zone
  BY DEF HandleHeartBeatMsg
<1>4. /\ conn[c].work \in SUBSET (0 .. HandledBy) /\ conn[c].down \in Seq(0 .. Delay)
      /\ agent.silent \in Nat /\ agent.timer \in Nat
  <2>1. conn[c] \in ConnType /\ agent \in AgentType BY <1>1, <1>2 DEF Typed
  <2>2. conn[c].work \in SUBSET (0 .. HandledBy) /\ conn[c].down \in Seq(0 .. Delay) BY <2>1 DEF ConnType
  <2>3. agent.silent \in Nat /\ agent.timer \in Nat BY <2>1 DEF AgentType
  <2> QED BY <2>2, <2>3
<1>5. m \in Nat /\ m <= HandledBy BY <1>4, Bounds
<1>6. PICK q \in Seq(0 .. Delay) : q = IF Healthy(c) THEN Append(conn[c].down, 0) ELSE conn[c].down
  <2>1. Append(conn[c].down, 0) \in Seq(0 .. Delay) BY <1>4, TimeAssumption
  <2> QED BY <1>4, <2>1
<1>7. /\ Becomes(c, conn'[c])
      /\ conn'[c].at = conn[c].at /\ conn'[c].ok = conn[c].ok
      /\ conn'[c].silent = conn[c].silent /\ conn'[c].last = m
      /\ conn'[c].buf = conn[c].buf /\ conn'[c].up = conn[c].up
      /\ conn'[c].work = conn[c].work \ {m} /\ conn'[c].down = q
      /\ conn'[c].gone = conn[c].gone
  <2>1. m \in Nat \cup {Never} /\ conn[c].work \ {m} \in SUBSET (0 .. HandledBy) BY <1>4, <1>5
  <2>2. PICK w \in SUBSET (0 .. HandledBy) : w = conn[c].work \ {m} BY <2>1
  <2> DEFINE r == [conn[c] EXCEPT !.work = w, !.last = m, !.down = q]
  <2>3. conn' = [conn EXCEPT ![c] = r] BY <1>3, <1>6, <2>2
  <2>4. conn[c] \in ConnType BY <1>2
  <2>5. /\ r \in ConnType
        /\ r.at = conn[c].at /\ r.ok = conn[c].ok /\ r.silent = conn[c].silent
        /\ r.last = m /\ r.buf = conn[c].buf /\ r.up = conn[c].up /\ r.work = w
        /\ r.down = q /\ r.gone = conn[c].gone
    BY <2>1, <2>4 DEF ConnType
  <2>6. Becomes(c, r) BY <1>2, <2>3, <2>5, Except
  <2>7. conn'[c] = r BY <2>6 DEF Becomes
  <2> QED BY <2>2, <2>5, <2>6, <2>7
<1>8. Typed' BY <1>1, <1>3, <1>7 DEF Typed, Becomes
<1>9. AgentInv' BY <1>1, <1>3 DEF AgentInv
<1>10. OneConnection' BY <1>1, <1>3, <1>7 DEF OneConnection, Becomes
<1>11. NewsInv(c) /\ GoneInv(c) /\ TravelInv(c) BY <1>1 DEF ConnInv
<1>12. /\ Reading(c)' <=> Reading(c)
       /\ Healthy(c)' <=> Healthy(c)
  <2>1. Reading(c)' <=> Reading(c) BY <1>7 DEF Reading
  <2>2. Healthy(c)' <=> Healthy(c) BY <1>3, <1>7 DEF Healthy, Holds
  <2> QED BY <2>1, <2>2
<1>13. ASSUME Healthy(c), Reading(c) PROVE NewsInv(c)'
  <2>1. conn'[c].last <= HandledBy + agent'.timer BY <1>3, <1>4, <1>5, <1>7, Bounds
  <2>2. /\ Len(q) = Len(conn[c].down) + 1 /\ Len(conn[c].down) \in Nat /\ q[Len(q)] = 0
        /\ \A i \in 1 .. Len(conn[c].down) : q[i] = conn[c].down[i]
    BY <1>4, <1>6, <1>13
  <2>3. Len(q) \in 1 .. Len(q) /\ \A i \in 1 .. Len(conn[c].down) : i \in 1 .. Len(q) BY <2>2
  <2>4. \A g \in Pending(c) : g \in Pending(c)' \/ g = m BY <1>7 DEF Pending
  <2>5. CASE \E g \in Pending(c) : agent.silent <= HeartbeatEvery + g
    <3>1. PICK g \in Pending(c) : agent.silent <= HeartbeatEvery + g BY <2>5
    <3>2. CASE g \in Pending(c)' BY <1>3, <1>7, <1>11, <1>13, <2>1, <3>1, <3>2 DEF NewsInv
    <3>3. CASE g = m
      <4>1. agent.silent <= HeartbeatEvery + HandledBy + 0
        BY <1>4, <1>5, <3>1, <3>3, Bounds
      <4> QED BY <1>3, <1>7, <1>11, <1>13, <2>1, <2>2, <2>3, <4>1 DEF NewsInv
    <3> QED BY <2>4, <3>2, <3>3
  <2>6. CASE \E i \in 1 .. Len(conn[c].down) :
               agent.silent <= HeartbeatEvery + HandledBy + conn[c].down[i]
    BY <1>3, <1>7, <1>11, <1>13, <2>1, <2>2, <2>3, <2>6 DEF NewsInv
  <2>7. CASE agent.silent <= agent.timer BY <1>3, <1>7, <1>11, <1>13, <2>1, <2>7 DEF NewsInv
  <2> QED BY <1>11, <1>13, <2>5, <2>6, <2>7 DEF NewsInv
<1>14. NewsInv(c)' BY <1>12, <1>13 DEF NewsInv
<1>15. GoneInv(c)' BY <1>7, <1>11, <1>12 DEF GoneInv
<1>16. TravelInv(c)' BY <1>7, <1>11 DEF TravelInv
<1>17. ConnInv(c)' BY <1>14, <1>15, <1>16 DEF ConnInv
<1>18. ASSUME NEW d \in Conns \ {c} PROVE ConnInv(d)'
  BY <1>1, <1>3, <1>7, Untouched DEF Becomes
<1> QED BY <1>8, <1>9, <1>10, <1>17, <1>18, SplitNext

LEMMA BreakStep ==
  ASSUME PresenceInv, NEW c \in Conns, Break(c)
  PROVE  PresenceInv'
<1>1. Typed /\ AgentInv /\ OneConnection /\ \A d \in Conns : ConnInv(d) BY Split
<1>2. conn \in [Conns -> ConnType] BY <1>1 DEF Typed
<1>3. /\ conn' = [conn EXCEPT ![c].ok = FALSE, ![c].up = << >>, ![c].down = << >>]
      /\ agent' = agent /\ Clients' = Clients /\ calm' = calm /\ zone' = zone
  BY DEF Break
<1>4. /\ Becomes(c, conn'[c])
      /\ conn'[c].at = conn[c].at /\ conn'[c].ok = FALSE
      /\ conn'[c].silent = conn[c].silent /\ conn'[c].buf = conn[c].buf
      /\ conn'[c].up = << >> /\ conn'[c].gone = conn[c].gone
  <2>1. << >> \in Seq(0 .. Delay) /\ << >> \in Seq(Nat) /\ FALSE \in BOOLEAN OBVIOUS
  <2> DEFINE r == [conn[c] EXCEPT !.ok = FALSE, !.up = << >>, !.down = << >>]
  <2>2. conn' = [conn EXCEPT ![c] = r] BY <1>3
  <2>3. conn[c] \in ConnType BY <1>2
  <2>4. /\ r \in ConnType
        /\ r.at = conn[c].at /\ r.ok = FALSE /\ r.silent = conn[c].silent
        /\ r.buf = conn[c].buf /\ r.up = << >> /\ r.gone = conn[c].gone
    BY <2>1, <2>3 DEF ConnType
  <2>5. Becomes(c, r) BY <1>2, <2>2, <2>4, Except
  <2>6. conn'[c] = r BY <2>5 DEF Becomes
  <2> QED BY <2>4, <2>5, <2>6
<1>5. Typed' BY <1>1, <1>3, <1>4 DEF Typed, Becomes
<1>6. AgentInv' BY <1>1, <1>3 DEF AgentInv
<1>7. OneConnection' BY <1>1, <1>3, <1>4 DEF OneConnection, Becomes
<1>8. ConnInv(c)'
  <2>1. ~ Healthy(c)' BY <1>4 DEF Healthy
  <2>2. ConnInv(c) BY <1>1
  <2>3. NewsInv(c)' BY <2>1 DEF NewsInv
  <2>4. \A i \in 1 .. Len(conn'[c].up) : conn'[c].up[i] >= conn'[c].gone BY <1>4
  <2>5. GoneInv(c) BY <2>2 DEF ConnInv
  <2>6. GoneInv(c)' BY <1>4, <2>1, <2>4, <2>5, Zenon DEF GoneInv
  <2>7. TravelInv(c)' BY <1>4, <2>2 DEF ConnInv, TravelInv
  <2> QED BY <2>3, <2>6, <2>7 DEF ConnInv
<1>9. ASSUME NEW d \in Conns \ {c} PROVE ConnInv(d)'
  BY <1>1, <1>3, <1>4, Untouched DEF Becomes
<1> QED BY <1>5, <1>6, <1>7, <1>8, <1>9, SplitNext

LEMMA ServerRestartStep ==
  ASSUME PresenceInv, ServerRestart
  PROVE  PresenceInv'
<1>1. Typed /\ AgentInv /\ OneConnection /\ \A d \in Conns : ConnInv(d) BY Split
<1>2. conn \in [Conns -> ConnType] BY <1>1 DEF Typed
<1>3. /\ conn' = [d \in Conns |-> IF Open(d) THEN Closed(d) ELSE conn[d]]
      /\ agent' = agent /\ Clients' = NoConn /\ calm' = calm /\ zone' = zone
  BY DEF ServerRestart
<1>4. conn' \in [Conns -> ConnType] BY <1>2, <1>3, ClosedType
<1>5. \A d \in Conns : conn'[d] = IF Open(d) THEN Closed(d) ELSE conn[d] BY <1>3
<1>6. Typed' BY <1>1, <1>3, <1>4 DEF Typed
<1>7. AgentInv' BY <1>1, <1>3 DEF AgentInv
<1>8. OneConnection'
  <2>1. ASSUME NEW d \in Conns PROVE conn'[d].at \notin {"judge", "read", "invalid"}
    <3>1. CASE Open(d) BY <1>5, <3>1, ClosedFields
    <3>2. CASE ~ Open(d) BY <1>5, <3>2 DEF Open
    <3> QED BY <3>1, <3>2
  <2> QED BY <1>3, <2>1, TimeAssumption DEF OneConnection
<1>9. ASSUME NEW d \in Conns PROVE ConnInv(d)'
  <2>1. CASE Open(d) BY <1>4, <1>5, <2>1, ClosedFields, Gone
  <2>2. CASE ~ Open(d) BY <1>1, <1>3, <1>5, <2>2, Untouched
  <2> QED BY <2>1, <2>2
<1> QED BY <1>6, <1>7, <1>8, <1>9, SplitNext

LEMMA TickAgent ==
  ASSUME PresenceInv, Tick
  PROVE  /\ agent' \in AgentType /\ AgentInv'
         /\ agent'.at = agent.at /\ agent'.conn = agent.conn
         /\ agent.at = "up" => agent'.timer = agent.timer + 1 /\ agent'.silent = agent.silent + 1
<1>1. agent \in AgentType /\ AgentInv BY Split DEF Typed
<1>2. PICK t \in Nat : t = IF agent.at = "ending" THEN agent.timer ELSE agent.timer + 1
  BY <1>1 DEF AgentType
<1>3. PICK s \in 0 .. ReadTimeout : s = IF agent.at = "up" THEN agent.silent + 1 ELSE agent.silent
  <2>1. agent.silent \in 0 .. ReadTimeout BY <1>1 DEF AgentType
  <2>2. agent.at = "up" => agent.silent < ReadTimeout BY DEF Tick, Punctual
  <2> QED BY <2>1, <2>2, TimeAssumption
<1>4. agent' = [agent EXCEPT !.timer = t, !.silent = s] BY <1>2, <1>3 DEF Tick
<1>5. /\ agent' \in AgentType /\ agent'.at = agent.at /\ agent'.conn = agent.conn
      /\ agent'.timer = t /\ agent'.silent = s
  BY <1>1, <1>4 DEF AgentType
<1>6. agent.at = "up" => t <= HeartbeatEvery
  <2>1. agent.at = "up" => agent.timer < HeartbeatEvery BY DEF Tick, Punctual
  <2>2. agent.timer \in Nat BY <1>1 DEF AgentType
  <2> QED BY <1>2, <2>1, <2>2, TimeAssumption
<1>7. AgentInv' BY <1>1, <1>5, <1>6 DEF AgentInv
<1> QED BY <1>2, <1>3, <1>5, <1>7

\* Time passes for a connection that the server has open: it is being read, or
\* its handler waits for ClientLock.
LEMMA TickOpen ==
  ASSUME PresenceInv, Tick, NEW c \in Conns, Open(c)
  PROVE  /\ conn'[c] \in ConnType
         /\ \/ /\ conn[c].at = "read" /\ conn[c].silent < ReadTimeout
               /\ \A i \in 1 .. Len(conn[c].up) : conn[c].up[i] < Delay
            \/ conn[c].at \in {"accepted", "invalid"} /\ conn[c].silent < LockWait
         /\ conn'[c].at = conn[c].at /\ conn'[c].ok = conn[c].ok
         /\ conn'[c].silent = conn[c].silent + 1 /\ conn'[c].buf = conn[c].buf
         /\ conn'[c].last = IF conn[c].last = Never THEN Never ELSE conn[c].last + 1
         /\ conn'[c].up = Older(conn[c].up) /\ conn'[c].down = Older(conn[c].down)
         /\ conn'[c].work = {m + 1 : m \in conn[c].work}
         /\ conn'[c].gone = IF Healthy(c) THEN 0 ELSE conn[c].gone + 1
<1>1. conn[c] \in ConnType BY Split DEF Typed
<1>2. /\ conn[c].at # "judge" /\ ~ Overdue(c)
      /\ conn[c].at \in {"accepted", "invalid"} => conn[c].silent < LockWait
      /\ conn[c].at = "read" => \A i \in 1 .. Len(conn[c].up) : conn[c].up[i] < Delay
      /\ \A i \in 1 .. Len(conn[c].down) : conn[c].down[i] < Delay
      /\ \A m \in conn[c].work : m < HandledBy
  BY DEF Tick, Punctual
<1>3. /\ conn[c].up \in Seq(Nat) /\ conn[c].down \in Seq(0 .. Delay)
      /\ conn[c].work \in SUBSET (0 .. HandledBy) /\ conn[c].silent \in Nat
      /\ conn[c].last \in Nat \cup {Never} /\ conn[c].gone \in Nat
  BY <1>1 DEF ConnType
<1>4. \/ /\ conn[c].at = "read" /\ conn[c].silent < ReadTimeout
         /\ \A i \in 1 .. Len(conn[c].up) : conn[c].up[i] < Delay
      \/ conn[c].at \in {"accepted", "invalid"} /\ conn[c].silent < LockWait
  <2>1. conn[c].at \in {"accepted", "read", "invalid"} BY <1>2 DEF Open
  <2>2. conn[c].at = "read" => conn[c].silent < ReadTimeout BY <1>2, <1>3, Bounds DEF Overdue
  <2> QED BY <1>2, <2>1, <2>2
<1>5. PICK u \in Seq(Nat), q \in Seq(0 .. Delay) :
        u = Older(conn[c].up) /\ q = Older(conn[c].down)
  BY <1>2, <1>3, OlderType, OlderAges, Bounds
<1>6. PICK w \in SUBSET (0 .. HandledBy) : w = {m + 1 : m \in conn[c].work}
  <2>1. \A m \in conn[c].work : m + 1 \in 0 .. HandledBy BY <1>2, <1>3, Bounds
  <2> QED BY <2>1
<1>7. PICK s \in Nat, l \in Nat \cup {Never}, g \in Nat :
        /\ s = conn[c].silent + 1
        /\ l = IF conn[c].last = Never THEN Never ELSE conn[c].last + 1
        /\ g = IF Healthy(c) THEN 0 ELSE conn[c].gone + 1
  <2>1. conn[c].silent + 1 \in Nat /\ (IF Healthy(c) THEN 0 ELSE conn[c].gone + 1) \in Nat
    BY <1>3
  <2>2. (IF conn[c].last = Never THEN Never ELSE conn[c].last + 1) \in Nat \cup {Never} BY <1>3
  <2> QED BY <2>1, <2>2
<1> DEFINE r == [conn[c] EXCEPT !.silent = s, !.last = l, !.up = u, !.work = w,
                                !.down = q, !.gone = g]
<1>8. conn'[c] = r BY <1>5, <1>6, <1>7 DEF Tick
<1>9. /\ r \in ConnType /\ r.at = conn[c].at /\ r.ok = conn[c].ok /\ r.buf = conn[c].buf
      /\ r.silent = s /\ r.last = l /\ r.up = u /\ r.work = w /\ r.down = q /\ r.gone = g
  BY <1>1 DEF ConnType
<1> QED BY <1>4, <1>5, <1>6, <1>7, <1>8, <1>9

LEMMA TickNews ==
  ASSUME PresenceInv, Tick, NEW c \in Conns, Reading(c), Healthy(c)
  PROVE  NewsInv(c)'
<1>1. /\ NewsInv(c) /\ agent.at = "up" /\ conn[c] \in ConnType /\ agent \in AgentType
      /\ conn[c].buf # Never => conn[c].at \in {"judge", "invalid"}
  BY Split DEF Typed, ConnInv, TravelInv, Healthy
<1>2. /\ conn[c].at \in {"accepted", "read"} /\ conn'[c].at = conn[c].at
      /\ conn'[c].buf = conn[c].buf /\ conn'[c].silent = conn[c].silent + 1
      /\ conn'[c].last = IF conn[c].last = Never THEN Never ELSE conn[c].last + 1
      /\ conn'[c].up = Older(conn[c].up) /\ conn'[c].down = Older(conn[c].down)
      /\ conn'[c].work = {m + 1 : m \in conn[c].work}
  <2>1. Open(c) BY DEF Open, Reading
  <2>2. conn[c].at \in {"accepted", "read", "invalid"} BY <2>1, TickOpen
  <2> QED BY <2>1, <2>2, TickOpen DEF Reading
<1>3. agent'.timer = agent.timer + 1 /\ agent'.silent = agent.silent + 1 BY <1>1, TickAgent
<1>4. /\ conn[c].up \in Seq(Nat) /\ conn[c].down \in Seq(0 .. Delay)
      /\ conn[c].silent \in Nat /\ conn[c].last \in Nat \cup {Never}
      /\ conn[c].work \in SUBSET (0 .. HandledBy)
      /\ agent.silent \in Nat /\ agent.timer \in Nat
      /\ HeartbeatEvery \in Nat /\ Delay \in Nat /\ HandledBy \in Nat
  BY <1>1, Bounds DEF ConnType, AgentType
<1>5. \A i \in 1 .. Len(conn[c].down) : conn[c].down[i] < Delay
  BY DEF Tick, Punctual
<1>6. /\ Len(conn'[c].up) = Len(conn[c].up)
      /\ \A i \in 1 .. Len(conn[c].up) : conn'[c].up[i] = conn[c].up[i] + 1
  BY <1>2, <1>4, OlderAges
<1>7. /\ Len(conn'[c].down) = Len(conn[c].down)
      /\ \A i \in 1 .. Len(conn[c].down) : conn'[c].down[i] = conn[c].down[i] + 1
  BY <1>2, <1>4, <1>5, OlderType
<1>8. ASSUME NEW g \in Pending(c) PROVE g \in Nat /\ g + 1 \in Pending(c)'
  <2>1. CASE g \in conn[c].work BY <1>2, <1>4, <2>1 DEF Pending
  <2>2. CASE \E i \in 1 .. Len(conn[c].up) : g = conn[c].up[i]
    <3>1. PICK i \in 1 .. Len(conn[c].up) : g = conn[c].up[i] BY <2>2
    <3>2. g \in Nat BY <1>4, <3>1, Element
    <3> QED BY <1>6, <3>1, <3>2 DEF Pending
  <2> QED BY <1>1, <1>2, <2>1, <2>2 DEF Pending
<1>9. \/ conn'[c].last = Never \/ conn'[c].last <= HandledBy + agent'.timer
      \/ \E g \in Pending(c)' : conn'[c].last <= HandledBy + HeartbeatEvery + g
  <2>1. CASE conn[c].last = Never BY <1>2, <2>1
  <2>2. CASE conn[c].last \in Nat /\ conn[c].last <= HandledBy + agent.timer
    BY <1>2, <1>3, <1>4, <2>2 DEF Never
  <2>3. CASE conn[c].last \in Nat
             /\ \E g \in Pending(c) : conn[c].last <= HandledBy + HeartbeatEvery + g
    <3>1. PICK g \in Pending(c) : conn[c].last <= HandledBy + HeartbeatEvery + g BY <2>3
    <3>2. conn'[c].last = conn[c].last + 1 BY <1>2, <2>3 DEF Never
    <3>3. PICK x \in Nat : x = conn[c].last BY <2>3
    <3>4. PICK b \in Nat : b = HandledBy + HeartbeatEvery BY <1>4
    <3>5. g \in Nat /\ g + 1 \in Pending(c)' BY <1>8
    <3>6. x <= b + g BY <3>1, <3>3, <3>4
    <3>7. x + 1 <= b + (g + 1) BY <3>5, <3>6
    <3> QED BY <3>2, <3>3, <3>4, <3>5, <3>7
  <2> QED BY <1>1, <1>4, <2>1, <2>2, <2>3 DEF NewsInv
<1>10. ASSUME conn[c].at = "read"
       PROVE  \/ conn'[c].silent <= agent'.timer
              \/ \E i \in 1 .. Len(conn'[c].up) :
                   conn'[c].silent <= HeartbeatEvery + conn'[c].up[i]
  <2>1. CASE conn[c].silent <= agent.timer BY <1>2, <1>3, <1>4, <2>1
  <2>2. CASE \E i \in 1 .. Len(conn[c].up) : conn[c].silent <= HeartbeatEvery + conn[c].up[i]
    <3>1. PICK i \in 1 .. Len(conn[c].up) : conn[c].silent <= HeartbeatEvery + conn[c].up[i]
      BY <2>2
    <3>2. conn[c].up[i] \in Nat BY <1>4, Element
    <3>3. conn'[c].silent <= HeartbeatEvery + conn'[c].up[i]
      <4>1. PICK g \in Nat : g = conn[c].up[i] BY <3>2
      <4>2. conn'[c].up[i] = g + 1 BY <1>6, <4>1
      <4>3. conn'[c].silent = conn[c].silent + 1 BY <1>2
      <4>4. conn[c].silent + 1 <= HeartbeatEvery + (g + 1)
        <5>1. conn[c].silent \in Nat /\ HeartbeatEvery \in Nat BY <1>4
        <5>2. conn[c].silent <= HeartbeatEvery + g BY <3>1, <4>1
        <5> QED BY <5>1, <5>2
      <4> QED BY <4>2, <4>3, <4>4
    <3> QED BY <1>6, <3>3
  <2> QED BY <1>1, <1>10, <2>1, <2>2 DEF NewsInv
<1>11. \/ agent'.silent <= agent'.timer
       \/ \E g \in Pending(c)' : agent'.silent <= HeartbeatEvery + g
       \/ \E i \in 1 .. Len(conn'[c].down) :
            agent'.silent <= HeartbeatEvery + HandledBy + conn'[c].down[i]
  <2>1. CASE agent.silent <= agent.timer BY <1>3, <1>4, <2>1
  <2>2. CASE \E g \in Pending(c) : agent.silent <= HeartbeatEvery + g
    <3>1. PICK g \in Pending(c) : agent.silent <= HeartbeatEvery + g BY <2>2
    <3>2. agent'.silent <= HeartbeatEvery + (g + 1) BY <1>3, <1>4, <1>8, <3>1
    <3> QED BY <1>8, <3>2
  <2>3. CASE \E i \in 1 .. Len(conn[c].down) :
               agent.silent <= HeartbeatEvery + HandledBy + conn[c].down[i]
    <3>1. PICK i \in 1 .. Len(conn[c].down) :
            agent.silent <= HeartbeatEvery + HandledBy + conn[c].down[i]
      BY <2>3
    <3>2. conn[c].down[i] \in 0 .. Delay BY <1>4, Element
    <3>3. agent'.silent <= HeartbeatEvery + HandledBy + conn'[c].down[i]
      <4>1. PICK g \in Nat : g = conn[c].down[i] BY <3>2
      <4>2. conn'[c].down[i] = g + 1 BY <1>7, <4>1
      <4>3. agent.silent + 1 <= HeartbeatEvery + HandledBy + (g + 1)
        <5>1. agent.silent \in Nat /\ HeartbeatEvery \in Nat /\ HandledBy \in Nat BY <1>4
        <5>2. agent.silent <= HeartbeatEvery + HandledBy + g BY <3>1, <4>1
        <5> QED BY <5>1, <5>2
      <4> QED BY <1>3, <4>2, <4>3
    <3> QED BY <1>7, <3>3
  <2> QED BY <1>1, <2>1, <2>2, <2>3 DEF NewsInv
<1> QED BY <1>2, <1>9, <1>10, <1>11 DEF NewsInv

LEMMA TickStep ==
  ASSUME PresenceInv, Tick
  PROVE  PresenceInv'
<1>1. Typed /\ AgentInv /\ OneConnection /\ \A d \in Conns : ConnInv(d) BY Split
<1>2. Clients' = Clients /\ calm' = calm /\ zone' = zone BY DEF Tick
<1>3. agent' \in AgentType /\ AgentInv' /\ agent'.at = agent.at /\ agent'.conn = agent.conn
  BY TickAgent
<1>4. ASSUME NEW c \in Conns, ~ Open(c)
      PROVE  /\ conn'[c] \in ConnType
             /\ conn'[c].at = conn[c].at /\ conn'[c].ok = conn[c].ok /\ conn'[c].buf = conn[c].buf
             /\ conn'[c].up = conn[c].up /\ conn'[c].gone = conn[c].gone
             /\ conn'[c].silent = conn[c].silent
  <2>1. conn[c] \in ConnType BY <1>1 DEF Typed
  <2>2. conn[c].down \in Seq(0 .. Delay) BY <2>1 DEF ConnType
  <2>3. \A i \in 1 .. Len(conn[c].down) : conn[c].down[i] < Delay BY DEF Tick, Punctual
  <2>4. PICK q \in Seq(0 .. Delay) : q = Older(conn[c].down)
    BY <2>2, <2>3, OlderType, TimeAssumption
  <2>5. conn'[c] = [conn[c] EXCEPT !.down = q] BY <1>4, <2>4 DEF Tick
  <2> QED BY <2>1, <2>5 DEF ConnType
<1>5. conn' \in [Conns -> ConnType]
  <2>1. \A c \in Conns : conn'[c] \in ConnType BY <1>4, TickOpen
  <2>2. conn' = [c \in Conns |-> conn'[c]] BY DEF Tick
  <2> QED BY <2>1, <2>2
<1>6. Typed' BY <1>1, <1>2, <1>3, <1>5 DEF Typed
<1>7. ASSUME NEW c \in Conns PROVE conn'[c].at = conn[c].at BY <1>4, TickOpen
<1>8. OneConnection' BY <1>1, <1>2, <1>7 DEF OneConnection
<1>9. ASSUME NEW c \in Conns PROVE ConnInv(c)'
  <2>1. ConnInv(c) /\ conn[c] \in ConnType BY <1>1 DEF Typed
  <2>2. conn'[c].ok = conn[c].ok BY <1>4, TickOpen
  <2>3. Healthy(c)' <=> Healthy(c) BY <1>3, <2>2 DEF Healthy, Holds
  <2>4. Open(c)' <=> Open(c) BY <1>7 DEF Open
  <2>5. CASE ~ Open(c)
    <3>1. conn'[c].at \notin {"accepted", "judge", "read", "invalid"} BY <1>7, <2>5 DEF Open
    <3>2. NewsInv(c)' BY <3>1 DEF NewsInv, Reading
    <3>3. GoneInv(c) /\ TravelInv(c) BY <2>1 DEF ConnInv
    <3>4. conn'[c].up = conn[c].up /\ conn'[c].gone = conn[c].gone /\ conn'[c].buf = conn[c].buf
      BY <1>4, <2>5
    <3>5. GoneInv(c)' BY <2>3, <3>1, <3>3, <3>4 DEF GoneInv
    <3>6. TravelInv(c)' BY <1>7, <3>1, <3>3, <3>4 DEF TravelInv
    <3> QED BY <3>2, <3>5, <3>6 DEF ConnInv
  <2>6. CASE Open(c)
    <3>1. /\ \/ /\ conn[c].at = "read" /\ conn[c].silent < ReadTimeout
                /\ \A i \in 1 .. Len(conn[c].up) : conn[c].up[i] < Delay
             \/ conn[c].at \in {"accepted", "invalid"} /\ conn[c].silent < LockWait
          /\ conn'[c].at = conn[c].at /\ conn'[c].silent = conn[c].silent + 1
          /\ conn'[c].buf = conn[c].buf /\ conn'[c].up = Older(conn[c].up)
          /\ conn'[c].gone = IF Healthy(c) THEN 0 ELSE conn[c].gone + 1
      BY <2>6, TickOpen
    <3>2. NewsInv(c)'
      <4>1. Reading(c)' <=> Reading(c) BY <1>7 DEF Reading
      <4> QED BY <2>3, <4>1, TickNews DEF NewsInv
    <3>3. /\ conn[c].up \in Seq(Nat) /\ conn[c].silent \in Nat /\ conn[c].gone \in Nat
      BY <2>1 DEF ConnType
    <3>4. /\ Len(conn'[c].up) = Len(conn[c].up)
          /\ \A i \in 1 .. Len(conn[c].up) : conn'[c].up[i] = conn[c].up[i] + 1
      BY <3>1, <3>3, OlderAges
    <3>5. \A i \in 1 .. Len(conn[c].up) : conn[c].up[i] \in Nat BY <3>3, Element
    <3>6. GoneInv(c) /\ TravelInv(c) BY <2>1 DEF ConnInv
    <3>7. PICK n \in Nat : n = conn'[c].gone /\ n <= conn[c].gone + 1
      <4>1. 0 <= conn[c].gone + 1 BY <3>3
      <4> QED BY <3>1, <3>3, <4>1
    <3>8. \A i \in 1 .. Len(conn'[c].up) : conn'[c].up[i] >= conn'[c].gone
      <4>1. TAKE i \in 1 .. Len(conn'[c].up)
      <4>2. i \in 1 .. Len(conn[c].up) BY <3>4
      <4>3. PICK g \in Nat : g = conn[c].up[i] BY <3>5, <4>2
      <4>4. conn'[c].up[i] = g + 1 /\ g >= conn[c].gone BY <3>4, <3>6, <4>2, <4>3 DEF GoneInv
      <4>5. g + 1 >= n BY <3>3, <3>7, <4>4
      <4> QED BY <3>7, <4>4, <4>5
    <3>9. ASSUME conn[c].at = "read"
          PROVE  conn'[c].gone <= conn'[c].silent + ReadBy /\ conn'[c].silent <= ReadTimeout
      BY <3>1, <3>3, <3>6, <3>7, <3>9, Bounds DEF GoneInv
    <3>10. ASSUME conn[c].at = "accepted"
           PROVE  conn'[c].gone <= conn'[c].silent /\ conn'[c].silent <= LockWait
      BY <3>1, <3>3, <3>6, <3>7, <3>10, Bounds DEF GoneInv
    <3>11. ASSUME conn[c].at = "invalid"
           PROVE  /\ conn'[c].gone <= ReadTimeout + ReadBy + conn'[c].silent
                  /\ conn'[c].silent <= LockWait
      BY <3>1, <3>3, <3>6, <3>7, <3>11, Bounds DEF GoneInv
    <3>12. GoneInv(c)' BY <2>3, <3>1, <3>6, <3>7, <3>8, <3>9, <3>10, <3>11 DEF GoneInv
    <3>13. ASSUME NEW i \in 1 .. Len(conn'[c].up)
           PROVE  /\ conn'[c].at = "accepted" => conn'[c].up[i] <= conn'[c].silent
                  /\ conn'[c].at \in {"judge", "read"} => conn'[c].up[i] <= ReadBy
      <4>1. i \in 1 .. Len(conn[c].up) BY <3>4
      <4>2. PICK g \in Nat : g = conn[c].up[i] BY <3>5, <4>1
      <4>3. conn'[c].up[i] = g + 1 BY <3>4, <4>1, <4>2
      <4>4. conn[c].at = "accepted" => g <= conn[c].silent BY <3>6, <4>1, <4>2 DEF TravelInv
      <4>5. conn[c].at = "read" => g < Delay BY <3>1, <4>1, <4>2
      <4> QED BY <3>1, <3>3, <4>3, <4>4, <4>5, Bounds
    <3>14. TravelInv(c)' BY <3>1, <3>6, <3>13 DEF TravelInv
    <3> QED BY <3>2, <3>12, <3>14 DEF ConnInv
  <2> QED BY <2>5, <2>6
<1> QED BY <1>3, <1>6, <1>8, <1>9, SplitNext

-----------------------------------------------------------------------------
(* The theorems. *)

LEMMA InitInv == Init => PresenceInv
<1> SUFFICES ASSUME Init PROVE PresenceInv OBVIOUS
<1>1. conn \in [Conns -> ConnType] BY FreeType DEF Init
<1>2. /\ agent \in AgentType /\ agent.at = "sleep" /\ agent.conn = NoConn
  BY TimeAssumption DEF Init, Asleep, AgentType
<1>3. Typed BY <1>1, <1>2 DEF Typed, Init
<1>4. AgentInv BY <1>2 DEF AgentInv
<1>5. \A c \in Conns : /\ conn[c].at = "none" /\ conn[c].buf = Never
                       /\ conn[c].up = << >> /\ conn[c].gone = 0
  BY DEF Init, Free
<1>6. OneConnection BY <1>5, TimeAssumption DEF OneConnection, Init
<1>7. ASSUME NEW c \in Conns PROVE ConnInv(c)
  <2>1. ~ Reading(c) BY <1>5 DEF Reading
  <2>2. NewsInv(c) BY <2>1 DEF NewsInv
  <2>3. GoneInv(c) /\ TravelInv(c) BY <1>5 DEF GoneInv, TravelInv
  <2> QED BY <2>2, <2>3 DEF ConnInv
<1> QED BY <1>3, <1>4, <1>6, <1>7, Split

LEMMA NextInv == PresenceInv /\ [Next]_vars => PresenceInv'
<1> SUFFICES ASSUME PresenceInv, [Next]_vars PROVE PresenceInv' OBVIOUS
<1>1. ASSUME NEW c \in Conns,
             Dial(c) \/ RegisterConn(c) \/ RefuseConn(c) \/ JudgeInvalid(c) \/ JudgeValid(c)
             \/ Read(c) \/ ReadError(c) \/ InValidClient(c) \/ Break(c)
      PROVE  PresenceInv'
  <2>1. CASE JudgeInvalid(c) BY <2>1, GetMsgErrorStep DEF JudgeInvalid
  <2>2. CASE ReadError(c) BY <2>2, GetMsgErrorStep DEF ReadError
  <2>3. CASE JudgeValid(c) BY <2>3, DeadlineStep, StartStep
  <2> QED BY <1>1, <2>1, <2>2, <2>3, DialStep, RegisterConnStep, RefuseConnStep, ReadStep,
             InValidClientStep, BreakStep
<1>2. ASSUME NEW c \in Conns, NEW m \in conn[c].work, HandleHeartBeatMsg(c, m)
      PROVE  PresenceInv'
  BY <1>2, HandleStep
<1>3. CASE DialFail \/ Calm \/ UNCHANGED vars BY <1>3, IdleStep
<1>4. CASE Heartbeat \/ AgentRead \/ AgentGiveUp \/ AgentClose
  BY <1>4, HeartbeatStep, AgentReadStep, AgentGiveUpStep, AgentCloseStep
<1>5. CASE ServerRestart \/ Tick BY <1>5, ServerRestartStep, TickStep
<1> QED BY <1>1, <1>2, <1>3, <1>4, <1>5 DEF Next, System, Failure

\* Every reachable state satisfies PresenceInv, whatever the timeouts.
THEOREM PresenceInvariant == Spec => []PresenceInv
BY InitInv, NextInv, PTL DEF Spec

\* Ages, timers and queues stay in their ranges: no response is older than Delay
\* while it travels, and no heartbeat older than HandledBy when it is handled.
THEOREM PresenceTypes == Spec => []TypeOK
<1>1. PresenceInv => TypeOK BY DEF PresenceInv
<1> QED BY <1>1, PresenceInvariant, PTL

\* The server reads no connection but the registered one, and the registered one
\* is read: HandleConn looks for the address before it registers, and
\* InValidClient deletes the entry of no other connection.
THEOREM OneConnectionCorrect == Spec => []OneConnection
<1>1. PresenceInv => OneConnection BY DEF PresenceInv
<1> QED BY <1>1, PresenceInvariant, PTL

\* A connection whose agent went silent is dropped by the deadline of Conn.Read,
\* at the latest ReadTimeout after its last message was read, and its entry is
\* removed when InValidClient has waited for ClientLock: the bound grows with
\* LockWait, for which nothing is assumed.
THEOREM GoneForgotten == Spec => []GoneIsForgotten
<1>1. ASSUME PresenceInv, NEW c \in Conns, Clients = c
      PROVE  conn[c].gone <= ReadTimeout + ReadBy + LockWait
  <2>1. conn[c].at \in {"judge", "read", "invalid"} /\ GoneInv(c)
    BY <1>1 DEF PresenceInv, OneConnection
  <2>2. conn[c].gone \in Nat /\ conn[c].silent \in Nat BY <1>1, Split DEF Typed, ConnType
  <2> QED BY <2>1, <2>2, Bounds DEF GoneInv
<1>2. PresenceInv => GoneIsForgotten BY <1>1 DEF GoneIsForgotten
<1> QED BY <1>2, PresenceInvariant, PTL

\* On a healthy connection that is read or judged nothing has expired.
LEMMA YoungNews ==
  ASSUME PresenceInv, NEW c \in Conns, Healthy(c), conn[c].at \in {"judge", "read"}, zone >= 0
  PROVE  ~ Expired(c) /\ ~ Overdue(c) /\ agent.silent < ReadTimeout
<1>1. Typed /\ ConnInv(c) BY Split
<1>2. conn[c] \in ConnType /\ agent \in AgentType /\ zone \in Int
  BY <1>1, TimeAssumption DEF Typed
<1>3. /\ conn[c].up \in Seq(Nat) /\ conn[c].down \in Seq(0 .. Delay)
      /\ conn[c].work \in SUBSET (0 .. HandledBy) /\ conn[c].buf \in Nat \cup {Never}
      /\ conn[c].last \in Nat \cup {Never} /\ conn[c].silent \in Nat
      /\ agent.silent \in Nat /\ agent.timer \in Nat
  BY <1>2, Bounds DEF ConnType, AgentType
<1>4. Reading(c) BY DEF Reading
<1>5. agent.timer <= HeartbeatEvery BY DEF PresenceInv, Healthy
<1>6. NewsInv(c) /\ TravelInv(c) BY <1>1 DEF ConnInv
<1>7. \A i \in 1 .. Len(conn[c].up) : conn[c].up[i] \in 0 .. ReadBy
  <2>1. \A i \in 1 .. Len(conn[c].up) : conn[c].up[i] \in Nat BY <1>3, Element
  <2>2. \A i \in 1 .. Len(conn[c].up) : conn[c].up[i] <= ReadBy BY <1>6 DEF TravelInv
  <2> QED BY <2>1, <2>2, Bounds
<1>8. \A i \in 1 .. Len(conn[c].down) : conn[c].down[i] \in 0 .. Delay BY <1>3, Element
<1>9. \A g \in Pending(c) : g \in 0 .. HandledBy
  <2>1. conn[c].buf # Never => conn[c].buf \in 0 .. HandledBy
    BY <1>3, <1>6, Bounds DEF TravelInv
  <2>2. \A i \in 1 .. Len(conn[c].up) : conn[c].up[i] \in 0 .. HandledBy
    BY <1>7, Bounds
  <2> QED BY <1>3, <2>1, <2>2 DEF Pending
<1>10. ~ Expired(c)
  <2>1. conn[c].last = Never \/ conn[c].last <= HeartbeatEvery + 2 * HandledBy
    <3>1. CASE conn[c].last \in Nat /\ conn[c].last <= HandledBy + agent.timer
      BY <1>3, <1>5, <3>1, Bounds
    <3>2. CASE conn[c].last \in Nat
               /\ \E g \in Pending(c) : conn[c].last <= HandledBy + HeartbeatEvery + g
      <4>1. PICK g \in 0 .. HandledBy : conn[c].last <= HandledBy + HeartbeatEvery + g
        BY <1>9, <3>2
      <4> QED BY <3>2, <4>1, Bounds
    <3> QED BY <1>3, <1>4, <1>6, <3>1, <3>2 DEF NewsInv
  <2>2. HeartbeatTimeout \in Nat /\ HeartbeatEvery + 2 * HandledBy < HeartbeatTimeout
    BY Bounds, TimeAssumption, TimeoutAssumption
  <2>3. ASSUME conn[c].last \in Nat, conn[c].last <= HeartbeatEvery + 2 * HandledBy
        PROVE  conn[c].last < HeartbeatTimeout + zone
    <3>1. PICK x \in Nat : x = conn[c].last BY <2>3
    <3>2. PICK b \in Nat : b = HeartbeatEvery + 2 * HandledBy BY Bounds
    <3> QED BY <1>2, <2>2, <2>3, <3>1, <3>2
  <2>4. conn[c].last \in Nat => ~ (conn[c].last >= HeartbeatTimeout + zone)
    BY <1>2, <1>3, <2>1, <2>2, <2>3 DEF Never
  <2> QED BY <1>3, <2>4 DEF Expired
<1>11. ~ Overdue(c)
  <2>1. ASSUME conn[c].at = "read" PROVE conn[c].silent <= HeartbeatEvery + ReadBy
    <3>1. CASE conn[c].silent <= agent.timer BY <1>3, <1>5, <3>1, Bounds
    <3>2. CASE \E i \in 1 .. Len(conn[c].up) : conn[c].silent <= HeartbeatEvery + conn[c].up[i]
      <4>1. PICK g \in 0 .. ReadBy : conn[c].silent <= HeartbeatEvery + g BY <1>7, <3>2
      <4> QED BY <1>3, <4>1, Bounds
    <3> QED BY <1>4, <1>6, <2>1, <3>1, <3>2 DEF NewsInv
  <2>2. HeartbeatEvery + ReadBy < ReadTimeout BY Bounds, TimeoutAssumption
  <2>3. conn[c].at = "read" => ~ (conn[c].silent >= ReadTimeout)
    BY <1>3, <2>1, <2>2, Bounds
  <2> QED BY <2>3 DEF Overdue
<1>12. agent.silent <= HeartbeatEvery + HandledBy + Delay
  <2>1. CASE agent.silent <= agent.timer BY <1>3, <1>5, <2>1, Bounds
  <2>2. CASE \E g \in Pending(c) : agent.silent <= HeartbeatEvery + g
    <3>1. PICK g \in 0 .. HandledBy : agent.silent <= HeartbeatEvery + g BY <1>9, <2>2
    <3> QED BY <1>3, <3>1, Bounds
  <2>3. CASE \E i \in 1 .. Len(conn[c].down) :
               agent.silent <= HeartbeatEvery + HandledBy + conn[c].down[i]
    <3>1. PICK g \in 0 .. Delay : agent.silent <= HeartbeatEvery + HandledBy + g
      BY <1>8, <2>3
    <3> QED BY <1>3, <3>1, Bounds
  <2> QED BY <1>4, <1>6, <2>1, <2>2, <2>3 DEF NewsInv
<1> QED BY <1>3, <1>10, <1>11, <1>12, Bounds, TimeoutAssumption

\* A healthy connection stays out of "invalid".  No step makes a connection
\* healthy but Dial, and the two that lead there need an age that YoungNews
\* excludes or an agent that has closed the connection.
LEMMA InvalidStep ==
  ASSUME PresenceInv, PresenceInv', InvalidIsGone, [Next]_vars
  PROVE  InvalidIsGone'
<1> SUFFICES ASSUME zone' >= 0, NEW c \in Conns, conn'[c].at = "invalid", Healthy(c)'
             PROVE  FALSE
  BY DEF InvalidIsGone
<1>1. Typed /\ conn \in [Conns -> ConnType] /\ agent \in AgentType /\ zone \in Zones
  BY Split DEF Typed
<1>2. /\ conn[c] \in ConnType /\ c # NoConn
      /\ agent'.conn = c /\ agent'.at = "up" /\ conn'[c].ok
  BY <1>1, TimeAssumption DEF Healthy, Holds
<1> DEFINE Same == /\ conn[c].at = "invalid" /\ conn[c].ok
                   /\ agent.conn = c /\ agent.at = "up" /\ zone' = zone
<1>3. ~ Same BY DEF InvalidIsGone, Healthy, Holds
<1>4. ASSUME NEW d \in Conns, Dial(d) PROVE FALSE
  <2>1. d = c BY <1>2, <1>4 DEF Dial
  <2>2. conn'[c].at = "accepted" BY <1>1, <1>2, <1>4, <2>1 DEF Dial, ConnType
  <2> QED BY <2>2
<1>5. CASE DialFail \/ AgentClose BY <1>2, <1>5 DEF DialFail, AgentClose, Asleep
<1>6. CASE AgentGiveUp BY <1>1, <1>2, <1>6 DEF AgentGiveUp, AgentType
<1>7. CASE Heartbeat \/ AgentRead
  <2>1. agent.at = "up" /\ agent.conn = c /\ zone' = zone
    BY <1>1, <1>2, <1>7 DEF Heartbeat, AgentRead, AgentType
  <2>2. conn'[c].at = conn[c].at /\ conn'[c].ok = conn[c].ok
    <3>1. \/ conn' = conn
          \/ conn' = [conn EXCEPT ![c].up = Append(@, 0)]
          \/ conn' = [conn EXCEPT ![c].down = Tail(@)]
      BY <1>7, <2>1 DEF Heartbeat, AgentRead
    <3>2. CASE conn' = [conn EXCEPT ![c].up = Append(@, 0)] BY <1>1, <1>2, <3>2 DEF ConnType
    <3>3. CASE conn' = [conn EXCEPT ![c].down = Tail(@)] BY <1>1, <1>2, <3>3 DEF ConnType
    <3> QED BY <3>1, <3>2, <3>3
  <2> QED BY <1>2, <1>3, <2>1, <2>2
<1>8. CASE Calm \/ UNCHANGED vars BY <1>2, <1>3, <1>8 DEF Calm, vars
<1>9. CASE ServerRestart
  <2>1. CASE Open(c)
    <3>1. conn'[c] = Closed(c) BY <1>9, <2>1 DEF ServerRestart
    <3> QED BY <3>1, ClosedFields
  <2>2. CASE ~ Open(c) BY <1>9, <2>2 DEF ServerRestart, Open
  <2> QED BY <2>1, <2>2
<1>10. CASE Tick
  <2>1. agent.at = "up" /\ agent.conn = c /\ zone' = zone BY <1>2, <1>10, TickAgent DEF Tick
  <2>2. conn'[c].at = conn[c].at /\ conn'[c].ok = conn[c].ok
    <3>1. CASE Open(c) BY <1>10, <3>1, TickOpen
    <3>2. CASE ~ Open(c)
      <4>1. PICK q : conn'[c] = [conn[c] EXCEPT !.down = q] BY <1>10, <3>2 DEF Tick
      <4> QED BY <1>2, <4>1 DEF ConnType
    <3> QED BY <3>1, <3>2
  <2> QED BY <1>2, <1>3, <2>1, <2>2
<1>11. ASSUME NEW d \in Conns,
              RegisterConn(d) \/ RefuseConn(d) \/ InValidClient(d) \/ JudgeInvalid(d) \/ JudgeValid(d)
              \/ Read(d) \/ ReadError(d) \/ Break(d) \/ \E h \in conn[d].work : HandleHeartBeatMsg(d, h)
       PROVE  FALSE
  <2>1. agent' = agent /\ zone' = zone
    BY <1>11 DEF RegisterConn, RefuseConn, InValidClient, JudgeInvalid, JudgeValid, Read,
                 ReadError, GetMsgError, Break, HandleHeartBeatMsg
  <2>2. d = c
    <3> SUFFICES ASSUME d # c PROVE FALSE OBVIOUS
    <3>1. conn'[c] = conn[c]
      BY <1>1, <1>11 DEF RegisterConn, RefuseConn, InValidClient, JudgeInvalid, JudgeValid, Read,
                   ReadError, GetMsgError, Break, HandleHeartBeatMsg
    <3> QED BY <1>2, <1>3, <2>1, <3>1
  <2>3. CASE RegisterConn(c) BY <1>1, <1>2, <2>3 DEF RegisterConn, ConnType
  <2>4. CASE RefuseConn(c) \/ InValidClient(c)
    <3>1. conn'[c] = Closed(c) BY <1>1, <2>4 DEF RefuseConn, InValidClient
    <3> QED BY <3>1, ClosedFields
  <2>5. CASE JudgeInvalid(c) \/ ReadError(c)
    <3>1. GetMsgError(c) /\ conn[c].at \in {"judge", "read"} BY <2>5 DEF JudgeInvalid, ReadError
    <3>2. conn'[c].ok = conn[c].ok BY <1>1, <1>2, <3>1 DEF GetMsgError, ConnType
    <3>3. Healthy(c) BY <1>2, <2>1, <3>2 DEF Healthy, Holds
    <3>4. ~ Expired(c) /\ ~ Overdue(c) BY <2>1, <3>1, <3>3, YoungNews
    <3> QED BY <2>5, <3>3, <3>4 DEF JudgeInvalid, ReadError, Healthy
  <2>6. CASE JudgeValid(c)
    <3>1. CASE conn[c].buf = Never
      BY <1>1, <1>2, <2>6, <3>1 DEF JudgeValid, ConnType
    <3>2. CASE conn[c].buf # Never
      BY <1>1, <1>2, <2>6, <3>2 DEF JudgeValid, ConnType
    <3> QED BY <3>1, <3>2
  <2>7. CASE Read(c) BY <1>1, <1>2, <2>7 DEF Read, ConnType
  <2>8. CASE Break(c) BY <1>1, <1>2, <2>8 DEF Break, ConnType
  <2>9. ASSUME NEW h \in conn[c].work, HandleHeartBeatMsg(c, h) PROVE FALSE
    <3>1. conn'[c].at = conn[c].at /\ conn'[c].ok = conn[c].ok
      BY <1>1, <1>2, <2>9 DEF HandleHeartBeatMsg, ConnType
    <3> QED BY <1>2, <1>3, <2>1, <3>1
  <2> QED BY <1>11, <2>2, <2>3, <2>4, <2>5, <2>6, <2>7, <2>8, <2>9
<1> QED BY <1>4, <1>5, <1>6, <1>7, <1>8, <1>9, <1>10, <1>11 DEF Next, System, Failure

\* A client that waits to be removed is not healthy, for all timeouts that satisfy
\* TimeoutAssumption.
LEMMA InvalidAreGone == Spec => []InvalidIsGone
<1>1. Init => InvalidIsGone BY DEF Init, InvalidIsGone, Free
<1>2. PresenceInv /\ PresenceInv' /\ InvalidIsGone /\ [Next]_vars => InvalidIsGone'
  BY InvalidStep
<1> QED BY <1>1, <1>2, PresenceInvariant, PTL DEF Spec

\* A healthy session is given up by neither end, for all timeouts that satisfy
\* TimeoutAssumption and every interleaving of reads and handlers.
THEOREM HealthyKept == Spec => []HealthyStays
<1>1. ASSUME PresenceInv, InvalidIsGone, NEW c \in Conns, Healthy(c), Clients = c, zone >= 0
      PROVE  ~ Expired(c) /\ ~ Overdue(c) /\ agent.silent < ReadTimeout
  <2>1. conn[c].at \in {"judge", "read", "invalid"} BY <1>1 DEF PresenceInv, OneConnection
  <2>2. conn[c].at \in {"judge", "read"} BY <1>1, <2>1 DEF InvalidIsGone
  <2> QED BY <1>1, <2>2, YoungNews
<1>2. PresenceInv /\ InvalidIsGone => HealthyStays BY <1>1 DEF HealthyStays
<1> QED BY <1>2, PresenceInvariant, InvalidAreGone, PTL
=============================================================================
