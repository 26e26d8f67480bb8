------------------------------ MODULE Presence ------------------------------
(***************************************************************************)
(* How long the server takes an agent for present: the agent that sends    *)
(* heartbeats and reconnects, and the server that times them, refuses a    *)
(* second connection of the same address and forgets a silent one.  It     *)
(* composes what modules Agent and TcpServer model without time, for one   *)
(* address.  Other addresses have entries of their own in Clients, and     *)
(* delay this one through ClientLock: HandleConn and InValidClient wait    *)
(* for it, and Multicast holds it while it writes to other clients.        *)
(*                                                                         *)
(* Time advances by Tick.  All times are kept as ages, so that they stay   *)
(* bounded.  A heartbeat is its age: the time since it was put together,   *)
(* which is the time it carries.  A connection may break without either    *)
(* end being told.                                                         *)
(***************************************************************************)
EXTENDS Integers, Sequences

CONSTANTS
  Conns,             \* slots for connections
  NoConn,            \* none of them
  HeartbeatEvery,    \* the agent sleeps that long between heartbeats
  ReadTimeout,       \* readtimeout, at both ends
  HeartbeatTimeout,  \* heartbeattimeout of the server
  Retry,             \* RunAgent sleeps that long before it connects again
  Delay,             \* a message travels at most that long, and its handler
                     \* goroutine has run after at most as long again
  LockWait,          \* a goroutine waits at most that long for ClientLock, held
                     \* by Multicast over one write per message (writetimeout each)
  Zones              \* what the agent's local time may be ahead of UTC

ASSUME TimeAssumption ==
  /\ HeartbeatEvery \in Nat \ {0} /\ ReadTimeout \in Nat /\ HeartbeatTimeout \in Nat
  /\ Retry \in Nat /\ Delay \in Nat /\ LockWait \in Nat /\ Zones \subseteq Int /\ NoConn \notin Conns

\* The age at which a heartbeat has been read: it has travelled, and HandleConn
\* has got ClientLock and reads.
ReadBy == IF LockWait > Delay THEN LockWait ELSE Delay

\* The age at which its handler has run.
HandledBy == ReadBy + Delay

\* What the timeouts must leave room for.  The shipped values, 5, 20 and 60 s,
\* do so as long as HandledBy + Delay is less than 15 s: not while Multicast
\* waits out writetimeout, 50 s, for an agent that does not read.
ASSUME TimeoutAssumption ==
  /\ ReadTimeout > HeartbeatEvery + HandledBy + Delay
  /\ HeartbeatTimeout > HeartbeatEvery + 2 * HandledBy

VARIABLES
  agent,    \* the agent: its state, its connection and its timers
  Clients,  \* the connection registered for the agent's address, or NoConn
  conn,     \* per connection: the server's end and what is on the way
  calm,     \* the network and etcd have stopped failing
  zone      \* how far the agent's local time is ahead of UTC; never changes

vars == <<agent, Clients, conn, calm, zone>>

\* No time yet: LastHeartbeatSyncTime of a new client.
Never == -1

\* A connection that neither end has open.
Free == [at |-> "none", ok |-> TRUE, silent |-> 0, last |-> Never, buf |-> Never,
         up |-> << >>, work |-> {}, down |-> << >>, gone |-> 0]

\* The agent between two sessions.
Asleep == [at |-> "sleep", conn |-> NoConn, timer |-> 0, silent |-> 0]

Init ==
  /\ agent = [Asleep EXCEPT !.timer = Retry]
  /\ Clients = NoConn
  /\ conn = [c \in Conns |-> Free]
  /\ calm = FALSE
  /\ zone \in Zones

\* The agent has c open.
Holds(c) == agent.conn = c

\* The server has c open.
Open(c) == conn[c].at \in {"accepted", "judge", "read", "invalid"}

\* The agent sends heartbeats on c, and they arrive.
Healthy(c) == Holds(c) /\ agent.at = "up" /\ conn[c].ok

-----------------------------------------------------------------------------
(* The agent. *)

\* RunAgent has slept and dials the server.
Dial(c) ==
  /\ agent.at = "sleep"
  /\ agent.timer = Retry
  /\ conn[c] = Free
  /\ agent' = [at |-> "up", conn |-> c, timer |-> HeartbeatEvery, silent |-> 0]
  /\ conn' = [conn EXCEPT ![c].at = "accepted"]
  /\ UNCHANGED <<Clients, calm, zone>>

\* The server cannot be reached, and RunAgent sleeps again.
DialFail ==
  /\ agent.at = "sleep"
  /\ agent.timer = Retry
  /\ ~ calm
  /\ agent' = Asleep
  /\ UNCHANGED <<Clients, conn, calm, zone>>

\* Heartbeat sends the time and goes to sleep.
Heartbeat ==
  /\ agent.at = "up"
  /\ agent.timer = HeartbeatEvery
  /\ agent' = [agent EXCEPT !.timer = 0]
  /\ conn' = IF Open(agent.conn) /\ conn[agent.conn].ok
             THEN [conn EXCEPT ![agent.conn].up = Append(@, 0)]
             ELSE conn
  /\ UNCHANGED <<Clients, calm, zone>>

\* Listen reads the response of a heartbeat.
AgentRead ==
  /\ agent.at = "up"
  /\ conn[agent.conn].down # << >>
  /\ conn' = [conn EXCEPT ![agent.conn].down = Tail(@)]
  /\ agent' = [agent EXCEPT !.silent = 0]
  /\ UNCHANGED <<Clients, calm, zone>>

\* Listen gives the session up: nothing came for ReadTimeout, the server has
\* closed the connection, or reading the timeout from etcd or a write failed.
AgentGiveUp ==
  /\ agent.at = "up"
  /\ \/ agent.silent = ReadTimeout
     \/ conn[agent.conn].ok /\ ~ Open(agent.conn) /\ conn[agent.conn].down = << >>
     \/ ~ calm
  /\ agent' = [agent EXCEPT !.at = "ending", !.timer = 0, !.silent = 0]
  /\ conn' = [conn EXCEPT ![agent.conn].down = << >>]
  /\ UNCHANGED <<Clients, calm, zone>>

\* All goroutines have returned, StartAgent closes the connection, and
\* ResetAgent follows.
AgentClose ==
  /\ agent.at = "ending"
  /\ agent' = Asleep
  /\ conn' = IF Open(agent.conn) THEN conn ELSE [conn EXCEPT ![agent.conn] = Free]
  /\ UNCHANGED <<Clients, calm, zone>>

-----------------------------------------------------------------------------
(* The server. *)

\* HandleConn has got ClientLock: no connection of this address is registered.
RegisterConn(c) ==
  /\ conn[c].at = "accepted"
  /\ Clients = NoConn
  /\ Clients' = c
  /\ conn' = [conn EXCEPT ![c].at = "judge"]
  /\ UNCHANGED <<agent, calm, zone>>

\* The server's end of c is closed.  Handlers still running have no effect.
Closed(c) ==
  IF Holds(c) THEN [Free EXCEPT !.at = "closed", !.ok = conn[c].ok, !.down = conn[c].down]
              ELSE Free

\* HandleConn has got ClientLock: one is, and the new connection is closed.
RefuseConn(c) ==
  /\ conn[c].at = "accepted"
  /\ Clients # NoConn
  /\ conn' = [conn EXCEPT ![c] = Closed(c)]
  /\ UNCHANGED <<agent, Clients, calm, zone>>

\* Mutant: the entry of the client is left behind.
InValidClientKeeps(c) ==
  /\ conn[c].at = "invalid"
  /\ Clients' = Clients
  /\ conn' = [conn EXCEPT ![c] = Closed(c)]
  /\ UNCHANGED <<agent, calm, zone>>

\* InValidClient has got ClientLock and removes the entry; HandleConn ends.
InValidClient(c) ==
  /\ conn[c].at = "invalid"
  /\ Clients' = NoConn
  /\ conn' = [conn EXCEPT ![c] = Closed(c)]
  /\ UNCHANGED <<agent, calm, zone>>

\* GetMsg has failed: HandleConn calls InValidClient, which waits for ClientLock
\* with the client still registered and its connection open.
GetMsgError(c) ==
  /\ conn' = [conn EXCEPT ![c].at = "invalid", ![c].silent = 0]
  /\ UNCHANGED <<agent, Clients, calm, zone>>

\* Mutant: each heartbeat is expected one period and its travel after the last.
ExpiredStrict(c) == conn[c].last # Never /\ conn[c].last >= HeartbeatEvery + Delay + zone

\* JudgeValid: the time of the last heartbeat, local time taken for UTC and cut
\* to whole seconds, is more than HeartbeatTimeout ago.
Expired(c) == conn[c].last # Never /\ conn[c].last >= HeartbeatTimeout + zone

JudgeInvalid(c) ==
  /\ conn[c].at = "judge"
  /\ Expired(c)
  /\ GetMsgError(c)

\* GetMsg goes on: a complete frame in ReadBuf is returned and a HandleMsg
\* goroutine started for it, otherwise the deadline is set and Conn.Read called.
JudgeValid(c) ==
  /\ conn[c].at = "judge"
  /\ ~ Expired(c)
  /\ conn' = IF conn[c].buf = Never
             THEN [conn EXCEPT ![c].at = "read", ![c].silent = 0]
             ELSE [conn EXCEPT ![c].work = @ \cup {conn[c].buf}, ![c].buf = Never]
  /\ UNCHANGED <<agent, Clients, calm, zone>>

Read(c) ==
  /\ conn[c].at = "read"
  /\ conn[c].up # << >>
  /\ conn' = [conn EXCEPT ![c].at = "judge", ![c].buf = Head(conn[c].up), ![c].up = Tail(@)]
  /\ UNCHANGED <<agent, Clients, calm, zone>>

\* Mutant: the write timeout is used for reads too.
OverdueLate(c) == conn[c].at = "read" /\ conn[c].silent >= 2 * ReadTimeout

\* The read deadline of c has passed.
Overdue(c) == conn[c].at = "read" /\ conn[c].silent >= ReadTimeout

\* Conn.Read fails: the deadline has passed, or the agent has closed the
\* connection and everything it sent has been read.
ReadError(c) ==
  /\ conn[c].at = "read"
  /\ Overdue(c) \/ (conn[c].ok /\ ~ Holds(c) /\ conn[c].up = << >>)
  /\ GetMsgError(c)

\* HandleHeartBeatMsg: the time is taken over, whether it is newer or not, and
\* the response is sent.
HandleHeartBeatMsg(c, h) ==
  /\ h \in conn[c].work
  /\ conn' = [conn EXCEPT ![c].work = @ \ {h}, ![c].last = h,
                ![c].down = IF Healthy(c) THEN Append(@, 0) ELSE @]
  /\ UNCHANGED <<agent, Clients, calm, zone>>

-----------------------------------------------------------------------------
(* Failures, until the network is calm. *)

\* The connection stops passing anything on, and neither end is told.
Break(c) ==
  /\ ~ calm
  /\ Open(c)
  /\ conn[c].ok
  /\ conn' = [conn EXCEPT ![c].ok = FALSE, ![c].up = << >>, ![c].down = << >>]
  /\ UNCHANGED <<agent, Clients, calm, zone>>

\* The server ends and starts again with no clients.
ServerRestart ==
  /\ ~ calm
  /\ Clients' = NoConn
  /\ conn' = [c \in Conns |-> IF Open(c) THEN Closed(c) ELSE conn[c]]
  /\ UNCHANGED <<agent, calm, zone>>

Calm ==
  /\ ~ calm
  /\ calm' = TRUE
  /\ UNCHANGED <<agent, Clients, conn, zone>>

-----------------------------------------------------------------------------
(* Time. *)

Older(seq) == [i \in 1 .. Len(seq) |-> seq[i] + 1]

\* What happens within Delay or LockWait, or at a time that was set, has happened.
Punctual ==
  /\ \A c \in Conns :
       /\ conn[c].at # "judge"
       /\ conn[c].at \in {"accepted", "invalid"} => conn[c].silent < LockWait
       /\ ~ Overdue(c)
       /\ conn[c].at = "read" => \A i \in 1 .. Len(conn[c].up) : conn[c].up[i] < Delay
       /\ \A i \in 1 .. Len(conn[c].down) : conn[c].down[i] < Delay
       /\ \A h \in conn[c].work : h < HandledBy
  /\ agent.at = "up" => agent.timer < HeartbeatEvery /\ agent.silent < ReadTimeout
  /\ agent.at = "sleep" => agent.timer < Retry

Tick ==
  /\ Punctual
  /\ agent' = [agent EXCEPT !.timer = IF agent.at = "ending" THEN @ ELSE @ + 1,
                            !.silent = IF agent.at = "up" THEN @ + 1 ELSE @]
  /\ conn' = [c \in Conns |->
       IF Open(c) THEN [conn[c] EXCEPT
            !.silent = @ + 1,
            !.last = IF @ = Never THEN Never ELSE @ + 1,
            !.up = Older(@), !.work = {h + 1 : h \in @}, !.down = Older(@),
            !.gone = IF Healthy(c) THEN 0 ELSE @ + 1]
       ELSE [conn[c] EXCEPT !.down = Older(@)]]
  /\ UNCHANGED <<Clients, calm, zone>>

-----------------------------------------------------------------------------
System ==
  \/ (\E c \in Conns : Dial(c)) \/ DialFail \/ Heartbeat \/ AgentRead \/ AgentGiveUp
  \/ AgentClose
  \/ \E c \in Conns :
       \/ RegisterConn(c) \/ RefuseConn(c) \/ JudgeInvalid(c) \/ JudgeValid(c)
       \/ Read(c) \/ ReadError(c) \/ InValidClient(c) \/ \E h \in conn[c].work : HandleHeartBeatMsg(c, h)
  \/ Tick

Failure == (\E c \in Conns : Break(c)) \/ ServerRestart \/ Calm

Next == System \/ Failure

Spec == Init /\ [][Next]_vars

\* Time goes on, and the goroutines of a session that was given up return
\* (module Agent: unless a command or a capture does not end).
FairSpec == Spec /\ WF_vars(System) /\ WF_vars(AgentClose)

-----------------------------------------------------------------------------
(* Properties. *)

TypeOK ==
  /\ agent \in [at : {"sleep", "up", "ending"}, conn : Conns \cup {NoConn},
                timer : Nat, silent : 0 .. ReadTimeout]
  /\ Clients \in Conns \cup {NoConn}
  /\ conn \in [Conns -> [at : {"none", "closed", "accepted", "judge", "read", "invalid"},
                         ok : BOOLEAN, silent : Nat, last : Nat \cup {Never},
                         buf : Nat \cup {Never}, up : Seq(Nat),
                         work : SUBSET (0 .. HandledBy), down : Seq(0 .. Delay), gone : Nat]]
  /\ calm \in BOOLEAN
  /\ zone \in Zones

\* As long as heartbeats are sent and arrive, neither end gives the session up:
\* the last heartbeat the server knows of is young enough although handlers run
\* in any order and an older heartbeat may overwrite a newer one, and no read
\* waits for ReadTimeout.  Local time must not be behind UTC.
HealthyStays ==
  \A c \in Conns : Healthy(c) /\ Clients = c /\ zone >= 0 =>
    ~ Expired(c) /\ ~ Overdue(c) /\ agent.silent < ReadTimeout

\* An agent that stopped sending, or whose connection broke, is forgotten after
\* ReadTimeout, counted from when its last message was read or HandleConn had
\* registered it, and one more wait for ClientLock, to be removed.  While
\* Multicast holds the lock the silent client stays registered: LockWait has no
\* bound in the code but the number of messages times writetimeout.
GoneIsForgotten ==
  \A c \in Conns : Clients = c => conn[c].gone <= ReadTimeout + ReadBy + LockWait

\* The server has no connection of the agent open but the registered one, and
\* the one that it is about to register or to refuse.
OneConnection ==
  \A c \in Conns : conn[c].at \in {"judge", "read", "invalid"} <=> Clients = c

\* The heartbeats of c that are sent and not handled yet, by their ages.
Pending(c) ==
  conn[c].work \cup ({conn[c].buf} \ {Never})
  \cup {conn[c].up[i] : i \in 1 .. Len(conn[c].up)}

\* How far a connection has got since its last message was sent: what is on the
\* way is as old as the silence, and the read deadline started when it came.
GoneInv(c) ==
  /\ Healthy(c) => conn[c].gone = 0
  /\ \A i \in 1 .. Len(conn[c].up) : conn[c].up[i] >= conn[c].gone
  /\ conn[c].at = "accepted" => conn[c].gone <= conn[c].silent /\ conn[c].silent <= LockWait
  /\ conn[c].at = "judge" => conn[c].gone <= ReadBy
  /\ conn[c].at = "read" => conn[c].gone <= conn[c].silent + ReadBy
                            /\ conn[c].silent <= ReadTimeout
  /\ conn[c].at = "invalid" =>
       /\ conn[c].gone <= ReadTimeout + ReadBy + conn[c].silent
       /\ conn[c].silent <= LockWait

\* How old a heartbeat gets before it is read.
TravelInv(c) ==
  /\ conn[c].buf # Never => conn[c].at \in {"judge", "invalid"} /\ conn[c].buf <= ReadBy
  /\ \A i \in 1 .. Len(conn[c].up) :
       /\ conn[c].at = "accepted" => conn[c].up[i] <= conn[c].silent
       /\ conn[c].at \in {"judge", "read"} => conn[c].up[i] <= ReadBy

\* HandleConn reads c, or will.
Reading(c) == conn[c].at \in {"accepted", "judge", "read"}

\* How old the news of a healthy connection are: nothing has been sent since, or
\* a heartbeat that makes up for it is on the way.
NewsInv(c) ==
  Healthy(c) /\ Reading(c) =>
    /\ conn[c].last = Never \/ conn[c].last <= HandledBy + agent.timer
       \/ \E g \in Pending(c) : conn[c].last <= HandledBy + HeartbeatEvery + g
    /\ conn[c].at = "read" =>
         conn[c].silent <= agent.timer
         \/ \E i \in 1 .. Len(conn[c].up) : conn[c].silent <= HeartbeatEvery + conn[c].up[i]
    /\ \/ agent.silent <= agent.timer
       \/ \E g \in Pending(c) : agent.silent <= HeartbeatEvery + g
       \/ \E i \in 1 .. Len(conn[c].down) :
            agent.silent <= HeartbeatEvery + HandledBy + conn[c].down[i]

\* The inductive invariant, from which GoneIsForgotten and OneConnection follow.
PresenceInv ==
  /\ TypeOK
  /\ agent.at = "sleep" <=> agent.conn = NoConn
  /\ agent.at = "up" => agent.timer <= HeartbeatEvery
  /\ OneConnection
  /\ \A c \in Conns : GoneInv(c) /\ TravelInv(c) /\ NewsInv(c)

\* No client that waits to be removed is healthy.  HealthyStays follows from it
\* and PresenceInv.
InvalidIsGone ==
  zone >= 0 => \A c \in Conns : conn[c].at = "invalid" => ~ Healthy(c)

\* Once the network is calm the agent gets in again and stays registered, also
\* when it is refused at first because the server still holds on to a
\* connection that broke.
Returns == zone >= 0 /\ <>[]calm => <>[](agent.at = "up" /\ Clients = agent.conn)

\* What the log line of JudgeValid (client.go:61) says of a client it drops, that
\* its last heartbeat is older than HeartbeatTimeout: one that sends heartbeats on
\* a sound connection is not dropped for it, whatever its zone.
HeartbeatsKeep ==
  \A c \in Conns : Healthy(c) /\ Clients = c => ~ Expired(c)
=============================================================================
