----------------------------- MODULE AliveCheck -----------------------------
(***************************************************************************)
(* agentAliveCheck, the goroutine that copies the registry of the server   *)
(* into the table agent_status, with the transactions it opens on the      *)
(* MySQL connection pool.  Agents register and leave while it runs, every  *)
(* call to the database may fail, and the server may be restarted.         *)
(*                                                                         *)
(* The registry is abstracted to the set of registered addresses (module   *)
(* TcpServer models how it is kept).  database/sql gives each transaction  *)
(* a connection of the pool until Commit or Rollback, and Begin waits      *)
(* while all connections are taken.                                        *)
(***************************************************************************)
EXTENDS Naturals

CONSTANTS
  Ids,           \* addresses from which agents connect
  Rows,          \* addresses listed in agent_status
  MaxOpenConns   \* the limit of the connection pool

ASSUME PoolAssumption == MaxOpenConns \in Nat \ {0}

VARIABLES
  Clients,       \* TcpServer.Clients: the registered addresses
  alive,         \* the column alive of agent_status
  pc,            \* where agentAliveCheck is
  shouldagents,  \* the rows read and not yet written back
  actualagents,  \* what ListAliveAgents returned
  open,          \* transactions that hold a connection of the pool
  failed,        \* history: queries of GetAgentInfo that failed
  held,          \* history: per row, its values since the round began
  quiet          \* history: no agent came or went and nothing failed since then

vars == <<Clients, alive, pc, shouldagents, actualagents, open, failed, held, quiet>>

\* The value of the column for ip, given the registered addresses.
Alive(ip, clients) == IF ip \in clients THEN 0 ELSE 1

Init ==
  /\ Clients = {}
  /\ alive \in [Rows -> {0, 1}]
  /\ pc = "sleep"
  /\ shouldagents = {}
  /\ actualagents = {}
  /\ open = 0
  /\ failed = 0
  /\ held = [ip \in Rows |-> {1}]
  /\ quiet = FALSE

-----------------------------------------------------------------------------
(* The registry, as the handlers of connections change it. *)

Change(clients) ==
  /\ Clients' = clients
  /\ held' = [ip \in Rows |-> held[ip] \cup {Alive(ip, clients)}]
  /\ quiet' = FALSE

Register(id) ==
  /\ id \notin Clients
  /\ Change(Clients \cup {id})
  /\ UNCHANGED <<alive, pc, shouldagents, actualagents, open, failed>>

Remove(id) ==
  /\ id \in Clients
  /\ Change(Clients \ {id})
  /\ UNCHANGED <<alive, pc, shouldagents, actualagents, open, failed>>

\* The server process ends and is started again: its transactions are rolled
\* back, agent_status stays as it is.
Restart ==
  /\ Change({})
  /\ pc' = "sleep"
  /\ shouldagents' = {}
  /\ actualagents' = {}
  /\ open' = 0
  /\ failed' = 0
  /\ UNCHANGED alive

-----------------------------------------------------------------------------
(* GetAgentInfo. *)

\* The interval is over, a round begins.
Wake ==
  /\ pc = "sleep"
  /\ pc' = "begin"
  /\ held' = [ip \in Rows |-> {Alive(ip, Clients)}]
  /\ quiet' = TRUE
  /\ UNCHANGED <<Clients, alive, shouldagents, actualagents, open, failed>>

\* The goroutine goes on at station, and the pool has n transactions.
Goto(station, n) ==
  /\ pc' = station
  /\ open' = n
  /\ UNCHANGED <<Clients, alive, actualagents, held>>

\* The same after a failure of the database.
Fail(station, n) == Goto(station, n) /\ quiet' = FALSE

\* Begin returns when there is a connection for it.
Begin ==
  /\ pc = "begin"
  /\ open < MaxOpenConns
  /\ Goto("query", open + 1)
  /\ UNCHANGED <<shouldagents, failed, quiet>>

BeginError ==
  /\ pc = "begin"
  /\ open < MaxOpenConns
  /\ Fail("sleep", open)
  /\ UNCHANGED <<shouldagents, failed>>

\* Mutant: the transaction is not rolled back.
PrepareErrorLeak ==
  /\ pc = "query"
  /\ Fail("sleep", open)
  /\ UNCHANGED <<shouldagents, failed>>

PrepareError ==
  /\ pc = "query"
  /\ Fail("sleep", open - 1)
  /\ UNCHANGED <<shouldagents, failed>>

Query ==
  /\ pc = "query"
  /\ Goto("scan", open)
  /\ shouldagents' = {}
  /\ UNCHANGED <<failed, quiet>>

\* The statement is closed, the transaction is not.
QueryError ==
  /\ pc = "query"
  /\ Fail("sleep", open)
  /\ failed' = failed + 1
  /\ UNCHANGED shouldagents

Scan(ip) ==
  /\ pc = "scan"
  /\ ip \in Rows \ shouldagents
  /\ Goto("scan", open)
  /\ shouldagents' = shouldagents \cup {ip}
  /\ UNCHANGED <<failed, quiet>>

ScanError ==
  /\ pc = "scan"
  /\ shouldagents # Rows
  /\ Fail("sleep", open - 1)
  /\ shouldagents' = {}
  /\ UNCHANGED failed

\* All rows were read, and Commit follows.
ScanEnd ==
  /\ pc = "scan"
  /\ shouldagents = Rows
  /\ Goto("list", open - 1)
  /\ UNCHANGED <<shouldagents, failed, quiet>>

\* rows.Next returns false because the rows broke off: rows.Err is not looked
\* at, and the round goes on with the rows that were read.
ScanBreak ==
  /\ pc = "scan"
  /\ shouldagents # Rows
  /\ Fail("list", open - 1)
  /\ UNCHANGED <<shouldagents, failed>>

-----------------------------------------------------------------------------
(* The comparison with the registry, and UpdateAgentAlive for each row. *)

\* Mutant: the registered addresses are listed once, for all rounds.
ListAliveAgentsOnce ==
  /\ pc = "list"
  /\ pc' = "update"
  /\ actualagents' = IF actualagents = {} THEN Clients ELSE actualagents
  /\ UNCHANGED <<Clients, alive, shouldagents, open, failed, held, quiet>>

ListAliveAgents ==
  /\ pc = "list"
  /\ pc' = "update"
  /\ actualagents' = Clients
  /\ UNCHANGED <<Clients, alive, shouldagents, open, failed, held, quiet>>

UpdateBegin ==
  /\ pc = "update"
  /\ shouldagents # {}
  /\ open < MaxOpenConns
  /\ Goto("exec", open + 1)
  /\ UNCHANGED <<shouldagents, failed, quiet>>

\* GetTx fails, and the row is passed over.
UpdateBeginError(ip) ==
  /\ pc = "update"
  /\ ip \in shouldagents
  /\ open < MaxOpenConns
  /\ Fail("update", open)
  /\ shouldagents' = shouldagents \ {ip}
  /\ UNCHANGED failed

\* Mutant: the transaction is not rolled back.
UpdateErrorLeak(ip) ==
  /\ pc = "exec"
  /\ ip \in shouldagents
  /\ Fail("update", open)
  /\ shouldagents' = shouldagents \ {ip}
  /\ UNCHANGED failed

\* Prepare, Exec or Commit fails, and the row is not written.
UpdateError(ip) ==
  /\ pc = "exec"
  /\ ip \in shouldagents
  /\ Fail("update", open - 1)
  /\ shouldagents' = shouldagents \ {ip}
  /\ UNCHANGED failed

\* Mutant: the row keeps what it was read with.
UpdateNothing(ip) ==
  /\ pc = "exec"
  /\ ip \in shouldagents
  /\ pc' = "update"
  /\ shouldagents' = shouldagents \ {ip}
  /\ open' = open - 1
  /\ UNCHANGED <<Clients, alive, actualagents, failed, held, quiet>>

\* The row is written.  When Commit fails, the database may have committed all
\* the same, which is this step too.
Update(ip) ==
  /\ pc = "exec"
  /\ ip \in shouldagents
  /\ pc' = "update"
  /\ shouldagents' = shouldagents \ {ip}
  /\ open' = open - 1
  /\ alive' = [alive EXCEPT ![ip] = Alive(ip, actualagents)]
  /\ UNCHANGED <<Clients, actualagents, failed, held, quiet>>

\* All rows have had their turn.
RoundEnd ==
  /\ pc = "update"
  /\ shouldagents = {}
  /\ Goto("sleep", open)
  /\ UNCHANGED <<shouldagents, failed, quiet>>

-----------------------------------------------------------------------------
Check ==
  \/ Wake \/ Begin \/ Query \/ \E ip \in Rows : Scan(ip)
  \/ ScanEnd \/ ListAliveAgents \/ UpdateBegin
  \/ (\E ip \in Rows : Update(ip)) \/ RoundEnd

\* What the database does wrong.
Fault ==
  \/ BeginError \/ PrepareError \/ QueryError \/ ScanError \/ ScanBreak
  \/ \E ip \in Rows : UpdateBeginError(ip) \/ UpdateError(ip)

\* What agents and operators do.
Environment ==
  \/ \E id \in Ids : Register(id) \/ Remove(id)
  \/ Restart

Next == Check \/ Fault \/ Environment

Spec == Init /\ [][Next]_vars

\* The goroutine runs, and every call to the database but Begin returns.
FairSpec == Spec /\ WF_vars(Check \/ Fault)

-----------------------------------------------------------------------------
(* Properties. *)

TypeOK ==
  /\ Clients \subseteq Ids
  /\ alive \in [Rows -> {0, 1}]
  /\ pc \in {"sleep", "begin", "query", "scan", "list", "update", "exec"}
  /\ shouldagents \subseteq Rows
  /\ actualagents \subseteq Ids
  /\ open \in 0 .. MaxOpenConns
  /\ failed \in 0 .. MaxOpenConns
  /\ held \in [Rows -> SUBSET {0, 1}]
  /\ quiet \in BOOLEAN

\* Only a failed query of GetAgentInfo keeps its connection: on every other
\* path through GetAgentInfo and SimpleUpdate the transaction is ended, so
\* that between two calls exactly the connections of failed queries are taken.
PoolAccounts ==
  open = failed + (IF pc \in {"query", "scan", "exec"} THEN 1 ELSE 0)

\* The check is stuck in Begin: failed queries have used up the pool.
Exhausted == failed = MaxOpenConns

\* The check never stops half way through a round, and it can always go on
\* unless failed queries have used up the pool.
RoundsEnd == []<>(pc = "sleep") \/ <>[]Exhausted

\* The table agrees with the registry.
Agrees == \A ip \in Rows : alive[ip] = Alive(ip, Clients)

\* A round during which no agent came or went and no call failed leaves the
\* table in agreement with the registry, whatever a snapshot taken too early, a
\* partial list or a restart of the server had left in it.
QuietRoundAgrees == pc = "sleep" /\ quiet => Agrees

\* Once that stays so the table comes to agree with the registry for good,
\* unless failed queries have used up the pool.
Converges == <>[]quiet => <>[](Agrees \/ Exhausted)

\* The values written are ones the agents had since the round began.
Table == INSTANCE AliveTable WITH
           Ids <- Ids, Rows <- Rows, Clients <- Clients, alive <- alive, held <- held
TableSpec == Table!Spec

(***************************************************************************)
(* The inductive invariant behind them.                                    *)
(***************************************************************************)

\* What is about to be written is what the row was when the agents were listed.
SnapshotInv ==
  pc \in {"update", "exec"} => \A ip \in Rows : Alive(ip, actualagents) \in held[ip]

\* In a quiet round the list is complete, the snapshot is up to date, and the
\* rows that have had their turn agree with it.
QuietInv ==
  quiet => /\ pc \in {"list", "update", "exec"} =>
                \A ip \in Rows \ shouldagents : pc # "list" /\ alive[ip] = Alive(ip, Clients)
           /\ pc \in {"update", "exec"} => actualagents = Clients
           /\ QuietRoundAgrees

AliveInv ==
  /\ TypeOK
  /\ PoolAccounts
  /\ \A ip \in Rows : Alive(ip, Clients) \in held[ip]
  /\ SnapshotInv
  /\ QuietInv
=============================================================================
