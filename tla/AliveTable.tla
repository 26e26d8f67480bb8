----------------------------- MODULE AliveTable -----------------------------
(***************************************************************************)
(* What the table agent_status promises to those who read it: every value  *)
(* written to the column alive is one the agent really had since the last  *)
(* round of the alive check began.                                         *)
(***************************************************************************)
CONSTANTS
  Ids,      \* addresses from which agents connect
  Rows      \* addresses listed in agent_status

VARIABLES
  Clients,  \* the addresses that are registered with the server
  alive,    \* the column alive: 0 for an agent that is registered, else 1
  held      \* per row: the values it should have had since the round began

tableVars == <<Clients, alive, held>>

\* The value the column should have for address ip.
Status(ip, clients) == IF ip \in clients THEN 0 ELSE 1

Init ==
  /\ Clients = {}
  /\ alive \in [Rows -> {0, 1}]
  /\ held = [ip \in Rows |-> {1}]

\* Agents come and go.
Change ==
  /\ Clients' \in SUBSET Ids
  /\ held' = [ip \in Rows |-> held[ip] \cup {Status(ip, Clients')}]
  /\ UNCHANGED alive

\* A row is written.
Record ==
  /\ \E ip \in Rows : \E v \in held[ip] : alive' = [alive EXCEPT ![ip] = v]
  /\ UNCHANGED <<Clients, held>>

\* A new round begins.
Round ==
  /\ held' = [ip \in Rows |-> {Status(ip, Clients)}]
  /\ UNCHANGED <<Clients, alive>>

Next == Change \/ Record \/ Round

Spec == Init /\ [][Next]_tableVars
=============================================================================
