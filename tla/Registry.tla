------------------------------ MODULE Registry ------------------------------
(***************************************************************************)
(* What the TCP server promises to the code that calls Multicast: at any   *)
(* moment one connection at most is registered for an id, a connection is  *)
(* registered at most once in its life, and a Multicast is one moment in   *)
(* which every connection registered then, and no other, is sent one       *)
(* message for each time the list names its id.                            *)
(***************************************************************************)
EXTENDS Naturals

CONSTANTS
  Conns,    \* connections
  Ids,      \* client ids
  IdOf,     \* the id of each connection, if it has one
  Callers,  \* who calls Multicast
  IpLists,  \* the lists it is called with
  Times(_, _)  \* how often an id occurs in a list

VARIABLES
  status,   \* per connection: new, registered, or gone (refused or removed)
  job       \* per caller: its call, and what it sent to each connection

regVars == <<status, job>>

Nothing == [c \in Conns |-> 0]
NoJob   == [at |-> "idle", iplist |-> << >>, sent |-> Nothing]

Init ==
  /\ status = [c \in Conns |-> "new"]
  /\ job = [k \in Callers |-> NoJob]

Join(c) ==
  /\ status[c] = "new"
  /\ IdOf[c] \in Ids
  /\ \A d \in Conns : status[d] = "registered" => IdOf[d] # IdOf[c]
  /\ status' = [status EXCEPT ![c] = "registered"]
  /\ UNCHANGED job

\* A connection is removed, or refused without ever being registered.
Leave(c) ==
  /\ status[c] # "gone"
  /\ status' = [status EXCEPT ![c] = "gone"]
  /\ UNCHANGED job

Call(k, iplist) ==
  /\ job[k] = NoJob
  /\ job' = [job EXCEPT ![k] = [at |-> "called", iplist |-> iplist, sent |-> Nothing]]
  /\ UNCHANGED status

\* The moment of the call.
Send(k) ==
  /\ job[k].at = "called"
  /\ job' = [job EXCEPT ![k] =
       [at     |-> "sent",
        iplist |-> job[k].iplist,
        sent   |-> [c \in Conns |-> IF status[c] = "registered" THEN Times(IdOf[c], job[k].iplist)
                                                                ELSE 0]]]
  /\ UNCHANGED status

Return(k) ==
  /\ job[k].at = "sent"
  /\ job' = [job EXCEPT ![k] = NoJob]
  /\ UNCHANGED status

Next ==
  \/ \E c \in Conns : Join(c) \/ Leave(c)
  \/ \E k \in Callers : (\E iplist \in IpLists : Call(k, iplist)) \/ Send(k) \/ Return(k)

Spec == Init /\ [][Next]_regVars
=============================================================================
