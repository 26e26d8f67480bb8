------------------------------ MODULE Delivery ------------------------------
(***************************************************************************)
(* What becomes of a message on its way to one agent and back, as the      *)
(* operator sees it: it is sent once or never, with the other copies of    *)
(* its command, then moves from place to place and never back, one agent   *)
(* runs one command at a time, and what is gone stays gone.  A shell       *)
(* command on its way goes only with a failure; a stored result is         *)
(* replaced only by another one of the same agent.                         *)
(***************************************************************************)
CONSTANTS
  Msgs,      \* the messages: of a command (req) to an agent (ip)
  Kind       \* shell, script or file, for each command

VARIABLES
  where,     \* per message: its place
  lost       \* messages for which there was a failure

vars == <<where, lost>>

InTransit == {"inbox", "running", "outbox", "handling"}
Places    == InTransit \cup {"unsent", "etcd", "gone"}
After     == [inbox |-> "running", running |-> "outbox", outbox |-> "handling"]

Init ==
  /\ where = [m \in Msgs |-> "unsent"]
  /\ lost = {}

\* Only the places of the messages of S change.
Only(S) ==
  /\ where' \in [Msgs -> Places]
  /\ \A m \in Msgs \ S : where'[m] = where[m]

\* An agent gets all messages of the command that are meant for it, or none ever.
Send(r) ==
  LET S == {m \in Msgs : m.req = r} IN
  /\ UNCHANGED lost
  /\ \A m \in S : where[m] = "unsent" /\ where'[m] \in {"inbox", "gone"}
  /\ \A m, k \in S : m.ip = k.ip => where'[m] = where'[k]
  /\ Only(S)

\* A command is run when the agent runs no other, and answered unless it is a file.
Advance(m) ==
  /\ UNCHANGED lost
  /\ where[m] \in DOMAIN After
  /\ where'[m] = After[where[m]]
  /\ where'[m] = "running" => \A k \in Msgs : k.ip = m.ip => where[k] # "running"
  /\ where'[m] = "outbox" => Kind[m.req] # "file"
  /\ Only({m})

\* The result of a shell command is stored, in the place of another one of the
\* same agent maybe; it may look like a failure.
Store(m) ==
  /\ Kind[m.req] = "shell"
  /\ where[m] = "handling"
  /\ where'[m] = "etcd"
  /\ \E k \in Msgs : /\ k = m \/ (k.ip = m.ip /\ where[k] = "etcd" /\ where'[k] = "gone")
                     /\ Only({k, m})
  /\ UNCHANGED lost \/ lost' = lost \cup {m}

\* Messages on their way to or from an agent are gone: a shell command by a
\* failure, the others also because nobody takes their responses.
Lose ==
  \E S \in SUBSET {m \in Msgs : where[m] \in InTransit} :
    /\ S # {}
    /\ \A m, k \in S : m.ip = k.ip
    /\ \A m \in S : where'[m] = "gone"
    /\ Only(S)
    /\ \E T \in SUBSET S : lost' = lost \cup T /\ \A m \in S \ T : Kind[m.req] # "shell"

Next ==
  \/ \E m \in Msgs : Send(m.req) \/ Advance(m) \/ Store(m)
  \/ Lose

Spec == Init /\ [][Next]_vars
=============================================================================
