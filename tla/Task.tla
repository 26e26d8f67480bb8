-------------------------------- MODULE Task --------------------------------
(***************************************************************************)
(* A task from the HTTP handler to its answer: the server draws a task id, *)
(* stores the addresses in etcd and multicasts the message; each agent     *)
(* runs it and responds; a HandleMsg goroutine stores the response in etcd *)
(* under the task id and the agent's address; GetShellResult reads the     *)
(* addresses and then the results one by one.                              *)
(*                                                                         *)
(* A connection is a queue in each direction (module Framing) that loses   *)
(* its content when it breaks.  Multicast is one step (module TcpServer).  *)
(* It sends a message once for each time the request names the agent; the  *)
(* copies are alike, and a number that the program does not carry tells    *)
(* them apart here.  A message also stands for its response and for what   *)
(* the command prints when the agent runs it.                              *)
(***************************************************************************)
EXTENDS Naturals, Sequences, FiniteSets, Functions

CONSTANTS
  Requests,  \* calls of RemoteShellRun, RemoteScriptRun and RemoteFileSend
  Kind,      \* shell, script or file, for each request
  IpList,    \* the addresses a request names, as strings.Split gives them
  TaskIds,   \* the ids a draw can give (a million in the code)
  Ips,       \* addresses of agents
  Empty,     \* the empty address: what a comma too many leaves
  Prefix,    \* pairs of different addresses: the second starts with the first
  Rank,      \* position of an address in the order of keys
  None       \* no such key, nothing running, no id

ASSUME RequestAssumption ==
  /\ Kind \in [Requests -> {"shell", "script", "file"}]
  /\ Empty \notin Ips
  /\ \A r \in Requests : IpList[r] \in Seq(Ips \cup {Empty})
  /\ None \notin TaskIds \cup Ips \cup {Empty} \cup Seq(Ips \cup {Empty})
  /\ None \notin [req : Requests, n : Nat, ip : Ips]
ASSUME KeyAssumption ==
  /\ Prefix \subseteq Ips \X Ips
  /\ Rank \in [Ips -> Nat]
  /\ \A i, j \in Ips : Rank[i] = Rank[j] => i = j

VARIABLES
  stage,     \* per request: how far its handler is
  id,        \* per request: its task id
  list,      \* etcd: /task/result/<id>/iplist
  result,    \* etcd: /task/result/<id>/<address>
  up,        \* per agent: connected to the server
  inbox,     \* per agent: messages on their way to it
  running,   \* per agent: the message HandleMsg is executing
  outbox,    \* per agent: responses on their way to the server
  handling,  \* HandleMsg goroutines of the server: the responses they have
  query,     \* a call of GetShellResult
  lost       \* history: responses that a failure swallowed

agentVars == <<up, inbox, running, outbox>>
vars == <<stage, id, list, result, up, inbox, running, outbox, handling, query, lost>>

Addrs == Ips \cup {Empty}

\* How often r names ip, and the messages that Multicast sends there for it.
Occurrences(r, ip) == Cardinality({i \in 1 .. Len(IpList[r]) : IpList[r][i] = ip})
Copies(r, ip) == [n \in 1 .. Occurrences(r, ip) |-> [req |-> r, n |-> n, ip |-> ip]]

Msgs == UNION {UNION {Range(Copies(r, ip)) : ip \in Ips} : r \in Requests}

\* The addresses joined with commas and split again: empty ones at the front are
\* dropped, but one is left of a list that has no others.
Leading(s) == Cardinality({i \in 1 .. Len(s) : \A k \in 1 .. i : s[k] = Empty})
Joined(s) == IF Leading(s) = Len(s) THEN <<Empty>> ELSE SubSeq(s, Leading(s) + 1, Len(s))

\* resultdict: one map for all rows of an answer.
EmptyDict == [ip |-> None, status |-> "failed", output |-> None]
NoQuery   == [at |-> "idle", task |-> None, left |-> << >>, dict |-> EmptyDict]

Init ==
  /\ stage = [r \in Requests |-> "new"]
  /\ id = [r \in Requests |-> None]
  /\ list = [t \in TaskIds |-> None]
  /\ result = [t \in TaskIds |-> [ip \in Ips |-> None]]
  /\ up = [ip \in Ips |-> TRUE]
  /\ inbox = [ip \in Ips |-> << >>]
  /\ running = [ip \in Ips |-> None]
  /\ outbox = [ip \in Ips |-> << >>]
  /\ handling = {}
  /\ query = NoQuery
  /\ lost = {}

-----------------------------------------------------------------------------
(* RemoteShellRun, RemoteScriptRun and RemoteFileSend. *)

\* A task id is drawn; nothing asks whether it is in use.
DrawTaskId(r, t) ==
  /\ stage[r] = "new"
  /\ Kind[r] # "file"
  /\ id' = [id EXCEPT ![r] = t]
  /\ stage' = [stage EXCEPT ![r] = "put"]
  /\ UNCHANGED <<list, result, agentVars, handling, query, lost>>

\* Mutant: the message goes out before the addresses are stored.
PutIpListLater(r) ==
  /\ stage[r] = "put"
  /\ stage' = [stage EXCEPT ![r] = "send"]
  /\ UNCHANGED <<id, list, result, agentVars, handling, query, lost>>

PutIpList(r) ==
  /\ stage[r] = "put"
  /\ list' = [list EXCEPT ![id[r]] = Joined(IpList[r])]
  /\ stage' = [stage EXCEPT ![r] = "send"]
  /\ UNCHANGED <<id, result, agentVars, handling, query, lost>>

\* ClientPut returns an error (etcd may have stored the value all the same):
\* nothing is sent, and the HTTP handler answers Success without an id.
PutIpListError(r) ==
  /\ stage[r] = "put"
  /\ list' \in {list, [list EXCEPT ![id[r]] = Joined(IpList[r])]}
  /\ stage' = [stage EXCEPT ![r] = "failed"]
  /\ UNCHANGED <<id, result, agentVars, handling, query, lost>>

\* The file is read, or not, in which case the answer is Success as well.
ReadFile(r, next) ==
  /\ stage[r] = "new"
  /\ Kind[r] = "file"
  /\ stage' = [stage EXCEPT ![r] = next]
  /\ UNCHANGED <<id, list, result, agentVars, handling, query, lost>>

\* Agents that are not connected get nothing, and nobody is told.
Multicast(r) ==
  /\ stage[r] = "send"
  /\ stage' = [stage EXCEPT ![r] = "done"]
  /\ inbox' = [ip \in Ips |-> IF up[ip] THEN inbox[ip] \o Copies(r, ip) ELSE inbox[ip]]
  /\ UNCHANGED <<id, list, result, up, running, outbox, handling, query, lost>>

-----------------------------------------------------------------------------
(* The agents. *)

\* Mutant: the message stays in the buffer it was read from.
HandleRunMsgAgain(ip) ==
  /\ up[ip]
  /\ running[ip] = None
  /\ inbox[ip] # << >>
  /\ running' = [running EXCEPT ![ip] = Head(inbox[ip])]
  /\ UNCHANGED <<stage, id, list, result, up, inbox, outbox, handling, query, lost>>

\* Listen takes a message; it takes no other until this one is handled.
HandleRunMsg(ip) ==
  /\ up[ip]
  /\ running[ip] = None
  /\ inbox[ip] # << >>
  /\ inbox' = [inbox EXCEPT ![ip] = Tail(@)]
  /\ running' = [running EXCEPT ![ip] = Head(inbox[ip])]
  /\ UNCHANGED <<stage, id, list, result, up, outbox, handling, query, lost>>

\* The command ended and its result is sent, if there is still a connection.
SendRsp(ip) ==
  /\ running[ip] # None
  /\ Kind[running[ip].req] # "file"
  /\ running' = [running EXCEPT ![ip] = None]
  /\ outbox' = [outbox EXCEPT ![ip] = IF up[ip] THEN Append(@, running[ip]) ELSE @]
  /\ lost' = IF up[ip] THEN lost ELSE lost \cup {running[ip]}
  /\ UNCHANGED <<stage, id, list, result, up, inbox, handling, query>>

\* The command failed, which nobody is told, or the file is stored.
EndSilently(ip) ==
  /\ running[ip] # None
  /\ running' = [running EXCEPT ![ip] = None]
  /\ lost' = lost \cup {running[ip]}
  /\ UNCHANGED <<stage, id, list, result, up, inbox, outbox, handling, query>>

\* The connection breaks, with what is on it.
Break(ip) ==
  /\ up[ip]
  /\ up' = [up EXCEPT ![ip] = FALSE]
  /\ inbox' = [inbox EXCEPT ![ip] = << >>]
  /\ outbox' = [outbox EXCEPT ![ip] = << >>]
  /\ lost' = lost \cup {inbox[ip][i] : i \in 1 .. Len(inbox[ip])}
                  \cup {outbox[ip][i] : i \in 1 .. Len(outbox[ip])}
  /\ UNCHANGED <<stage, id, list, result, running, handling, query>>

\* The agent dials again, once all its goroutines have returned.
Connect(ip) ==
  /\ ~ up[ip]
  /\ running[ip] = None
  /\ up' = [up EXCEPT ![ip] = TRUE]
  /\ UNCHANGED <<stage, id, list, result, inbox, running, outbox, handling, query, lost>>

-----------------------------------------------------------------------------
(* HandleMsg of the server. *)

\* GetMsg returns a response and a HandleMsg goroutine is started for it.
GetRsp(ip) ==
  /\ outbox[ip] # << >>
  /\ outbox' = [outbox EXCEPT ![ip] = Tail(@)]
  /\ handling' = handling \cup {Head(outbox[ip])}
  /\ UNCHANGED <<stage, id, list, result, up, inbox, running, query, lost>>

\* Mutant: the result is logged and not stored.
HandleShellRunRspNoPut(m) ==
  /\ m \in handling
  /\ Kind[m.req] = "shell"
  /\ handling' = handling \ {m}
  /\ UNCHANGED <<stage, id, list, result, agentVars, query, lost>>

\* Mutant: the result goes to the key of another agent.
HandleShellRunRspWrongIp(m) ==
  /\ m \in handling
  /\ Kind[m.req] = "shell"
  /\ handling' = handling \ {m}
  /\ \E ip \in Ips : result' = [result EXCEPT ![id[m.req]][ip] = m]
  /\ UNCHANGED <<stage, id, list, agentVars, query, lost>>

HandleShellRunRsp(m) ==
  /\ m \in handling
  /\ Kind[m.req] = "shell"
  /\ handling' = handling \ {m}
  /\ result' = [result EXCEPT ![id[m.req]][m.ip] = m]
  /\ UNCHANGED <<stage, id, list, agentVars, query, lost>>

\* ClientPut returns an error (etcd may have stored the value all the same).
PutResultError(m) ==
  /\ m \in handling
  /\ Kind[m.req] = "shell"
  /\ handling' = handling \ {m}
  /\ lost' = lost \cup {m}
  /\ result' \in {result, [result EXCEPT ![id[m.req]][m.ip] = m]}
  /\ UNCHANGED <<stage, id, list, agentVars, query>>

\* HandleMsg has no case for ScriptRun_Rsp: it returns an error, which nobody
\* takes.
RefuseRsp(m) ==
  /\ m \in handling
  /\ Kind[m.req] = "script"
  /\ handling' = handling \ {m}
  /\ UNCHANGED <<stage, id, list, result, agentVars, query, lost>>

-----------------------------------------------------------------------------
(* GetShellResult, one read of etcd per step. *)

\* The addresses of a task; without them the answer is Failed.
GetIpList(t) ==
  /\ query.at = "idle"
  /\ list[t] # None
  /\ query' = [NoQuery EXCEPT !.at = "read", !.task = t, !.left = list[t]]
  /\ UNCHANGED <<stage, id, list, result, agentVars, handling, lost>>

\* What a read with a prefix can find of the results, and the first of it.  The
\* key iplist, which comes after them, starts with the empty address only.
StartsWith(j, a) == a \in {j, Empty} \/ <<a, j>> \in Prefix
Matching(t, a) == {j \in Ips : result[t][j] # None /\ StartsWith(j, a)}
GetSingleCfg(t, a) ==
  IF Matching(t, a) = {} THEN [iplist |-> list[t]]
  ELSE result[t][CHOOSE j \in Matching(t, a) : \A k \in Matching(t, a) : Rank[j] <= Rank[k]]

\* Mutant: the map is not reset for the next address.
GetResultErrorStale(ip) ==
  query' = [query EXCEPT !.left = Tail(@), !.dict.ip = ip]

\* Nothing is found, or etcd fails.
GetResultError(ip) ==
  query' = [query EXCEPT !.left = Tail(@), !.dict = [EmptyDict EXCEPT !.ip = ip]]

GetResult(ip) ==
  /\ Matching(query.task, ip) # {} \/ ip = Empty
  /\ query' = [query EXCEPT !.left = Tail(@),
                            !.dict = [ip |-> ip, status |-> "success",
                                      output |-> GetSingleCfg(query.task, ip)]]

ReadResult ==
  /\ query.at = "read"
  /\ query.left # << >>
  /\ GetResult(Head(query.left)) \/ GetResultError(Head(query.left))
  /\ UNCHANGED <<stage, id, list, result, agentVars, handling, lost>>

\* The answer has one row per address, and every row is the one map.
Answer ==
  /\ query.at = "read"
  /\ query.left = << >>
  /\ query' = NoQuery
  /\ UNCHANGED <<stage, id, list, result, agentVars, handling, lost>>

-----------------------------------------------------------------------------
Request(r) ==
  \/ \E t \in TaskIds : DrawTaskId(r, t)
  \/ PutIpList(r) \/ PutIpListError(r)
  \/ \E next \in {"send", "failed"} : ReadFile(r, next)
  \/ Multicast(r)

AgentStep(ip) ==
  HandleRunMsg(ip) \/ SendRsp(ip) \/ EndSilently(ip) \/ Break(ip) \/ Connect(ip)

Next ==
  \/ \E r \in Requests : Request(r)
  \/ \E ip \in Ips : AgentStep(ip) \/ GetRsp(ip)
  \/ \E m \in Msgs : HandleShellRunRsp(m) \/ PutResultError(m) \/ RefuseRsp(m)
  \/ \E t \in TaskIds : GetIpList(t)
  \/ ReadResult \/ Answer

Spec == Init /\ [][Next]_vars

\* Commands end, and the goroutines of the agents and of the server run.
Fairness ==
  /\ \A ip \in Ips : /\ WF_vars(HandleRunMsg(ip) \/ SendRsp(ip) \/ EndSilently(ip))
                     /\ WF_vars(GetRsp(ip))
  /\ WF_vars(\E m \in Msgs : HandleShellRunRsp(m) \/ PutResultError(m) \/ RefuseRsp(m))
CommandsEndSpec == Spec /\ Fairness

-----------------------------------------------------------------------------
\* Every variable of the server, of etcd and of the agents has its type.
TypeOK ==
  /\ stage \in [Requests -> {"new", "put", "send", "done", "failed"}]
  /\ id \in [Requests -> TaskIds \cup {None}]
  /\ list \in [TaskIds -> Seq(Addrs) \cup {None}]
  /\ result \in [TaskIds -> [Ips -> Msgs \cup {None}]]
  /\ up \in [Ips -> BOOLEAN]
  /\ inbox \in [Ips -> Seq(Msgs)]
  /\ running \in [Ips -> Msgs \cup {None}]
  /\ outbox \in [Ips -> Seq(Msgs)]
  /\ handling \in SUBSET Msgs
  /\ query \in [at : {"idle", "read"}, task : TaskIds \cup {None}, left : Seq(Addrs),
               dict : [ip : Addrs \cup {None}, status : {"failed", "success"},
                       output : Msgs \cup [iplist : Seq(Addrs)] \cup {None}]]
  /\ lost \in SUBSET Msgs

Sent(m, ip) == stage[m.req] = "done" /\ m.ip = ip

\* HandleShellRunRspMsg: what stands in etcd under a task id and an address
\* was printed by that agent, for a shell command that has the id and was sent
\* to the agent, although responses of several tasks arrive in any order.
ResultsAuthentic ==
  \A t \in TaskIds, ip \in Ips : result[t][ip] # None =>
    \E m \in Msgs : /\ result[t][ip] = m
                    /\ id[m.req] = t
                    /\ Kind[m.req] = "shell"
                    /\ Sent(m, ip)

\* RemoteShellRun stores the addresses before it sends anything, so that a
\* result in etcd can always be found by GetShellResult: a task with a result
\* has its addresses.
ListBeforeResults ==
  \A t \in TaskIds, ip \in Ips : result[t][ip] # None => list[t] # None

\* GetShellResult: the output of a row that says success was printed for a
\* request with the queried task id, by the agent of the row or by one whose
\* address starts with the row's, although the rows share one map and results
\* arrive while it is filled.  The row of an empty address may also show the
\* addresses of such a request.
AnswerFromTask ==
  query.dict.status = "success" =>
    \/ \E m \in Msgs : /\ query.dict.output = m
                       /\ id[m.req] = query.task
                       /\ StartsWith(m.ip, query.dict.ip)
    \/ /\ query.dict.ip = Empty
       /\ \E r \in Requests : /\ id[r] = query.task
                              /\ query.dict.output = [iplist |-> Joined(IpList[r])]

\* The addresses are stored once a request is past ClientPut; its id is drawn
\* once.
RequestInv ==
  \A r \in Requests :
    /\ stage[r] = "new" => id[r] = None
    /\ stage[r] = "put" => Kind[r] # "file" /\ id[r] # None
    /\ Kind[r] # "file" /\ stage[r] \in {"send", "done"} => id[r] # None /\ list[id[r]] # None

\* The addresses of a task are those of a request that drew its id.
ListInv ==
  \A t \in TaskIds : list[t] # None => \E r \in Requests : id[r] = t /\ list[t] = Joined(IpList[r])

\* Whatever is on its way was sent by Multicast to the agent that has it.
TransitInv ==
  /\ \A ip \in Ips :
       /\ \A i \in 1 .. Len(inbox[ip]) : Sent(inbox[ip][i], ip)
       /\ running[ip] # None => Sent(running[ip], ip)
       /\ \A i \in 1 .. Len(outbox[ip]) : Sent(outbox[ip][i], ip) /\ Kind[outbox[ip][i].req] # "file"
  /\ \A m \in handling : Sent(m, m.ip) /\ Kind[m.req] # "file"

QueryInv ==
  /\ query.at = "idle" => query.dict.status = "failed"
  /\ query.at = "read" => query.task # None /\ list[query.task] # None

\* The invariant of RemoteShellRun, HandleMsg and GetShellResult together: it
\* implies that results are authentic, follow their addresses and are
\* answered for their own task, and every step keeps it.
TaskInv ==
  /\ TypeOK
  /\ RequestInv
  /\ ListInv
  /\ TransitInv
  /\ QueryInv
  /\ ResultsAuthentic
  /\ ListBeforeResults
  /\ AnswerFromTask

\* Where m can be on its way through its agent.
Stations == {"inbox", "running", "outbox", "handling", "etcd"}
IsAt(p, m) ==
  \/ p = "inbox" /\ \E i \in 1 .. Len(inbox[m.ip]) : inbox[m.ip][i] = m
  \/ p = "running" /\ running[m.ip] = m
  \/ p = "outbox" /\ \E i \in 1 .. Len(outbox[m.ip]) : outbox[m.ip][i] = m
  \/ p = "handling" /\ m \in handling
  \/ p = "etcd" /\ \E t \in TaskIds : result[t][m.ip] = m
Once(s, m) == \A i, j \in 1 .. Len(s) : s[i] = m /\ s[j] = m => i = j

\* Multicast sends a message to an agent for each time the request names it, and
\* nobody sends one again after a reconnection; Listen, HandleMsg and SendMsg pass
\* it on and keep nothing of it.  So a message is never in two places of its way,
\* and an agent runs a command at most as often as the request names the agent.
OncePerMention ==
  \A m \in Msgs :
    /\ Once(inbox[m.ip], m) /\ Once(outbox[m.ip], m)
    /\ \A p \in Stations : IsAt(p, m) => \A q \in Stations \ {p} : ~ IsAt(q, m)

\* What became of m: a message that Multicast has sent and that is nowhere is
\* gone.
Where(m) ==
  IF stage[m.req] # "done" THEN "unsent"
  ELSE IF running[m.ip] = m THEN "running"
  ELSE IF m \in handling THEN "handling"
  ELSE IF \E t \in TaskIds : result[t][m.ip] = m THEN "etcd"
  ELSE IF \E i \in 1 .. Len(inbox[m.ip]) : inbox[m.ip][i] = m THEN "inbox"
  ELSE IF \E i \in 1 .. Len(outbox[m.ip]) : outbox[m.ip][i] = m THEN "outbox"
  ELSE "gone"

\* RemoteShellRun, Listen, HandleMsg and the queues between them take a command
\* forward through its places, never back and never again after a loss, and a
\* shell command is lost only by a failure, though connections break and are
\* dialled anew while commands run, responses are handled in any order, ids
\* collide, and a request may name an agent several times.
Del == INSTANCE Delivery WITH where <- [m \in Msgs |-> Where(m)]
DeliverySpec == Del!Spec

\* A shell command that reaches an agent's connection gets to etcd, however many
\* commands Listen has to run before it, and so does each of its copies, unless a
\* failure swallowed it: a broken connection, a failed command, a failed put.
Answered ==
  \A m \in {k \in Msgs : Kind[k.req] = "shell"} :
    IsAt("inbox", m) ~> IsAt("etcd", m) \/ m \in lost

\* GetSingleCfg reports a key that does not exist as an error: a row that says
\* success shows the output of its own agent.
OwnOutput ==
  query.dict.status = "success" /\ query.dict.ip # Empty => query.dict.output.ip = query.dict.ip
=============================================================================
