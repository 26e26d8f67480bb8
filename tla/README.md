# Verification of the agent framework

TLA+ models of the agent/server system in `src/src`, checked with TLC on small
instances and, for the safety properties, proved with TLAPS for every value of
the constants.

## The system

An **agent** runs on every host. It keeps one TCP connection to the **server**,
sends a heartbeat every five seconds, runs the shell commands and plugin
scripts the server sends, stores files, and, when a switch in **etcd** says so,
pings hosts, tries TCP ports and captures packets. The **server** keeps a
registry of the connected agents, answers heartbeats, stores results in etcd,
and sends tasks that arrive over HTTP to the agents they name. A periodic check
writes which agents are alive into **MySQL**.

| Component | State | Operations | Interacts with | What is hard about it |
|---|---|---|---|---|
| Framing (`SendMsg`, `GetMsg`) | `ReadBuf`, `ReadMsgPayloadLth`, `SendLock`, the byte stream | write a frame, read a chunk, return a message | both ends | frames split and joined anywhere, two writers, a write that fails half way, `uint32` sums |
| TCP server | `Clients`, `ClientLock`; per client `Valid`, `SendLock`, heartbeat time | accept, register, refuse, read, handle, remove, `Multicast` | agents, HTTP handlers, etcd | one goroutine per connection and per message, `Multicast` blocking under `ClientLock`, removal by id |
| Agent session | the `Agent` record, a `WaitGroup` | dial, start six goroutines, wait, reset | server, etcd | the six share `Valid` without a lock; one record serves all sessions; a goroutine that does not end |
| Presence (heartbeats, timeouts) | heartbeat time, read deadlines at both ends | send, time out, refuse, retry | agent and server | handlers out of order, local time parsed as UTC, a connection that died unnoticed |
| Lease and discovery | lease, registered keys | take a lease, announce, keep alive | etcd | processes that die and start again, leases that expire late, a closed keep-alive channel |
| Packet capture | capture handle, its reader goroutine, a channel | open, range, write, close | etcd, libpcap, dump server | dropped errors, closing under a reader, handles left behind |
| Tasks over HTTP | task ids and results in etcd | run, query, send file | server, etcd | id collisions, prefix reads, one map shared by all rows |
| Alive check, MySQL | `agent_status`, connection pool | snapshot, update | registry | stale snapshot, transaction left open |
| Detection, collection | switches | probe, collect | etcd, InfluxDB | dropped errors |

The server package does not compile at this commit (`HandleMsg` has a duplicate
case, `RemoteScriptRun` uses fields `ShellRun` does not have). The models follow
the source text: the first of two equal cases is the one taken.

## Modules

| Module | Models | Checked by |
|---|---|---|
| `MsgChannel` | what one direction of a connection promises: messages in order, once, none invented, up to the first failed write | refinement target of `Framing` |
| `Framing` | `Agent.SendMsg` and `TcpClient.GetMsg` byte by byte | `framing`, `framing_truncated` |
| `FramingProofs` | proofs about `Framing` | |
| `Registry` | what the server promises to the callers of `Multicast`: one connection per id, registered once, and a `Multicast` that has its effect at one moment | refinement target of `TcpServer` |
| `TcpServer` | `server.go` and `client.go` above the bytes | `server`, `server_live` |
| `TcpServerProofs` | proofs about `TcpServer` | |
| `Agent` | `RunAgent`, `StartAgent`, `ResetAgent` and the six goroutines | `agent`, `agent_capture` |
| `AgentProofs` | proofs about `Agent` | |
| `Delivery` | what becomes of a message on its way to an agent and back: sent once or never, forward only, one at a time on an agent, that of a shell command lost only by a failure | refinement target of `Task` |
| `Task` | tasks from the HTTP handler through the agents to etcd and back | `task`, `task_prefix` |
| `TaskProofs` | proofs about `Task` | |
| `AliveTable` | what `agent_status` promises: every value written is one the agent had since the round began | refinement target of `AliveCheck` |
| `AliveCheck` | `agentAliveCheck`, `GetAgentInfo`, `SimpleUpdate` and the connection pool | `alive` |
| `AliveCheckProofs` | proofs about `AliveCheck` | |
| `Presence` | agent and server composed over their connections, with time | `presence`, `presence_zone` |
| `PresenceProofs` | proofs about `Presence` | |
| `Discovery` | `ClientInit`, `ClientDiscovery`, the keep-alive goroutine, etcd's leases | `host` |
| `Capture` | `PcapDump`, `CaptureStart`, `CloseCapture` and gopacket's reader | `host` |
| `Host` | one process: `Discovery` and `Capture` composed | `host` |
| `HostProofs` | proofs about `Host` | |
| `MC*` | the instances for TLC | |

`Agent` and `TcpServer` abstract a connection to whole messages and a `Valid`
flag; `Framing` shows that a connection deserves that. Definitions whose comment
begins with "Mutant" are wrong variants of the definition that follows them.
They are not part of any specification; replacing the definition by its variant
makes the named property fail, which shows that the property looks at the code.

### Framing

`stream` is every byte the kernel accepted, `readPos` how many `Conn.Read` has
returned; `sent`, `starts`, `delivered` and `cut` are histories. Writing takes
one step per byte, so `GetMsg` sees every possible prefix of a frame; a read
returns between one and `ReadChunk` bytes. `MsgLength` is the `uint32` sum of the
code and wraps. `WriteFail` is a write that stops half way: `SendMsg` sets `Valid`
(here `cut # 0`) and unlocks, and the connection stays open for a sender that is
already past its test of `Valid`. The tests themselves, which the callers make, are left
out: senders may go on here after a failed write, which is more than the goroutines of an
agent do.
`MsgsAssumption` keeps payloads below the length at which the `uint32` sum wraps. Nothing
in the program does (`RemoteFileSend` puts a file of any size into a message); what the
properties say is said of payloads below it.

### TcpServer

`pc` is the station of each connection's `HandleConn` (`judge` and `read` are the
loop of `GetMsg`), `work` holds the `HandleMsg` goroutines, `call` the `Multicast`
calls. `HandleConn` and `InValidClient` do nothing that blocks while they hold
`ClientLock`, so each of their critical sections is one step; `Multicast` holds it
over many. The age of a heartbeat is abstracted to whether there was one: from
then on the client may be judged too old at any time. `HandleShellRunRspMsg` only
writes to etcd and is part of `OtherMsg`.

`NoCircularWait` is about the two kinds of lock: whoever holds `ClientLock` or a `SendLock`
can go on, or waits for somebody who can. It would fail for a `SendMsg` that returns
without unlocking, or for a handler that takes `ClientLock` while it holds a `SendLock`.
`RegistrySpec` hides the locks: to the callers a connection is new, registered or gone,
and a call has its effect when the range over `Clients` ends, not when it starts; nothing
can be registered or removed between the first write and the last.

### Agent

`main` is the place of `RunAgent`, `wg` the WaitGroup's counter, `pc` the station of
each goroutine. `StartAgent` starts them one at a time while those already
started run. `Valid` is read and written without a lock in the code; the model
lets each read see the latest write, which is what the loops, all of which pass
through system calls between two reads, observe. A failed read of etcd is the
empty string. `Panic` is the end of the process, possible at any time: the goroutines of
`ClientDiscovery`, which are not part of a session, dereference nil when the lease is lost;
a session's own goroutines panic on an address without a port (`StartTcp`), a capture
handle that could not be opened, a failed registration of collected data, or a script
name without a dot. Nothing in the repository starts the process again.

### Task

`stage` is the place of each call of `RemoteShellRun`, `RemoteScriptRun` or
`RemoteFileSend`; `list` and `result` are the keys under `/task/result/<id>/` in etcd;
`inbox` and `outbox` are the two directions of an agent's connection, lost when it
breaks; `handling` holds the server's `HandleMsg` goroutines, which run in any order;
`query` is a call of `GetShellResult`, one read of etcd per step. `Multicast` is one
step because `TcpServer` implements `Registry`, in which it is one, and an agent dials again only when its command has ended
(`SessionIsolation`). A put that returns an error may have been applied. A process that
dies while it runs a command is `EndSilently` followed by `Break`. The response of a script,
for which `HandleMsg` has no case, is dropped (`RefuseRsp`).

The list of a request is what `strings.Split` gives: addresses may repeat, and a comma too
many leaves an empty one. `Multicast` sends a message for each time the list names the
agent. The copies are alike in the program; `Copies` numbers them so that the properties
can tell that none is run twice. `Joined` is what is left of the list after it was joined
into the value of `iplist` and split again: `RemoteShellRun` drops empty addresses at the
front. `GetShellResult` asks for the row of an empty address with the key
`/task/result/<id>/`, a prefix of every key of the task: it finds the first result or, when
there is none, the list itself (`GetSingleCfg`).

`Where` maps a message to a place of `Delivery`: before `Multicast` it is unsent; then it is
at one of the five stations, and gone when it is at none. `Delivery` lets a message move
forward only, and lets one of a shell command go from the way only together with an entry
in `lost`, the history of failures. Its result in etcd may be replaced, as ids collide and
copies share a key, by one other result of the same agent.

### AliveCheck

`Clients` is the registry as a set of addresses, `open` the number of transactions that
hold a connection of the pool. Every call to the database may fail: each early return
of `GetAgentInfo` and `SimpleUpdate` is an action with the connections it gives back.
`ScanBreak` is `rows.Next` returning false because the rows broke off (`rows.Err` is
never looked at). A Commit that reports an error may have been applied, so its outcome
is either `UpdateError` or `Update`. `Restart` ends the server and starts it with an empty
registry and an unchanged table. `failed`, `held` and `quiet` are histories; `held` is what
ties the model to `AliveTable`.

### Presence

One address, as entries of `Clients` do not depend on each other; two connections, the
registered one and the one the agent retries with. Times are ages, which `Tick`
advances, so nothing needs a bound. A heartbeat is its age. `Delay` is the longest a message
travels, and a handler goroutine runs within as long again (its wait for the `SendLock`
included); `LockWait` is the longest `HandleConn` and `InValidClient` wait for `ClientLock`,
which `Multicast` holds over all its writes. A connection that was accepted is not read
from before it is registered, and one that was given up (`GetMsgError`) stays registered
until `InValidClient` has the lock. `Tick` waits for what is due (`Punctual`). Handlers run
in any order: `work` is a set, and an older heartbeat may be taken over after a newer one.
A connection may break silently (`Break`), the server may be restarted, and reading the
timeout from etcd may fail, until `calm`. `Expired` is the comparison of `JudgeValid`: `zone`
is what local time is ahead of UTC, as `Format` writes local time and `Parse` reads UTC, and
`>=` is because the time is cut to whole seconds.

`TimeoutAssumption` says what the timeouts must leave room for: for the read deadlines a
heartbeat period, the time in which a heartbeat is read and handled (`HandledBy`, the
longer of travel and `LockWait`, and the handler's delay) and the travel of the answer; for
the heartbeat timeout a period and twice `HandledBy`. The shipped values of 5, 20 and 60
seconds satisfy it while `HandledBy + Delay` is less than 15 seconds. They do not while
`Multicast` waits out `writetimeout` (50 seconds) for an agent that does not read: during
such a call the server may lose an agent that has just connected, and the properties say
nothing of it. Both bounds are tight: with
one unit less of either timeout TLC finds `HealthyStays` violated.

### Discovery, Capture, Host

`main` goes through `ColInit`, `ClientInit` and `AgentInitLog` to the ten calls of
`ClientDiscovery`, and each of these may panic: the name that `GetLocalIp` dials is not
resolved, the output of `lsmem` has fewer fields than `GetMem` takes, etcd does not answer,
the log file cannot be opened (its name is empty when etcd could not be read).
etcd is external: a lease that is not kept alive may expire, which removes the keys put
with it, and a put replaces the lease of a key. Nobody keeps the lease alive before the
first `ClientDiscovery`, so it may expire then too. `KeepAliveLost` is the closed channel: the
code tests the channel, not the response, and dereferences nil, which ends the process.
All keep-alive goroutines of a process wait on the same lease and are one action. An
operator sets the switch without a lease.

`pc` is the place of `PcapDump` and `CaptureStart`; per handle there is whether it is open,
whether `Close` has set `stop`, where its reader goroutine is, and how many packets the
channel holds. The reader is modelled from the copy of gopacket in `src/vender`: it holds
the mutex of the handle while it is in libpcap, not while it sends to the channel. A
capture that ends by an error leaves its handle, reader and channel behind. The session's
`Valid` is left to `Agent`. `Host` joins both: `Capture` reads the switch that `Discovery`
put, and a panic of either ends the process, which may start again at any time.

## Runs

| Run | Instance | States | Shows |
|---|---|---|---|
| `framing` | two senders, two messages from three, two-valued bytes (a `uint32` has 16 values), reads of up to 13 bytes | 124,010 | `InOrder`, `NoPanic`, refinement of `MsgChannel`, and, under fairness, `AllDelivered` |
| `framing_truncated` | the same | violation | `ReceivedWasSent` fails after a write that failed half way |
| `server` | two connections of one agent, one of another, one without an id; one message handler, two `Multicast` callers with a repeated address | 1,562,520 | `RegistryMatchesHandlers`, `ExclusiveWrite`, `MulticastExact`, `NoCircularWait`, no deadlock |
| `server_live` | two connections of one agent, one handler, two callers | 20,176 | refinement of `Registry`; `InvalidClientGoes`, `MulticastReturns` |
| `agent` | one detector instead of two | 28,236 | `SessionIsolation`, `FreshSession`, `InvalidIsFinal`, `AgentInv`; `Reconnects` when commands and captures end |
| `agent_capture` | the same, captures need not end | violation | `Reconnects` fails: a capture keeps the dead session |
| `task` | a shell command that names an agent twice and an empty address, a script and a file, two ids, two agents of which one's address starts with the other's | 406,266 | `ResultsAuthentic`, `ListBeforeResults`, `AnswerFromTask`, `OncePerMention`, refinement of `Delivery`; `Answered` when commands end |
| `task_prefix` | two shell commands | violation | `OwnOutput` fails: a prefix read finds another agent's result |
| `alive` | three agents, three rows (one agent is not listed, one row has no agent), a pool of two | 129,120 | `PoolAccounts`, `QuietRoundAgrees`, `RoundsEnd`, `Converges`, refinement of `AliveTable` |
| `presence` | two connections, period 1, delay 1, lock wait 2, timeouts 6 and 8, zones -9, 0 and 9 | 609,022 | `HealthyStays`, `GoneIsForgotten`, `Returns` |
| `presence_zone` | the same | violation | `HeartbeatsKeep` fails where local time is behind UTC |
| `host` | two keys, two leases, two handles, a channel of one | 75,324 | `KeysKept`, `QuietStart`, `NoUseAfterClose`, `RangedIsOpen`, `Reregisters`, `GoneIsUnlisted`, `OffEnds`, `LeftBehindStalls` |

### Bounds

- `Framing`: two messages suffice for every meeting of a frame with its
  predecessor (the rest of one read, the header of the next split in any way, the
  next frame complete in the buffer); `ReadChunk` 13 lets one read return a whole
  frame and the next one's length field. The longest payload is the longest for
  which the length does not wrap; payloads beyond that are excluded by
  `MsgsAssumption`.
- `TcpServer`: a reconnecting agent (two connections, one id) is the case in which
  removal by id could hit the wrong entry; a second agent makes `Multicast` range
  over more than one client; two callers make it compete with itself. One handler
  slot is enough for a handler to outlive its connection and to compete with a
  caller for a `SendLock`. In `server_live` both connections have one id, so at most
  one client is registered at a time; that a `Multicast` over several has its effect
  at one moment is `ServerRefinesRegistry`, proved for any number.
- `Agent`: nothing is bounded, the number of sessions included. The passing
  instance leaves out one of the two detectors, which are the same loop; the
  proofs cover any list of goroutines.
- `Task`: with two ids two draws collide or do not. The shell command names one agent
  twice, with an empty address between, in the order in which a stale row would show;
  the file goes to the same agent, so that commands wait behind each other, and the
  script to the other one. Disconnections are not bounded. `task_prefix` has two shell
  commands, one of them to the agent whose address starts with the other's.
- `AliveCheck`: rows and agents that match, an agent that is not listed and a row
  without an agent are all the cases of the comparison. A pool of two is used up
  by failed queries, and one failed query leaves it usable. Nothing else is bounded.
- `Presence`: two connections, as a third can be dialled only after one of the two
  is forgotten at both ends. A delay of one lets two heartbeats be on the way or in
  handlers together, which is what overtaking needs; a lock wait longer than the delay
  makes an accepted connection unread for longer than messages travel; the timeouts
  are the smallest that `TimeoutAssumption` allows. The zones are beyond every timeout on both sides.
- `Host`: two leases are the current one and that of the process before; two
  handles are the one in use and one left behind (a third capture has to wait for
  a free handle, or for `OpenLive` to fail); a channel of one is full and empty. One
  of the two announced keys is also collected, the other is the switch.

`Framing`, `Agent` and `Host` may stop (nobody has to send; the process may die), so
deadlock is not checked there. It is checked in the other passing runs.

### Fairness

- Goroutines that can run do. Reads and writes end by their deadlines
  (`SetReadDeadline`, `SetWriteDeadline`), hence weak fairness for them.
- A goroutine that waits for a `sync.Mutex` gets it if it is released again and
  again, as Go hands the mutex to a waiter after a millisecond: strong fairness
  for the lock steps.
- Nobody has to connect, send or call `Multicast`.
- In the agent, etcd answers or fails and detections end. Commands
  (`CommandsEnd`) and captures (`CapturesEnd`) have no deadline in the code;
  that they end is an assumption on the environment, stated apart, and
  `agent_capture` shows what happens without the second.
- In `Task` the goroutines of agents and server run and commands end, as above:
  `Listen` of each agent, the reader of each connection, and the `HandleMsg` goroutines
  taken together. Nobody has to reconnect or to query.
- In `AliveCheck` the goroutine runs and every database call returns, with a result
  or an error; `Begin` alone may wait for ever, when no connection is free.
- In `Presence` time goes on, and the goroutines of a session that was given up
  return (`AgentClose`), which is the assumption on commands and captures again.
- In `Host` goroutines run, leases that are not kept alive expire, and packets that
  match the filter keep coming: `CaptureStart` looks at the switch only when it has
  received one, so `OffEnds` needs it. Writes to the dump server have no deadline and
  need not return; `OffEnds` states as its own hypothesis that they do. Nobody has to
  start the process again, and a start may fail for reasons of the host;
  `Reregisters` states as hypotheses that it is started again and that starts fail so
  only finitely often.

## Findings

1. *A message nobody sent* (`framing_truncated`). After a write that failed half
   way the connection stays open and the next frame is taken for the rest of the
   first.
2. *A capture keeps a dead session* (`agent_capture`). `wg.Wait` waits for
   `PcapDump`, whose capture loop never looks at `Valid`: the agent stays
   disconnected for as long as packets arrive and the switch is on.
3. *Another agent's output* (`task_prefix`). `GetSingleCfg` reads with a prefix: until
   `10.0.0.1` has answered, its row shows what `10.0.0.11` printed, as a success.
4. *Heartbeats that do not count* (`presence_zone`). `Heartbeat` writes local time,
   `JudgeValid` reads it as UTC: where local time is behind UTC by more than the heartbeat
   timeout, the server drops every agent after its first heartbeat, again and again, and
   logs that the heartbeats stopped. Ahead of UTC `JudgeValid` never finds a client too
   old in time, and the read deadline alone forgets it (`GoneIsForgotten` holds in every
   zone).

Three more behaviours are worth knowing, which no run is needed to see. A switch that etcd
does not return reads as `""`, which is not `"OFF"`, so detections and captures start
(`agent.go:158`); `QuietStart` has it as an exception. The branch of `ClientDiscovery` that
logs a lost lease (`etcdmgt.go:95`) tests the channel instead of the response, so it is never
taken and the next line ends the process (`KeepAliveLost`). Ten failed queries of the alive
check use up the pool, and the check hangs in `Begin` for good (`RoundsEnd` and `Converges`
name it as the one exception).

## Proofs

All theorems are of the form `Spec => []Inv` or `Spec => [][A]_vars`, or a
refinement, for every value of the constants that satisfies the named
assumptions.

- **`FramingProofs`**. `InOrder` is not inductive: nothing in it says where in the
  stream the next frame begins. `IInv` adds that only the holder of `SendLock` has
  bytes to write (`LockInv`), that frames before the first failed write lie end to
  end (`StartsInv`, `WriteInv`), that the stream holds their bytes (`StreamInv`), and
  that `ReadBuf` is the stream from the end of the last delivered frame on, with
  `ReadMsgPayloadLth` the number at its front (`ReadInv`). The length field is
  recovered from its bytes by `Uint32Put`. Theorems: `TypeCorrect`,
  `FramingInvariant`, `FramingCorrect`, `FramingNoPanic`, `FramingRefinesChannel`. Assumptions: a byte has
  at least two values, reads return at least one byte, no frame length wraps.
- **`TcpServerProofs`**. `ServerInv` adds to the registry property who holds
  `ClientLock` and each `SendLock`, and what a `Multicast` has sent given what its range
  has visited (`RangeOK`); the registry cannot change under a `Multicast` because
  removal needs `ClientLock`. `HolderInv` adds that a `SendLock` is held by a goroutine that is
  writing to that connection, from which `NoCircularWait` follows: that goroutine is in
  `Conn.Write` and waits for nobody, and the holder of `ClientLock` waits for a `SendLock` at most. The refinement (`ServerRefinesRegistry`) goes step by step: the handlers change the
  status of one connection (`HandlerRefines`), the step of `Multicast` with which its range
  ends is the one moment of the call, at which `MulticastExact` says what was sent
  (`SendRefines`, `CallerRefines`), and all else is a stutter. Theorems: `ServerInvariant`, `ServerTypes`, `RegistryCorrect`,
  `WritesExclusive`, `MulticastCorrect`, `OwnerRemoves` (an entry of `Clients` goes only by the
  handler of its own connection), `LocksMoveOn`, `ServerRefinesRegistry`.
- **`AgentProofs`**. `AgentInv`: `wg` is the number of running goroutines, so
  `wg.Wait` returning means none runs; the lock is held by the goroutine that
  writes; a goroutine that returned left `Valid` false. Theorems: `AgentInvariant`, `AgentTypes`,
  `SessionsIsolated`, `SessionsFresh`, `InvalidStays`. Assumption: the list of
  goroutines names none twice.
- **`TaskProofs`**. That results are authentic is not inductive: a response is stored
  long after its request was sent. `TaskInv` adds that whatever is in a queue, running
  or being handled was sent by `Multicast` to the agent that has it (`TransitInv`), that
  ids are drawn once and addresses stored before sending (`RequestInv`), and that a stored
  list is one a request with that id joined (`ListInv`, which the row of an empty address
  needs). That a prefix read has a first match, for any set of addresses, rests on the
  natural numbers being well-founded (`FirstMatch`). `OncePerMention` is proved on top of it:
  a message is at one of five stations of its way (inbox, running, outbox, being handled,
  stored) and once in a queue; a step leaves it there, drops it or moves it (`Keep`, `Shift`),
  and `Multicast` appends distinct copies (`CopiesAre`, `ConcatQueue`) and only when they are
  nowhere, as everything that is somewhere was sent (`AtSent`). As there are as many messages
  for an agent as the request names it, that bounds how often the agent runs the command.
  The refinement of `Delivery` needs both: by `OncePerMention` the place of a message is
  determined by any station it is found at (`WhereIs`), and by `ResultsAuthentic` a result
  that is overwritten stood under one id only, so it is gone afterwards and no other result
  is (`HandleRefines`). There is one lemma per kind of step (`MulticastRefines`, `RunRefines`,
  `EndRefines`, `BreakRefines`, `GetRspRefines`, `HandleRefines`, `QuietSteps`). Theorems:
  `TaskInvariant`, `TaskTypes`, `OncePerMentionCorrect`, `ResultsCorrect`, `ResultsListed`,
  `AnswersCorrect`, `TaskRefinesDelivery`. Assumptions: different keys have different places in
  the order of keys; lists of addresses are any finite sequences, with repeated and empty
  ones.
- **`AliveCheckProofs`**. `AliveInv` adds to `PoolAccounts` that what is about to be written
  was true when the agents were listed (`SnapshotInv`) and, for a round that nothing has
  disturbed, that the list is complete and the rows that had their turn agree with the
  registry (`QuietInv`). Theorems: `AliveInvariant`, `AliveTypes`, `PoolCorrect`,
  `QuietRoundCorrect`, `AliveRefinesTable`. Assumption: the pool has at least one connection.
- **`PresenceProofs`**. That a healthy session is not timed out is about news on the way: the
  time the server knows of may be old while the heartbeat that makes up for it is in the
  network, in `ReadBuf` or in a handler. `NewsInv` says so of the heartbeat time, the read
  deadline of the server and that of the agent; `GoneInv` relates the silence of a connection
  to the age of what is still on the way. Theorems: `PresenceInvariant`, `PresenceTypes`,
  `OneConnectionCorrect`, `GoneForgotten`, `HealthyKept`, for all periods, delays, zones and
  timeouts under `TimeAssumption` and `TimeoutAssumption`.
- **`HostProofs`**. `HostInv` adds that what was announced so far hangs on the current lease or
  on none (`Announced`, from which `KeysKept` follows), that the switch stands at OFF until
  there is a reason to capture (`SwitchStands`), and that the handle of a capture is open
  (`HandleOpen`). Theorems: `HostInvariant`, `HostTypes`, `KeysKeptCorrect`,
  `NoUseAfterCloseCorrect`, `RangedIsOpenCorrect`, `QuietStartCorrect`. Assumptions: there is a
  first key, `pcapswitch` is announced by main and not collected, the channel has room for at
  least one packet.

Every invariant that a passing run checks is also proved, and so are the four refinements
(`MsgChannel`, `Registry`, `Delivery`, `AliveTable`), the action properties and, for every
module, the type invariant `TypeOK`. Only model-checked are the liveness properties
(`AllDelivered`, `InvalidClientGoes`, `MulticastReturns`, `Reconnects`, `Answered`,
`RoundsEnd`, `Converges`, `Returns`, `Reregisters`,
`GoneIsUnlisted`, `OffEnds`, `LeftBehindStalls`), as fairness is out of the prover's reach.
Only proved, and listed in no configuration, are `EntryRemovedByOwner`, `OneConnection`, the type
invariants and the inductive invariants other than `AgentInv`.

## Not modelled

- **Configuration file** (`util/config`): read once, before anything else runs, by a pure
  function of the file. Its values are constants of the models.
- **Logging, error constants, HTTP helper, generated protobuf code**: I/O, constants and
  encodings. Payloads are opaque.
- **Inside a detection** (`pingmesh.go`, `tcpmesh.go`, `influx.go`): sequential code that sends
  probes and writes points to InfluxDB; nothing the agent keeps depends on it. `Agent` has a
  detection as an interval that ends or panics. The checksum of an echo packet is data.
- **What commands print and what is collected** (`cmdrun.go`, `pluginexec.go`,
  `osbasiccollect.go`): data. How they end is in `Agent` and `Task`.
- **Code nothing calls**: `WatchCfg`, `SimpleQuery`, `AllNoArgQuery`, `SimpleInsert` of the
  MySQL layer.
- **Vendored libraries** (`src/vender`): by far the largest part of the source tree, and not
  this program's code. Only the reader goroutine and the handle of gopacket are modelled,
  because the capture relies on how they end. Counted over the whole tree, the modelled
  share is therefore below one percent; of the program itself (`src/src` without the
  generated code) it is a little under half of the lines, and most of the rest is logging.
- **How many goroutines and handles pile up**: nothing in the code bounds the keep-alive
  goroutines or the captures left behind, so there is no bound to state. `Host` shows what
  each of them does.
