-------------------------- MODULE AliveCheckProofs --------------------------
(***************************************************************************)
(* The alive check keeps its invariant, and the table it writes is the one *)
(* module AliveTable promises, for any agents, rows and size of the pool.  *)
(***************************************************************************)
EXTENDS AliveCheck, TLAPS

\* The steps that neither agents nor operators take, nor Wake or Update: they
\* leave the registry, the table and the histories of the rows alone.
Inner ==
  \/ Begin \/ BeginError \/ PrepareError \/ Query \/ QueryError
  \/ (\E ip \in Rows : Scan(ip)) \/ ScanError \/ ScanEnd \/ ScanBreak
  \/ ListAliveAgents \/ UpdateBegin \/ RoundEnd
  \/ \E ip \in Rows : UpdateBeginError(ip) \/ UpdateError(ip)

\* A status is 0 or 1.
LEMMA AliveType == \A ip, clients : Alive(ip, clients) \in {0, 1}
BY DEF Alive

\* Every step is one of four kinds.
LEMMA NextCases ==
  ASSUME Next
  PROVE  \/ Inner \/ Wake \/ (\E ip \in Rows : Update(ip))
         \/ (\E id \in Ids : Register(id) \/ Remove(id)) \/ Restart
BY DEF Next, Check, Fault, Environment, Inner

\* The invariant holds when the server starts.
LEMMA InitInv == Init => AliveInv
<1> SUFFICES ASSUME Init PROVE AliveInv
  OBVIOUS
<1>1. TypeOK /\ PoolAccounts
  <2>1. held \in [Rows -> SUBSET {0, 1}]
    BY DEF Init
  <2>2. open \in 0 .. MaxOpenConns /\ failed \in 0 .. MaxOpenConns /\ PoolAccounts
    BY PoolAssumption DEF Init, PoolAccounts
  <2> QED
    BY <2>1, <2>2 DEF Init, TypeOK
<1>2. \A ip \in Rows : Alive(ip, Clients) \in held[ip]
  BY DEF Init, Alive
<1>3. SnapshotInv /\ QuietInv
  BY DEF Init, SnapshotInv, QuietInv
<1> QED
  BY <1>1, <1>2, <1>3 DEF AliveInv

\* A change of the registry keeps the type of the histories.
LEMMA ChangeType ==
  ASSUME TypeOK, NEW clients, Change(clients)
  PROVE  held' \in [Rows -> SUBSET {0, 1}]
<1>1. \A ip \in Rows : held[ip] \cup {Alive(ip, clients)} \in SUBSET {0, 1}
  BY AliveType DEF TypeOK
<1> QED
  BY <1>1 DEF Change

\* The part of the types that is about the pool, and the rest.
PoolType == open \in 0 .. MaxOpenConns /\ failed \in 0 .. MaxOpenConns
DataType ==
  /\ Clients \subseteq Ids
  /\ alive \in [Rows -> {0, 1}]
  /\ pc \in {"sleep", "begin", "query", "scan", "list", "update", "exec"}
  /\ shouldagents \subseteq Rows
  /\ actualagents \subseteq Ids
  /\ held \in [Rows -> SUBSET {0, 1}]

\* A transaction begins only when a connection is free, and every path but the
\* failed query ends it.
LEMMA PoolStep ==
  ASSUME PoolType, PoolAccounts, Next
  PROVE  PoolType' /\ PoolAccounts'
<1> USE PoolAssumption DEF PoolType, PoolAccounts, Goto, Fail
<1>1. CASE Begin \/ BeginError \/ PrepareError \/ Query \/ QueryError
  BY <1>1 DEF Begin, BeginError, PrepareError, Query, QueryError
<1>2. ASSUME NEW ip \in Rows, Scan(ip) \/ UpdateBeginError(ip) \/ UpdateError(ip)
      PROVE  PoolType' /\ PoolAccounts'
  BY <1>2 DEF Scan, UpdateBeginError, UpdateError
<1>3. CASE ScanError \/ ScanEnd \/ ScanBreak
  BY <1>3 DEF ScanError, ScanEnd, ScanBreak
<1>4. CASE ListAliveAgents \/ UpdateBegin \/ RoundEnd
  BY <1>4 DEF ListAliveAgents, UpdateBegin, RoundEnd
<1>5. CASE Wake
  BY <1>5 DEF Wake
<1>6. ASSUME NEW ip \in Rows, Update(ip) PROVE PoolType' /\ PoolAccounts'
  BY <1>6 DEF Update
<1>7. ASSUME NEW id \in Ids, Register(id) \/ Remove(id) PROVE PoolType' /\ PoolAccounts'
  BY <1>7 DEF Register, Remove
<1>8. CASE Restart
  BY <1>8 DEF Restart
<1> QED
  BY <1>1, <1>2, <1>3, <1>4, <1>5, <1>6, <1>7, <1>8, NextCases DEF Inner

\* The other variables keep their types.
LEMMA DataStep ==
  ASSUME TypeOK, Next
  PROVE  DataType' /\ quiet' \in BOOLEAN
<1> USE DEF TypeOK, DataType, Goto, Fail
<1>1. CASE Begin \/ BeginError \/ PrepareError \/ Query \/ QueryError
  BY <1>1 DEF Begin, BeginError, PrepareError, Query, QueryError
<1>2. ASSUME NEW ip \in Rows, Scan(ip) \/ UpdateBeginError(ip) \/ UpdateError(ip)
      PROVE  DataType' /\ quiet' \in BOOLEAN
  BY <1>2 DEF Scan, UpdateBeginError, UpdateError
<1>3. CASE ScanError \/ ScanEnd \/ ScanBreak
  BY <1>3 DEF ScanError, ScanEnd, ScanBreak
<1>4. CASE ListAliveAgents \/ UpdateBegin \/ RoundEnd
  BY <1>4 DEF ListAliveAgents, UpdateBegin, RoundEnd
<1>5. CASE Wake
  BY <1>5, AliveType DEF Wake
<1>6. ASSUME NEW ip \in Rows, Update(ip) PROVE DataType' /\ quiet' \in BOOLEAN
  BY <1>6, AliveType DEF Update
<1>7. ASSUME NEW id \in Ids, Register(id) \/ Remove(id)
      PROVE  DataType' /\ quiet' \in BOOLEAN
  <2>1. held' \in [Rows -> SUBSET {0, 1}]
    BY <1>7, ChangeType DEF Register, Remove
  <2> QED
    BY <1>7, <2>1 DEF Register, Remove, Change
<1>8. CASE Restart
  <2>1. held' \in [Rows -> SUBSET {0, 1}]
    BY <1>8, ChangeType DEF Restart
  <2> QED
    BY <1>8, <2>1 DEF Restart, Change
<1> QED
  BY <1>1, <1>2, <1>3, <1>4, <1>5, <1>6, <1>7, <1>8, NextCases DEF Inner

\* Types and the pool.
LEMMA TypeAndPool ==
  ASSUME TypeOK, PoolAccounts, [Next]_vars
  PROVE  TypeOK' /\ PoolAccounts'
<1>1. CASE Next
  BY <1>1, PoolStep, DataStep DEF TypeOK, PoolType, DataType
<1>2. CASE UNCHANGED vars
  BY <1>2 DEF vars, TypeOK, PoolAccounts
<1> QED
  BY <1>1, <1>2

\* What the histories say of the registry and of the snapshot.
HeldInv == \A ip \in Rows : Alive(ip, Clients) \in held[ip]

LEMMA HeldStep ==
  ASSUME TypeOK, HeldInv, SnapshotInv, [Next]_vars
  PROVE  HeldInv' /\ SnapshotInv'
<1> USE DEF TypeOK, HeldInv, SnapshotInv
<1>1. CASE Inner
  BY <1>1 DEF Inner, Goto, Fail, Begin, BeginError, PrepareError, Query, QueryError, Scan,
              ScanError, ScanEnd, ScanBreak, ListAliveAgents, UpdateBegin, RoundEnd,
              UpdateBeginError, UpdateError
<1>2. CASE Wake
  BY <1>2 DEF Wake
<1>3. ASSUME NEW ip \in Rows, Update(ip) PROVE HeldInv' /\ SnapshotInv'
  BY <1>3 DEF Update
<1>4. ASSUME NEW id \in Ids, Register(id) \/ Remove(id) PROVE HeldInv' /\ SnapshotInv'
  BY <1>4 DEF Register, Remove, Change
<1>5. CASE Restart
  BY <1>5 DEF Restart, Change
<1>6. CASE UNCHANGED vars
  BY <1>6 DEF vars
<1> QED
  BY <1>1, <1>2, <1>3, <1>4, <1>5, <1>6, NextCases

LEMMA QuietStep ==
  ASSUME TypeOK, QuietInv, [Next]_vars
  PROVE  QuietInv'
<1> USE DEF TypeOK, QuietInv, QuietRoundAgrees, Agrees
<1>1. CASE Inner
  BY <1>1 DEF Inner, Goto, Fail, Begin, BeginError, PrepareError, Query, QueryError, Scan,
              ScanError, ScanEnd, ScanBreak, ListAliveAgents, UpdateBegin, RoundEnd,
              UpdateBeginError, UpdateError
<1>2. CASE Wake
  BY <1>2 DEF Wake
<1>3. ASSUME NEW ip \in Rows, Update(ip) PROVE QuietInv'
  BY <1>3 DEF Update
<1>4. ASSUME NEW id \in Ids, Register(id) \/ Remove(id) PROVE QuietInv'
  BY <1>4 DEF Register, Remove, Change
<1>5. CASE Restart
  BY <1>5 DEF Restart, Change
<1>6. CASE UNCHANGED vars
  BY <1>6 DEF vars
<1> QED
  BY <1>1, <1>2, <1>3, <1>4, <1>5, <1>6, NextCases

\* The inductive invariant: types, the account of the pool, and what the
\* snapshot and the rows already written have to do with the registry.
THEOREM AliveInvariant == Spec => []AliveInv
<1>1. AliveInv /\ [Next]_vars => AliveInv'
  BY TypeAndPool, HeldStep, QuietStep DEF AliveInv, HeldInv
<1> QED
  BY InitInv, <1>1, PTL DEF Spec

\* The registry, the pool and the round of aliveCheck keep their types.
THEOREM AliveTypes == Spec => []TypeOK
<1>1. AliveInv => TypeOK
  BY DEF AliveInv
<1> QED BY AliveInvariant, <1>1, PTL

\* Every path of GetAgentInfo and SimpleUpdate but the failed query gives its
\* connection back.
THEOREM PoolCorrect == Spec => []PoolAccounts
<1>1. AliveInv => PoolAccounts
  BY DEF AliveInv
<1> QED
  BY AliveInvariant, <1>1, PTL

\* A quiet round of agentAliveCheck leaves the table in agreement with the
\* registry.
THEOREM QuietRoundCorrect == Spec => []QuietRoundAgrees
<1>1. AliveInv => QuietRoundAgrees
  BY DEF AliveInv, QuietInv, QuietRoundAgrees
<1> QED
  BY AliveInvariant, <1>1, PTL

\* agentAliveCheck implements the table: what it writes for an agent was true
\* of the agent since the round began.
THEOREM AliveRefinesTable == Spec => TableSpec
<1>1. Init => Table!Init
  BY DEF Init, Table!Init
<1>2. AliveInv /\ [Next]_vars => [Table!Next]_(Table!tableVars)
  <2> SUFFICES ASSUME AliveInv, [Next]_vars
               PROVE  Table!Next \/ UNCHANGED <<Clients, alive, held>>
    BY DEF Table!tableVars
  <2> USE DEF AliveInv, TypeOK
  <2>1. CASE Inner
    BY <2>1 DEF Inner, Goto, Fail, Begin, BeginError, PrepareError, Query, QueryError, Scan,
                ScanError, ScanEnd, ScanBreak, ListAliveAgents, UpdateBegin, RoundEnd,
                UpdateBeginError, UpdateError
  <2>2. CASE Wake
    BY <2>2 DEF Wake, Table!Next, Table!Round, Table!Status, Alive
  <2>3. ASSUME NEW ip \in Rows, Update(ip) PROVE Table!Next
    BY <2>3 DEF Update, SnapshotInv, Table!Next, Table!Record
  <2>4. ASSUME NEW id \in Ids, Register(id) \/ Remove(id) PROVE Table!Next
    BY <2>4 DEF Register, Remove, Change, Table!Next, Table!Change, Table!Status, Alive
  <2>5. CASE Restart
    BY <2>5 DEF Restart, Change, Table!Next, Table!Change, Table!Status, Alive
  <2>6. CASE UNCHANGED vars
    BY <2>6 DEF vars
  <2> QED
    BY <2>1, <2>2, <2>3, <2>4, <2>5, <2>6, NextCases
<1> QED
  BY AliveInvariant, <1>1, <1>2, PTL DEF Spec, TableSpec, Table!Spec
=============================================================================
