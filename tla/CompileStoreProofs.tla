------------------------- MODULE CompileStoreProofs -------------------------
(***************************************************************************)
(* Theorems about CompileStore for every set of sources, configurations,   *)
(* policies and runs and every value of the bounds.                        *)
(***************************************************************************)
EXTENDS CompileStore, TLAPS

-----------------------------------------------------------------------------
(* Tables: what Put, an update in place and a map over the rows preserve.  *)

\* A row that is inserted or replaced leaves a table a table.
LEMMA PutTable ==
  ASSUME NEW table, NEW S, NEW T, NEW key \in S, NEW row \in T,
         IsTable(table, S, T)
  PROVE  IsTable(Put(table, key, row), S, T)
BY DEF IsTable, Put

\* So does an update of a row that may or may not be there.
LEMMA UpdateTable ==
  ASSUME NEW table, NEW S, NEW T, NEW key,
         NEW row, key \in DOMAIN table => row \in T,
         IsTable(table, S, T)
  PROVE  IsTable([table EXCEPT ![key] = row], S, T)
BY DEF IsTable

\* The empty table.
LEMMA EmptyIsTable ==
  ASSUME NEW S, NEW T
  PROVE  IsTable(EmptyTable, S, T)
BY DEF IsTable, EmptyTable

\* A row is of the table's row type.
LEMMA RowOf ==
  ASSUME NEW table, NEW S, NEW T, IsTable(table, S, T), NEW k \in DOMAIN table
  PROVE  k \in S /\ table[k] \in T
BY DEF IsTable

\* The backoff is a number of seconds between 1 and 60.
LEMMA BackoffType ==
  ASSUME NEW n \in Nat
  PROVE  Backoff(n) \in 1..60
<1>1. CASE n <= 1
  BY <1>1 DEF Backoff
<1>2. CASE n > 1
  <2>1. Lesser(n, 7) \in 2..7
    BY <1>2 DEF Lesser
  <2>2. \A i \in 2..7 : <<1, 2, 4, 8, 16, 32, 60>>[i] \in 1..60
    OBVIOUS
  <2>. QED
    BY <1>2, <2>1, <2>2 DEF Backoff
<1>. QED
  BY <1>1, <1>2

LEMMA AgeType == ASSUME NEW t \in Int PROVE Age(t) \in Int
BY TimeAssumption DEF Age, LongAgo

-----------------------------------------------------------------------------
(* Type correctness, action by action.                                     *)

\* A source's own parts.
LEMMA SourceParts ==
  ASSUME NEW s \in Source, NEW c \in Config
  PROVE  /\ s.entity \in Entity /\ s.rev \in Revision /\ s.rev \in Nat \ {0}
         /\ Snap(s) \in Snapshot /\ Hash(s, c) \in ContentHash
         /\ KeyOf(s, c) \in TaskKey
         /\ [rev |-> s.rev, val |-> s.facts]
              \in [rev : Revision, val : {x.facts : x \in Source}]
BY SourceAssumption
   DEF Entity, Revision, Snapshot, ContentHash, KeyOf, TaskKey, Pack

\* Any one column of a task row may be set to a value of its type.
LEMMA TaskEdits ==
  ASSUME NEW t \in Task
  PROVE  /\ \A x \in {"pending", "running", "succeeded", "failed", "dead"} :
              [t EXCEPT !.status = x] \in Task
         /\ \A x \in {"none", "accepted", "quarantined", "failed", "skipped",
                      "superseded"} : [t EXCEPT !.result = x] \in Task
         /\ \A x \in AttemptId \cup {Null} : [t EXCEPT !.token = x] \in Task
         /\ \A x \in Int : [t EXCEPT !.next = x] \in Task
         /\ \A x \in Snapshot : [t EXCEPT !.snap = x] \in Task
         /\ \A x \in Policy : [t EXCEPT !.policy = x] \in Task
         /\ \A x \in Nat :
              /\ [t EXCEPT !.expires = x] \in Task
              /\ [t EXCEPT !.reserved = x] \in Task
              /\ [t EXCEPT !.attempts = x] \in Task
              /\ [t EXCEPT !.retries = x] \in Task
              /\ [t EXCEPT !.recompiles = x] \in Task
         /\ \A x \in Nat \ {0} :
              /\ [t EXCEPT !.id = x] \in Task
              /\ [t EXCEPT !.epoch = x] \in Task
<1>1. /\ \A x \in {"pending", "running", "succeeded", "failed", "dead"} :
           [t EXCEPT !.status = x] \in Task
      /\ \A x \in {"none", "accepted", "quarantined", "failed", "skipped",
                   "superseded"} : [t EXCEPT !.result = x] \in Task
      /\ \A x \in AttemptId \cup {Null} : [t EXCEPT !.token = x] \in Task
  BY DEF Task
<1>2. /\ \A x \in Int : [t EXCEPT !.next = x] \in Task
      /\ \A x \in Snapshot : [t EXCEPT !.snap = x] \in Task
      /\ \A x \in Policy : [t EXCEPT !.policy = x] \in Task
  BY DEF Task
<1>3. \A x \in Nat : /\ [t EXCEPT !.expires = x] \in Task
                     /\ [t EXCEPT !.reserved = x] \in Task
                     /\ [t EXCEPT !.attempts = x] \in Task
  BY DEF Task
<1>4. \A x \in Nat : /\ [t EXCEPT !.retries = x] \in Task
                     /\ [t EXCEPT !.recompiles = x] \in Task
  BY DEF Task
<1>5. \A x \in Nat \ {0} : /\ [t EXCEPT !.id = x] \in Task
                           /\ [t EXCEPT !.epoch = x] \in Task
  BY DEF Task
<1>. QED
  BY <1>1, <1>2, <1>3, <1>4, <1>5

LEMMA FinishType ==
  ASSUME NEW t \in Task,
         NEW status \in {"succeeded", "failed", "dead"},
         NEW result \in {"accepted", "quarantined", "failed", "skipped",
                        "superseded"}
  PROVE  Finish(t, status, result) \in Task
BY TaskEdits DEF Finish

LEMMA PutBackType ==
  ASSUME NEW t \in Task, NEW wait \in Nat
  PROVE  PutBack(t, wait) \in Task
<1>1. wait \in Int
  OBVIOUS
<1>. QED
  BY <1>1, TaskEdits, Zenon DEF PutBack

\* A task row as admission inserts it.
LEMMA NewTaskType ==
  ASSUME NEW s \in Source, NEW c \in Config, NEW p \in Policy, TypeOK
  PROVE  NewTask(s, c, p) \in Task
<1>1. LongAgo \in Int
  BY TimeAssumption DEF LongAgo
<1>. QED
  BY <1>1, SourceParts, PolicyAssumption DEF NewTask, Task, TypeOK

LEMMA InsertTaskType ==
  ASSUME TypeOK, NEW key \in TaskKey, NEW row \in Task, InsertTask(key, row)
  PROVE  IsTable(task', TaskKey, Task) /\ next_id' \in Nat \ {0}
BY PutTable DEF InsertTask, TypeOK

LEMMA WriteFactsType ==
  ASSUME TypeOK, NEW s \in Source, WriteFacts(s), Config # {}
  PROVE  IsTable(facts', Entity,
                 [rev : Revision, val : {x.facts : x \in Source}])
BY SourceParts, PutTable DEF WriteFacts, TypeOK

LEMMA SetHeadType ==
  ASSUME TypeOK, NEW s \in Source, NEW c \in Config, NEW key \in TaskKey,
         NEW epoch \in Nat \ {0}, SetHead(s, c, key, epoch)
  PROVE  IsTable(head', Entity,
                 [rev : Revision, snap : Snapshot, hash : ContentHash,
                  task : TaskKey, epoch : Nat \ {0}])
<1>. DEFINE row == [rev |-> s.rev, snap |-> Snap(s), hash |-> Hash(s, c),
                    task |-> key, epoch |-> epoch]
            Row == [rev : Revision, snap : Snapshot, hash : ContentHash,
                    task : TaskKey, epoch : Nat \ {0}]
<1>1. row \in Row
  BY SourceParts
<1>2. head' = Put(head, s.entity, row)
  BY DEF SetHead
<1>3. IsTable(head, Entity, Row)
  BY DEF TypeOK
<1>. HIDE DEF row, Row
<1>4. IsTable(head', Entity, Row)
  BY <1>1, <1>2, <1>3, PutTable, SourceParts
<1>. QED
  BY <1>4 DEF Row

LEMMA AdmitType ==
  ASSUME TypeOK, NEW s \in Source, NEW c \in Config, NEW p \in Policy,
         NEW force \in BOOLEAN, Admit(s, c, p, force)
  PROVE  TypeOK'
<1>. DEFINE key == KeyOf(s, c)
<1>1. key \in TaskKey
  BY SourceParts
<1>2. 1 \in Nat \ {0}
  OBVIOUS
<1>3. IsTable(facts', Entity, [rev : Revision, val : {x.facts : x \in Source}])
  BY WriteFactsType DEF Admit
<1>4. /\ IsTable(head', Entity,
                 [rev : Revision, snap : Snapshot, hash : ContentHash,
                  task : TaskKey, epoch : Nat \ {0}])
      /\ IsTable(task', TaskKey, Task)
      /\ next_id' \in Nat \ {0}
  <2>1. CASE UpToDate(s, c, force) /\ Skip(s, c, p)
    <3>1. CASE ~(s.rev > page[s.entity].rev)
      BY <2>1, <3>1 DEF Skip, TypeOK
    <3>2. CASE s.rev > page[s.entity].rev /\ key \in DOMAIN task
      <4>1. task[key] \in Task
        BY <3>2, RowOf DEF TypeOK
      <4>2. task' = [task EXCEPT ![key] =
              [task[key] EXCEPT !.status = "succeeded", !.result = "skipped",
                                !.token = Null, !.expires = 0,
                                !.next = LongAgo]]
        BY <2>1, <3>2 DEF Skip, TypeOK, IsTable
      <4>3. [task[key] EXCEPT !.status = "succeeded", !.result = "skipped",
                              !.token = Null, !.expires = 0, !.next = LongAgo]
              \in Task
        <5>1. LongAgo \in Int
          BY TimeAssumption DEF LongAgo
        <5>. QED
          BY <4>1, <5>1, TaskEdits
      <4>4. IsTable(task', TaskKey, Task)
        BY <4>2, <4>3, UpdateTable DEF TypeOK
      <4>5. SetHead(s, c, key, task[key].epoch) /\ UNCHANGED next_id
        BY <2>1, <3>2 DEF Skip
      <4>6. task[key].epoch \in Nat \ {0}
        BY <4>1 DEF Task
      <4>. QED
        BY <1>1, <4>4, <4>5, <4>6, SetHeadType DEF TypeOK
    <3>3. CASE s.rev > page[s.entity].rev /\ key \notin DOMAIN task
      <4>1. /\ InsertTask(key, [NewTask(s, c, p) EXCEPT
                                   !.status = "succeeded",
                                   !.result = "skipped"])
            /\ SetHead(s, c, key, 1)
        BY <2>1, <3>3 DEF Skip
      <4>2. [NewTask(s, c, p) EXCEPT !.status = "succeeded",
                                     !.result = "skipped"] \in Task
        BY NewTaskType, TaskEdits
      <4>3. IsTable(task', TaskKey, Task) /\ next_id' \in Nat \ {0}
        BY <1>1, <4>1, <4>2, InsertTaskType
      <4>. QED
        BY <1>1, <1>2, <4>1, <4>3, SetHeadType
    <3>. QED
      BY <3>1, <3>2, <3>3
  <2>2. CASE key \in DOMAIN task /\ Merge(s, c, p)
    <3>1. task[key] \in Task
      BY <2>2, RowOf DEF TypeOK
    <3>2. \/ task' = task
          \/ task' = [task EXCEPT ![key] =
                [task[key] EXCEPT !.snap = Snap(s), !.policy = p]]
      BY <2>2 DEF Merge, TypeOK, IsTable
    <3>3. [task[key] EXCEPT !.snap = Snap(s), !.policy = p] \in Task
      BY <3>1, SourceParts, TaskEdits
    <3>4. IsTable(task', TaskKey, Task)
      <4>1. IsTable(task, TaskKey, Task)
        BY DEF TypeOK
      <4>2. IsTable([task EXCEPT ![key] =
                       [task[key] EXCEPT !.snap = Snap(s), !.policy = p]],
                    TaskKey, Task)
        BY <3>3, <4>1, UpdateTable
      <4>. QED
        BY <3>2, <4>1, <4>2
    <3>5. task[key].epoch \in Nat \ {0}
      BY <3>1 DEF Task
    <3>. QED
      BY <1>1, <2>2, <3>4, <3>5, SetHeadType DEF Merge, TypeOK
  <2>3. CASE key \in DOMAIN task /\ Restart(s, c, p)
    <3>1. task[key] \in Task
      BY <2>3, RowOf DEF TypeOK
    <3>2. [NewTask(s, c, p) EXCEPT !.id = task[key].id,
                                   !.epoch = task[key].epoch + 1,
                                   !.reserved = task[key].reserved] \in Task
      <4>1. /\ task[key].id \in Nat \ {0} /\ task[key].reserved \in Nat
            /\ task[key].epoch + 1 \in Nat \ {0}
        BY <3>1 DEF Task
      <4>. QED
        BY <4>1, NewTaskType, TaskEdits
    <3>3. IsTable(task', TaskKey, Task)
      BY <2>3, <3>2, UpdateTable DEF Restart, TypeOK
    <3>4. task[key].epoch + 1 \in Nat \ {0}
      BY <3>1 DEF Task
    <3>. QED
      BY <1>1, <2>3, <3>3, <3>4, SetHeadType DEF Restart, TypeOK
  <2>4. CASE InsertTask(key, NewTask(s, c, p)) /\ SetHead(s, c, key, 1)
    <3>1. IsTable(task', TaskKey, Task) /\ next_id' \in Nat \ {0}
      BY <1>1, <2>4, NewTaskType, InsertTaskType
    <3>. QED
      BY <1>1, <1>2, <2>4, <3>1, SetHeadType
  <2>. QED
    BY <2>1, <2>2, <2>3, <2>4 DEF Admit
<1>. QED
  BY <1>3, <1>4 DEF Admit, TypeOK

LEMMA UpsertFactsType ==
  ASSUME TypeOK, NEW s \in Seeded, UpsertFacts(s)
  PROVE  TypeOK'
<1>1. /\ s \in Source /\ s.entity \in Entity
      /\ [rev |-> s.rev, val |-> s.facts]
           \in [rev : Revision, val : {x.facts : x \in Source}]
  BY SourceAssumption DEF Entity, Revision
<1>2. IsTable(facts', Entity, [rev : Revision, val : {x.facts : x \in Source}])
  BY <1>1, PutTable DEF UpsertFacts, TypeOK
<1>. QED
  BY <1>2 DEF UpsertFacts, TypeOK

\* Run and day ledgers.
LEMMA LedgerTypes ==
  ASSUME TypeOK, NEW r \in Run, NEW p \in Policy
  PROVE  /\ IsTable(OpenRun(r, p), Run, Ledger)
         /\ IsTable(OpenDay(p), Nat, Ledger)
<1>1. /\ [limit |-> p.batch_budget, reserved |-> 0] \in Ledger
      /\ p.daily_budget # Null =>
           /\ p.daily_budget \in Nat
           /\ [limit |-> p.daily_budget, reserved |-> 0] \in Ledger
  BY PolicyAssumption DEF Ledger
<1>2. IsTable(OpenRun(r, p), Run, Ledger)
  BY <1>1, PutTable DEF OpenRun, TypeOK
<1>3. ASSUME p.daily_budget # Null, day \in DOMAIN days
      PROVE  IsTable([days EXCEPT ![day].limit = Lesser(@, p.daily_budget)],
                     Nat, Ledger)
  <2>1. days[day] \in Ledger
    BY <1>3, RowOf DEF TypeOK
  <2>2. [days[day] EXCEPT !.limit = Lesser(days[day].limit, p.daily_budget)]
          \in Ledger
    BY <1>1, <1>3, <2>1 DEF Ledger, Lesser
  <2>3. IsTable([days EXCEPT ![day] =
                   [days[day] EXCEPT !.limit =
                      Lesser(days[day].limit, p.daily_budget)]], Nat, Ledger)
    BY <2>2, UpdateTable DEF TypeOK
  <2>. QED
    BY <2>3, <1>3
<1>4. IsTable(OpenDay(p), Nat, Ledger)
  BY <1>1, <1>3, PutTable DEF OpenDay, TypeOK
<1>. QED
  BY <1>2, <1>4

LEMMA ReserveType ==
  ASSUME NEW table, NEW S, IsTable(table, S, Ledger), NEW key, NEW b \in Nat
  PROVE  IsTable(Reserve(table, key, b), S, Ledger)
<1>1. CASE key \in DOMAIN table
  <2>1. table[key] \in Ledger
    BY <1>1, RowOf
  <2>2. [table[key] EXCEPT !.reserved = table[key].reserved + b] \in Ledger
    BY <2>1 DEF Ledger
  <2>3. IsTable([table EXCEPT ![key] =
                   [table[key] EXCEPT !.reserved = table[key].reserved + b]],
                S, Ledger)
    BY <2>2, UpdateTable
  <2>. QED
    BY <1>1, <2>3 DEF Reserve
<1>2. CASE key \notin DOMAIN table
  BY <1>2 DEF Reserve
<1>. QED
  BY <1>1, <1>2

LEMMA ClaimType ==
  ASSUME TypeOK, NEW ids \in SUBSET TaskKey, NEW r \in Run, Claim(ids, r)
  PROVE  TypeOK'
<1>1. PICK k \in ids :
        /\ Candidate(ids, k)
        /\ Lease(k, r) \/ Defer(r, task[k].policy)
  BY DEF Claim
<1>. DEFINE t == task[k]
            a == [task |-> k, epoch |-> t.epoch, no |-> t.attempts + 1]
<1>2. k \in DOMAIN task /\ k \in TaskKey /\ t \in Task
  BY <1>1, RowOf DEF Candidate, TypeOK
<1>3. /\ t.policy \in Policy /\ t.policy.cost \in Nat /\ a \in AttemptId
      /\ t.hash \in ContentHash /\ t.attempts + 1 \in Nat
      /\ t.reserved + t.policy.cost \in Nat
  BY <1>2, PolicyAssumption DEF Task, AttemptId
<1>4. CASE Defer(r, t.policy)
  BY <1>3, <1>4, LedgerTypes DEF Defer, TypeOK
<1>5. CASE Lease(k, r)
  <2>1. IsTable(runs', Run, Ledger)
    BY <1>3, <1>5, LedgerTypes, ReserveType DEF Lease
  <2>2. IsTable(days', Nat, Ledger)
    BY <1>3, <1>5, LedgerTypes, ReserveType DEF Lease
  <2>3. [status |-> "reserved", hash |-> t.hash, run |-> r, day |-> day,
         reserved |-> t.policy.cost] \in Attempt
    BY <1>3 DEF Attempt, TypeOK
  <2>4. IsTable(attempt', AttemptId, Attempt)
    BY <1>3, <1>5, <2>3, PutTable DEF Lease, TypeOK
  <2>5. task' = [task EXCEPT ![k] =
          [t EXCEPT !.status = "running", !.token = a,
                    !.expires = LeaseWindow, !.attempts = t.attempts + 1,
                    !.reserved = t.reserved + t.policy.cost]]
    BY <1>2, <1>5 DEF Lease, Task
  <2>6. [t EXCEPT !.status = "running", !.token = a,
                  !.expires = LeaseWindow, !.attempts = t.attempts + 1,
                  !.reserved = t.reserved + t.policy.cost] \in Task
    <3>. HIDE DEF a
    <3>1. LeaseWindow \in Nat
      BY TimeAssumption
    <3>. QED
      BY <1>2, <1>3, <3>1, TaskEdits
  <2>7. IsTable(task', TaskKey, Task)
    BY <2>5, <2>6, UpdateTable DEF TypeOK
  <2>. QED
    BY <1>5, <2>1, <2>2, <2>4, <2>7 DEF Lease, TypeOK
<1>. QED
  BY <1>1, <1>4, <1>5

\* The row of an issued attempt's task, with a failure counted.
LEMMA CountedTypes ==
  ASSUME NEW t \in Task
  PROVE  /\ [t EXCEPT !.retries = t.retries + 1] \in Task
         /\ [t EXCEPT !.recompiles = t.recompiles + 1] \in Task
         /\ Backoff(t.retries) \in Nat /\ Backoff(t.retries + 1) \in Nat
<1>1. /\ t.retries \in Nat /\ t.retries + 1 \in Nat
      /\ t.recompiles + 1 \in Nat
  BY DEF Task
<1>. QED
  <2>1. /\ [t EXCEPT !.retries = t.retries + 1] \in Task
        /\ [t EXCEPT !.recompiles = t.recompiles + 1] \in Task
    BY <1>1, TaskEdits
  <2>2. Backoff(t.retries) \in 1..60 /\ Backoff(t.retries + 1) \in 1..60
    BY <1>1, BackoffType
  <2>. QED
    BY <2>1, <2>2

\* The outcome of a live attempt leaves the attempts a table.
LEMMA OutcomeType ==
  ASSUME TypeOK, NEW a, NEW status \in {"accepted", "completed", "abandoned"}
  PROVE  IsTable([attempt EXCEPT ![a].status = status], AttemptId, Attempt)
<1>1. a \in DOMAIN attempt => [attempt[a] EXCEPT !.status = status] \in Attempt
  <2>. SUFFICES ASSUME a \in DOMAIN attempt
                PROVE  [attempt[a] EXCEPT !.status = status] \in Attempt
    OBVIOUS
  <2>1. attempt[a] \in Attempt
    BY RowOf DEF TypeOK
  <2>. QED
    BY <2>1 DEF Attempt
<1>. QED
  BY <1>1, UpdateTable DEF TypeOK

LEMMA EnqueueType ==
  ASSUME TypeOK, NEW keys \in SUBSET ReviewKey, Enqueue(keys)
  PROVE  IsTable(review', ReviewKey, {"pending", "approved", "ignored"})
BY DEF Enqueue, TypeOK, IsTable

LEMMA HeartbeatType ==
  ASSUME TypeOK, NEW a \in Issued, Heartbeat(a)
  PROVE  TypeOK'
<1>1. a.task \in DOMAIN task =>
        [task[a.task] EXCEPT !.expires = LeaseWindow] \in Task
  BY TimeAssumption, RowOf, TaskEdits DEF TypeOK
<1>2. task' = [task EXCEPT ![a.task] =
                 [task[a.task] EXCEPT !.expires = LeaseWindow]]
  BY DEF Heartbeat
<1>3. IsTable(task', TaskKey, Task)
  BY <1>1, <1>2, UpdateTable DEF TypeOK
<1>. QED
  BY <1>3 DEF Heartbeat, TypeOK

LEMMA IssuedType ==
  ASSUME TypeOK, NEW a \in Issued
  PROVE  /\ a \in DOMAIN attempt /\ a \in AttemptId /\ a.task \in TaskKey
         /\ a.epoch \in Nat /\ a.no \in Nat
BY DEF Issued, TypeOK, IsTable, AttemptId

LEMMA PublishType ==
  ASSUME TypeOK, NEW a \in Issued, NEW h \in ContentHash, Publish(a, h)
  PROVE  TypeOK'
<1>. DEFINE k == a.task
<1>1. k \in TaskKey /\ k.entity \in Entity /\ k.rev \in Revision
  BY IssuedType DEF TaskKey
<1>2. generation' \in Nat /\ generation + 1 \in Nat \ {0}
  BY DEF Publish, TypeOK
<1>3. PageRow(k, h) \in [hash : ContentHash, gen : Nat \ {0}, rev : Revision]
  BY <1>1, <1>2 DEF PageRow
<1>4. IsTable(page', Entity,
              [hash : ContentHash, gen : Nat \ {0}, rev : Revision])
  <2>. HIDE DEF k
  <2>1. page' = Put(page, k.entity, PageRow(k, h))
    BY DEF Publish, k
  <2>. QED
    BY <1>1, <1>3, <2>1, PutTable DEF TypeOK
<1>5. k \in DOMAIN task => Finish(task[k], "succeeded", "accepted") \in Task
  BY RowOf, FinishType DEF TypeOK
<1>6. IsTable(task', TaskKey, Task)
  BY <1>5, UpdateTable DEF Publish, TypeOK
<1>7. IsTable(attempt', AttemptId, Attempt)
  BY OutcomeType DEF Publish
<1>. QED
  BY <1>2, <1>4, <1>6, <1>7 DEF Publish, TypeOK

LEMMA InvalidOutputType ==
  ASSUME TypeOK, NEW a \in Issued, NEW divergent \in BOOLEAN,
         InvalidOutput(a, divergent)
  PROVE  TypeOK'
<1>. DEFINE k == a.task
            t == [task[k] EXCEPT !.recompiles = @ + 1]
<1>1. k \in TaskKey
  BY IssuedType
<1>2. k \in DOMAIN task =>
        /\ Finish(t, "dead", "quarantined") \in Task
        /\ PutBack(t, Backoff(t.retries)) \in Task
  <2>. SUFFICES ASSUME k \in DOMAIN task
                PROVE  /\ Finish(t, "dead", "quarantined") \in Task
                       /\ PutBack(t, Backoff(t.retries)) \in Task
    OBVIOUS
  <2>1. task[k] \in Task
    BY RowOf DEF TypeOK
  <2>2. t \in Task
    BY <2>1, CountedTypes
  <2>. HIDE DEF t
  <2>. QED
    BY <2>2, FinishType, PutBackType, CountedTypes
<1>3. IsTable(task', TaskKey, Task)
  <2>. HIDE DEF t
  <2>1. \/ task' = [task EXCEPT ![k] = Finish(t, "dead", "quarantined")]
        \/ task' = [task EXCEPT ![k] = PutBack(t, Backoff(t.retries))]
    BY DEF InvalidOutput, t
  <2>. QED
    BY <1>2, <2>1, UpdateTable DEF TypeOK
<1>4. IsTable(review', ReviewKey, {"pending", "approved", "ignored"})
  <2>1. {DeadLetter(k), Conflict(k)} \in SUBSET ReviewKey
    BY <1>1 DEF DeadLetter, Conflict, ReviewKey
  <2>2. \/ \E keys \in SUBSET ReviewKey : Enqueue(keys)
        \/ UNCHANGED review
    BY <2>1 DEF InvalidOutput
  <2>. QED
    BY <2>2, EnqueueType DEF TypeOK
<1>5. IsTable(attempt', AttemptId, Attempt)
  BY OutcomeType DEF InvalidOutput
<1>. QED
  BY <1>3, <1>4, <1>5 DEF InvalidOutput, TypeOK

LEMMA RetryableType ==
  ASSUME TypeOK, NEW a \in Issued, NEW retry_after \in RetryAfter,
         Retryable(a, retry_after)
  PROVE  TypeOK'
<1>. DEFINE k == a.task
            t == [task[k] EXCEPT !.retries = @ + 1]
            wait == IF retry_after = Null THEN Backoff(t.retries)
                    ELSE Lesser(retry_after, MaxRetryAfter)
<1>1. k \in TaskKey
  BY IssuedType
<1>2. k \in DOMAIN task =>
        Finish(t, "dead", "failed") \in Task /\ PutBack(t, wait) \in Task
  <2>. SUFFICES ASSUME k \in DOMAIN task
                PROVE  /\ Finish(t, "dead", "failed") \in Task
                       /\ PutBack(t, wait) \in Task
    OBVIOUS
  <2>1. task[k] \in Task
    BY RowOf DEF TypeOK
  <2>2. t \in Task
    BY <2>1, CountedTypes
  <2>. HIDE DEF t
  <2>3. wait \in Nat
    <3>1. Backoff(t.retries) \in Nat
      BY <2>2, CountedTypes
    <3>2. retry_after # Null => Lesser(retry_after, MaxRetryAfter) \in Nat
      BY TimeAssumption DEF Lesser
    <3>. QED
      BY <3>1, <3>2
  <2>. HIDE DEF wait
  <2>. QED
    BY <2>2, <2>3, FinishType, PutBackType
<1>3. IsTable(task', TaskKey, Task)
  <2>1. \/ task' = [task EXCEPT ![k] = Finish(t, "dead", "failed")]
        \/ task' = [task EXCEPT ![k] = PutBack(t, wait)]
    BY DEF Retryable
  <2>2. IsTable(task, TaskKey, Task)
    BY DEF TypeOK
  <2>. HIDE DEF t, wait
  <2>3. IsTable([task EXCEPT ![k] = Finish(t, "dead", "failed")],
                TaskKey, Task)
    BY <1>2, <2>2, UpdateTable
  <2>4. IsTable([task EXCEPT ![k] = PutBack(t, wait)], TaskKey, Task)
    BY <1>2, <2>2, UpdateTable
  <2>. QED
    BY <2>1, <2>3, <2>4
<1>4. IsTable(review', ReviewKey, {"pending", "approved", "ignored"})
  <2>1. {DeadLetter(k)} \in SUBSET ReviewKey
    BY <1>1 DEF DeadLetter, ReviewKey
  <2>2. \/ Enqueue({DeadLetter(k)})
        \/ UNCHANGED review
    BY DEF Retryable
  <2>. QED
    BY <2>1, <2>2, EnqueueType DEF TypeOK
<1>5. IsTable(attempt', AttemptId, Attempt)
  BY OutcomeType DEF Retryable
<1>. QED
  BY <1>3, <1>4, <1>5 DEF Retryable, TypeOK

LEMMA PermanentType ==
  ASSUME TypeOK, NEW a \in Issued, Permanent(a)
  PROVE  TypeOK'
<1>1. a.task \in DOMAIN task =>
        Finish(task[a.task], "failed", "failed") \in Task
  BY RowOf, FinishType DEF TypeOK
<1>2. IsTable(task', TaskKey, Task)
  BY <1>1, UpdateTable DEF Permanent, TypeOK
<1>3. IsTable(attempt', AttemptId, Attempt)
  BY OutcomeType DEF Permanent
<1>. QED
  BY <1>2, <1>3 DEF Permanent, TypeOK

LEMMA RecoverType ==
  ASSUME TypeOK, Recover
  PROVE  TypeOK'
<1>1. \A k \in DOMAIN task : k \in TaskKey /\ task[k] \in Task
  BY DEF TypeOK, IsTable
<1>2. ASSUME NEW k \in DOMAIN task
      PROVE  RecoveredTask(k) \in Task
  <2>. DEFINE t == [task[k] EXCEPT !.retries = @ + 1]
  <2>1. t \in Task
    BY <1>1, CountedTypes
  <2>. HIDE DEF t
  <2>2. PutBack(t, Backoff(t.retries)) \in Task
    BY <2>1, CountedTypes, PutBackType
  <2>3. Finish(t, "dead", "failed") \in Task
    BY <2>1, FinishType
  <2>4. Finish(task[k], "succeeded", "superseded") \in Task
    BY <1>1, FinishType
  <2>. USE DEF t
  <2>. QED
    BY <2>2, <2>3, <2>4 DEF RecoveredTask
<1>3. IsTable(task', TaskKey, Task)
  BY <1>1, <1>2 DEF Recover, IsTable, TypeOK
<1>4. IsTable(attempt', AttemptId, Attempt)
  <2>1. \A a \in DOMAIN attempt : a \in AttemptId /\ attempt[a] \in Attempt
    BY DEF TypeOK, IsTable
  <2>2. \A a \in DOMAIN attempt :
          [attempt[a] EXCEPT !.status = "abandoned"] \in Attempt
    BY <2>1 DEF Attempt
  <2>. QED
    BY <2>1, <2>2 DEF Recover, IsTable
<1>5. IsTable(review', ReviewKey, {"pending", "approved", "ignored"})
  <2>1. {DeadLetter(k) : k \in {j \in DOMAIN task :
           Expired(j) /\ ~Superseded(j) /\ Exhausted(j)}} \in SUBSET ReviewKey
    BY <1>1 DEF DeadLetter, ReviewKey
  <2>. QED
    BY <2>1, EnqueueType DEF Recover
<1>. QED
  BY <1>3, <1>4, <1>5 DEF Recover, TypeOK

LEMMA QuarantinePreflightType ==
  ASSUME TypeOK, NEW k \in DOMAIN task, NEW epoch \in 1..task[k].epoch,
         QuarantinePreflight(k, epoch)
  PROVE  TypeOK'
<1>. DEFINE a == [task |-> k, epoch |-> epoch, no |-> 0]
            row == [status |-> "completed", hash |-> task[k].hash,
                    run |-> Null, day |-> Null, reserved |-> 0]
<1>1. k \in TaskKey /\ task[k] \in Task
  BY RowOf DEF TypeOK
<1>2. task[k].hash \in ContentHash /\ task[k].epoch \in Nat
  BY <1>1 DEF Task
<1>3. a \in AttemptId
  BY <1>1, <1>2 DEF AttemptId
<1>4. row \in Attempt
  BY <1>2 DEF Attempt
<1>5. IsTable(attempt', AttemptId, Attempt)
  <2>1. attempt' = attempt \/ attempt' = Put(attempt, a, row)
    BY DEF QuarantinePreflight
  <2>. HIDE DEF a, row
  <2>. QED
    BY <1>3, <1>4, <2>1, PutTable DEF TypeOK
<1>6. IsTable(task', TaskKey, Task)
  <2>1. Finish(task[k], "dead", "quarantined") \in Task
    BY <1>1, FinishType
  <2>2. \/ task' = task
        \/ task' = [task EXCEPT ![k] = Finish(task[k], "dead", "quarantined")]
    BY DEF QuarantinePreflight
  <2>3. IsTable([task EXCEPT ![k] = Finish(task[k], "dead", "quarantined")],
                TaskKey, Task)
    BY <2>1, UpdateTable DEF TypeOK
  <2>. QED
    BY <2>2, <2>3 DEF TypeOK
<1>. QED
  BY <1>5, <1>6 DEF QuarantinePreflight, TypeOK

LEMMA TickType ==
  ASSUME TypeOK, Tick
  PROVE  TypeOK'
<1>1. ASSUME NEW k \in DOMAIN task
      PROVE  [task[k] EXCEPT !.expires = IF @ > 0 THEN @ - 1 ELSE @,
                             !.next = Age(@)] \in Task
  <2>1. task[k] \in Task
    BY RowOf DEF TypeOK
  <2>2. /\ task[k].expires \in Nat /\ task[k].next \in Int
        /\ (IF task[k].expires > 0 THEN task[k].expires - 1
            ELSE task[k].expires) \in Nat
    BY <2>1 DEF Task
  <2>3. Age(task[k].next) \in Int
    BY <2>2, AgeType
  <2>. QED
    BY <2>1, <2>2, <2>3, TaskEdits
<1>2. IsTable(task', TaskKey, Task)
  BY <1>1 DEF Tick, IsTable, TypeOK
<1>. QED
  BY <1>2 DEF Tick, TypeOK

LEMMA InitType == Init => TypeOK
BY EmptyIsTable DEF Init, TypeOK

LEMMA NextType ==
  ASSUME TypeOK, [Next]_vars
  PROVE  TypeOK'
<1>1. ASSUME NEW s \in Source, NEW c \in Config, NEW p \in Policy,
             NEW force \in BOOLEAN, Admit(s, c, p, force)
      PROVE  TypeOK'
  BY <1>1, AdmitType
<1>2. ASSUME NEW s \in Seeded, UpsertFacts(s)
      PROVE  TypeOK'
  BY <1>2, UpsertFactsType
<1>3. ASSUME NEW ids \in SUBSET TaskKey, NEW r \in Run, Claim(ids, r)
      PROVE  TypeOK'
  BY <1>3, ClaimType
<1>4. ASSUME NEW a \in Issued, Heartbeat(a)
      PROVE  TypeOK'
  BY <1>4, HeartbeatType
<1>5. ASSUME NEW a \in Issued, NEW h \in ContentHash, Publish(a, h)
      PROVE  TypeOK'
  BY <1>5, PublishType
<1>6. ASSUME NEW a \in Issued, NEW divergent \in BOOLEAN,
             InvalidOutput(a, divergent)
      PROVE  TypeOK'
  BY <1>6, InvalidOutputType
<1>7. ASSUME NEW a \in Issued, NEW retry_after \in RetryAfter,
             Retryable(a, retry_after)
      PROVE  TypeOK'
  BY <1>7, RetryableType
<1>8. ASSUME NEW a \in Issued, Permanent(a)
      PROVE  TypeOK'
  BY <1>8, PermanentType
<1>9. CASE Recover
  BY <1>9, RecoverType
<1>10. ASSUME NEW k \in DOMAIN task, NEW epoch \in 1..task[k].epoch,
              QuarantinePreflight(k, epoch)
       PROVE  TypeOK'
  BY <1>10, QuarantinePreflightType
<1>11. CASE Tick
  BY <1>11, TickType
<1>12. CASE NewDay
  BY <1>12 DEF NewDay, TypeOK
<1>13. CASE UNCHANGED vars
  BY <1>13 DEF vars, TypeOK
<1>. QED
  BY <1>1, <1>2, <1>3, <1>4, <1>5, <1>6, <1>7, <1>8, <1>9, <1>10, <1>11,
     <1>12, <1>13 DEF Next

\* Every row of every table has the shape the schema gives it, whatever the
\* callers present, late, twice or under another configuration.
THEOREM TypeCorrect == Spec => []TypeOK
BY InitType, NextType, PTL DEF Spec

-----------------------------------------------------------------------------
(***************************************************************************)
(* Leases, epochs and retries of CompileStore, for every value of the      *)
(* constants.  FencingInv is the inductive invariant: what the rows of     *)
(* compile_tasks and compile_attempts know of each other.  The lemmas of   *)
(* the first part say that it survives each of the few ways in which an    *)
(* action may change the two tables; those of the second part, that every  *)
(* action is one of these ways.                                            *)
(***************************************************************************)

\* A row on its own: open rows have a retry left and no result yet, and only
\* a running row has a token.
WellFormed(t) ==
  /\ t.status \in {"pending", "running"} =>
       t.retries < t.max_retries /\ t.result = "none"
  /\ t.status # "running" => t.token = Null

\* An attempt belongs to a task, not to a later epoch of it, and within its
\* current epoch to a claim that was counted.
Belongs(a) ==
  /\ a.task \in DOMAIN task
  /\ a.epoch <= task[a.task].epoch
  /\ a.epoch = task[a.task].epoch => a.no <= task[a.task].attempts

\* An acceptance ends its epoch.
EndsItsEpoch(a) ==
  attempt[a].status = "accepted" /\ a.epoch = task[a.task].epoch =>
    task[a.task].status \notin {"pending", "running"}

AcceptedOnce ==
  \A a, b \in DOMAIN attempt :
    /\ attempt[a].status = "accepted" /\ attempt[b].status = "accepted"
    /\ a.task = b.task /\ a.epoch = b.epoch
    => a = b

\* The two halves of LeaseOwnership, for one task and for one attempt.
Holder(k) == [task |-> k, epoch |-> task[k].epoch, no |-> task[k].attempts]

HeldByHolder(k) ==
  task[k].status = "running" =>
    /\ task[k].token = Holder(k)
    /\ Holder(k) \in DOMAIN attempt
    /\ attempt[Holder(k)].status = "reserved"
    /\ attempt[Holder(k)].hash = task[k].hash

Accounted(a) ==
  attempt[a].status = "reserved" /\ a.epoch = task[a.task].epoch =>
    \/ task[a.task].token = a
    \/ task[a.task].result \in {"skipped", "quarantined"}

FencingInv ==
  /\ \A k \in DOMAIN task : WellFormed(task[k]) /\ HeldByHolder(k)
  /\ \A a \in DOMAIN attempt : Belongs(a) /\ EndsItsEpoch(a) /\ Accounted(a)
  /\ AcceptedOnce

LEMMA FencingImplies ==
  ASSUME FencingInv
  PROVE  LeaseOwnership /\ OpenTasksHaveRetriesLeft
BY DEF FencingInv, LeaseOwnership, OpenTasksHaveRetriesLeft, Open, WellFormed,
       HeldByHolder, Holder, Accounted

-----------------------------------------------------------------------------
(* The ways in which the two tables change.                                *)

\* Two rows that differ in nothing that fencing looks at.
Alike(t, u) ==
  /\ u.status = t.status /\ u.result = t.result /\ u.token = t.token
  /\ u.epoch = t.epoch /\ u.attempts = t.attempts /\ u.hash = t.hash
  /\ u.retries = t.retries /\ u.max_retries = t.max_retries

\* Rows that keep their epoch, their claims and their hash.
SameEpoch(t, u) ==
  u.epoch = t.epoch /\ u.attempts = t.attempts /\ u.hash = t.hash

\* Nothing that fencing looks at changes (a heartbeat, a merge, a tick).
LEMMA Touch ==
  ASSUME FencingInv, UNCHANGED attempt, DOMAIN task' = DOMAIN task,
         \A k \in DOMAIN task : Alike(task[k], task'[k])
  PROVE  FencingInv'
BY DEF FencingInv, Alike, WellFormed, HeldByHolder, Holder, Belongs,
       EndsItsEpoch, Accounted, AcceptedOnce

\* A row without attempts is inserted.
LEMMA Insert ==
  ASSUME FencingInv, UNCHANGED attempt,
         NEW k, k \notin DOMAIN task, NEW u, task' = Put(task, k, u),
         WellFormed(u), u.status # "running"
  PROVE  FencingInv'
BY DEF FencingInv, Put, WellFormed, HeldByHolder, Holder, Belongs,
       EndsItsEpoch, Accounted, AcceptedOnce

\* A row starts a new epoch.
LEMMA Renew ==
  ASSUME TypeOK, FencingInv, UNCHANGED attempt,
         NEW k \in DOMAIN task, NEW u, task' = [task EXCEPT ![k] = u],
         WellFormed(u), u.status # "running", u.epoch = task[k].epoch + 1
  PROVE  FencingInv'
<1>1. task[k].epoch \in Nat
  BY DEF TypeOK, IsTable, Task
<1>2. \A a \in DOMAIN attempt : a.epoch \in Nat
  BY DEF TypeOK, IsTable, AttemptId
<1>. QED
  BY <1>1, <1>2
     DEF FencingInv, WellFormed, HeldByHolder, Holder, Belongs, EndsItsEpoch,
         Accounted, AcceptedOnce

\* A row is taken from its holder, if it had one, for good (a skip, a
\* preflight).
LEMMA Retire ==
  ASSUME FencingInv, NEW k \in DOMAIN task, NEW u,
         task' = [task EXCEPT ![k] = u], WellFormed(u), SameEpoch(task[k], u),
         u.status \in {"succeeded", "dead"},
         u.result \in {"skipped", "quarantined"},
         UNCHANGED attempt
  PROVE  FencingInv'
BY DEF FencingInv, SameEpoch, WellFormed, HeldByHolder, Holder, Belongs,
       EndsItsEpoch, Accounted, AcceptedOnce

\* A completed attempt 0 is recorded, and the row is retired or left alone (a
\* preflight).
LEMMA Record ==
  ASSUME TypeOK, FencingInv, NEW k \in DOMAIN task,
         NEW a, a \notin DOMAIN attempt, a.task = k, a.no = 0,
         a.epoch \in 1..task[k].epoch,
         NEW row, row.status = "completed", attempt' = Put(attempt, a, row),
         DOMAIN task' = DOMAIN task,
         \A j \in DOMAIN task :
           \/ task'[j] = task[j]
           \/ /\ WellFormed(task'[j]) /\ SameEpoch(task[j], task'[j])
              /\ task'[j].status = "dead" /\ task'[j].result = "quarantined"
  PROVE  FencingInv'
<1>1. \A j \in DOMAIN task :
        task[j].epoch \in Nat /\ task[j].attempts \in Nat
  BY DEF TypeOK, IsTable, Task
<1>2. /\ DOMAIN attempt' = DOMAIN attempt \cup {a}
      /\ \A b \in DOMAIN attempt : attempt'[b] = attempt[b]
      /\ attempt'[a] = row
  BY DEF Put
<1>3. \A j \in DOMAIN task : SameEpoch(task[j], task'[j])
  BY DEF SameEpoch
<1>4. ASSUME NEW j \in DOMAIN task
      PROVE  WellFormed(task'[j]) /\ HeldByHolder(j)'
  <2>1. Holder(j)' = Holder(j)
    BY <1>3 DEF SameEpoch, Holder
  <2>2. CASE task'[j] = task[j]
    BY <1>2, <2>1, <2>2 DEF FencingInv, HeldByHolder
  <2>3. CASE WellFormed(task'[j]) /\ task'[j].status = "dead"
    BY <2>3 DEF HeldByHolder
  <2>. QED
    BY <2>2, <2>3
<1>5. ASSUME NEW b \in DOMAIN attempt'
      PROVE  (Belongs(b) /\ EndsItsEpoch(b) /\ Accounted(b))'
  <2>1. CASE b = a
    BY <1>1, <1>2, <1>3, <2>1
       DEF SameEpoch, Belongs, EndsItsEpoch, Accounted
  <2>2. CASE b \in DOMAIN attempt
    BY <1>2, <1>3, <2>2
       DEF FencingInv, SameEpoch, Belongs, EndsItsEpoch, Accounted
  <2>. QED
    BY <1>2, <2>1, <2>2
<1>6. AcceptedOnce'
  BY <1>2 DEF FencingInv, AcceptedOnce
<1>. QED
  BY <1>2, <1>4, <1>5, <1>6 DEF FencingInv

\* The holder reports the outcome of its attempt.
LEMMA Close ==
  ASSUME TypeOK, FencingInv, NEW a \in DOMAIN attempt, Live(a),
         NEW u, WellFormed(u), SameEpoch(task[a.task], u),
         u.status # "running",
         NEW status \in {"accepted", "completed"},
         status = "accepted" => u.status = "succeeded",
         task' = [task EXCEPT ![a.task] = u],
         attempt' = [attempt EXCEPT ![a].status = status]
  PROVE  FencingInv'
<1>. DEFINE k == a.task
<1>1. /\ k \in DOMAIN task /\ a = Holder(k) /\ task[k].epoch = a.epoch
      /\ task[k].status = "running" /\ attempt[a].status = "reserved"
  BY DEF Live, FencingInv, Belongs, HeldByHolder
<1>2. \A b \in DOMAIN attempt :
        /\ attempt'[b].status = IF b = a THEN status ELSE attempt[b].status
        /\ attempt'[b].hash = attempt[b].hash
  BY DEF TypeOK, IsTable, Attempt
<1>3. DOMAIN attempt' = DOMAIN attempt /\ DOMAIN task' = DOMAIN task
  OBVIOUS
<1>4. \A j \in DOMAIN task : task'[j] = IF j = k THEN u ELSE task[j]
  BY DEF TypeOK, IsTable
<1>5. ASSUME NEW j \in DOMAIN task
      PROVE  WellFormed(task'[j]) /\ HeldByHolder(j)'
  BY <1>1, <1>2, <1>3, <1>4 DEF FencingInv, HeldByHolder, Holder, WellFormed
<1>6. ASSUME NEW b \in DOMAIN attempt
      PROVE  (Belongs(b) /\ EndsItsEpoch(b) /\ Accounted(b))'
  BY <1>1, <1>2, <1>3, <1>4
     DEF FencingInv, Belongs, EndsItsEpoch, Accounted, SameEpoch, Holder,
         WellFormed
<1>7. AcceptedOnce'
  <2>1. ASSUME NEW b \in DOMAIN attempt, b.task = k, b.epoch = a.epoch
        PROVE  attempt[b].status # "accepted"
    BY <1>1, <2>1 DEF FencingInv, EndsItsEpoch
  <2>. QED
    BY <1>2, <1>3, <2>1 DEF FencingInv, AcceptedOnce
<1>. QED
  BY <1>3, <1>5, <1>6, <1>7 DEF FencingInv

\* A pending row is leased to a new attempt.
LEMMA Grant ==
  ASSUME TypeOK, FencingInv, NEW k \in DOMAIN task,
         task[k].status = "pending",
         NEW a, a = [task |-> k, epoch |-> task[k].epoch,
                     no |-> task[k].attempts + 1],
         NEW row, row.status = "reserved", row.hash = task[k].hash,
         attempt' = Put(attempt, a, row),
         NEW u, u.status = "running", u.result = task[k].result, u.token = a,
         u.epoch = task[k].epoch, u.attempts = task[k].attempts + 1,
         u.hash = task[k].hash, u.retries = task[k].retries,
         u.max_retries = task[k].max_retries,
         task' = [task EXCEPT ![k] = u]
  PROVE  FencingInv'
<1>1. \A j \in DOMAIN task : task[j].epoch \in Nat /\ task[j].attempts \in Nat
  BY DEF TypeOK, IsTable, Task
<1>2. \A b \in DOMAIN attempt : b \in AttemptId /\ b.no \in Nat
  BY DEF TypeOK, IsTable, AttemptId
<1>3. a \notin DOMAIN attempt
  BY <1>1 DEF FencingInv, Belongs
<1>4. /\ DOMAIN attempt' = DOMAIN attempt \cup {a}
      /\ DOMAIN task' = DOMAIN task
      /\ \A b \in DOMAIN attempt : attempt'[b] = attempt[b]
      /\ attempt'[a] = row
  BY <1>3 DEF Put
<1>5. \A j \in DOMAIN task : task'[j] = IF j = k THEN u ELSE task[j]
  BY DEF TypeOK, IsTable
<1>6. ASSUME NEW j \in DOMAIN task
      PROVE  WellFormed(task'[j]) /\ HeldByHolder(j)'
  <2>1. CASE j = k
    <3>1. WellFormed(task[k])
      BY DEF FencingInv
    <3>2. task'[j] = u /\ Holder(j)' = a
      BY <1>5, <2>1 DEF Holder
    <3>. QED
      BY <1>4, <3>1, <3>2 DEF WellFormed, HeldByHolder
  <2>2. CASE j # k
    <3>1. task'[j] = task[j] /\ Holder(j)' = Holder(j)
      BY <1>5, <2>2 DEF Holder
    <3>. QED
      BY <1>4, <3>1 DEF FencingInv, HeldByHolder
  <2>. QED
    BY <2>1, <2>2
<1>7. \A b \in DOMAIN attempt :
        b.task = k /\ b.epoch = task[k].epoch =>
          attempt[b].status # "accepted" /\ attempt[b].status # "reserved"
  BY <1>2, TokenAssumption
     DEF FencingInv, EndsItsEpoch, Accounted, WellFormed
<1>8. ASSUME NEW b \in DOMAIN attempt'
      PROVE  (Belongs(b) /\ EndsItsEpoch(b) /\ Accounted(b))'
  <2>1. CASE b = a
    BY <1>1, <1>4, <1>5, <2>1 DEF Belongs, EndsItsEpoch, Accounted
  <2>2. CASE b \in DOMAIN attempt /\ b.task # k
    BY <1>4, <1>5, <2>2 DEF FencingInv, Belongs, EndsItsEpoch, Accounted
  <2>3. CASE b \in DOMAIN attempt /\ b.task = k
    BY <1>1, <1>2, <1>4, <1>5, <1>7, <2>3
       DEF FencingInv, Belongs, EndsItsEpoch, Accounted
  <2>. QED
    BY <1>4, <2>1, <2>2, <2>3
<1>9. AcceptedOnce'
  BY <1>4 DEF FencingInv, AcceptedOnce
<1>. QED
  BY <1>4, <1>6, <1>8, <1>9 DEF FencingInv

-----------------------------------------------------------------------------
(* What the rows that the actions write look like to fencing.              *)

LEMMA FinishFields ==
  ASSUME NEW t \in Task, NEW status, NEW result
  PROVE  LET u == Finish(t, status, result)
         IN  /\ u.status = status /\ u.result = result /\ u.token = Null
             /\ SameEpoch(t, u)
             /\ u.retries = t.retries /\ u.max_retries = t.max_retries
BY DEF Finish, Task, SameEpoch

LEMMA PutBackFields ==
  ASSUME NEW t \in Task, NEW wait
  PROVE  LET u == PutBack(t, wait)
         IN  /\ u.status = "pending" /\ u.result = t.result /\ u.token = Null
             /\ SameEpoch(t, u)
             /\ u.retries = t.retries /\ u.max_retries = t.max_retries
BY DEF PutBack, Task, SameEpoch

\* A failure counted by either brake.
LEMMA CountedFields ==
  ASSUME NEW t \in Task
  PROVE  /\ LET u == [t EXCEPT !.retries = t.retries + 1]
            IN  /\ u \in Task /\ SameEpoch(t, u) /\ u.result = t.result
                /\ u.retries = t.retries + 1
                /\ u.max_retries = t.max_retries
         /\ LET u == [t EXCEPT !.recompiles = t.recompiles + 1]
            IN  /\ u \in Task /\ SameEpoch(t, u) /\ u.result = t.result
                /\ u.retries = t.retries
                /\ u.max_retries = t.max_retries
<1>1. /\ [t EXCEPT !.retries = t.retries + 1] \in Task
      /\ [t EXCEPT !.recompiles = t.recompiles + 1] \in Task
  BY CountedTypes
<1>. QED
  BY <1>1 DEF Task, SameEpoch

LEMMA NewTaskFields ==
  ASSUME NEW s \in Source, NEW c, NEW p \in Policy
  PROVE  LET u == NewTask(s, c, p)
         IN  u.status = "pending" /\ WellFormed(u)
<1>1. p.max_retries \in Nat \ {0}
  BY PolicyAssumption
<1>. QED
  BY <1>1 DEF NewTask, WellFormed

-----------------------------------------------------------------------------
(* Every action is one of these ways.                                      *)

LEMMA AdmitFencing ==
  ASSUME TypeOK, FencingInv, NEW s \in Source, NEW c \in Config,
         NEW p \in Policy, NEW force \in BOOLEAN, Admit(s, c, p, force)
  PROVE  FencingInv'
<1>. DEFINE key == KeyOf(s, c)
            new == NewTask(s, c, p)
            skipped == [new EXCEPT !.status = "succeeded",
                                   !.result = "skipped"]
<1>1. UNCHANGED attempt
  BY DEF Admit
<1>2. new.status = "pending" /\ WellFormed(new)
  BY NewTaskFields
<1>3. ASSUME key \in DOMAIN task
      PROVE  task[key] \in Task
  BY <1>3, RowOf DEF TypeOK
<1>4. CASE Skip(s, c, p)
  <2>1. CASE UNCHANGED task
    BY <1>1, <2>1, Touch DEF Alike
  <2>2. CASE /\ key \in DOMAIN task
             /\ task' = [task EXCEPT
                   ![key].status = "succeeded", ![key].result = "skipped",
                   ![key].token = Null, ![key].expires = 0,
                   ![key].next = LongAgo]
    <3>. DEFINE u == [task[key] EXCEPT
                        !.status = "succeeded", !.result = "skipped",
                        !.token = Null, !.expires = 0, !.next = LongAgo]
    <3>1. task' = [task EXCEPT ![key] = u]
      BY <2>2
    <3>2. /\ SameEpoch(task[key], u) /\ WellFormed(u)
          /\ u.status = "succeeded" /\ u.result = "skipped"
      BY <1>3, <2>2 DEF Task, SameEpoch, WellFormed
    <3>. HIDE DEF u, key
    <3>. QED
      BY <1>1, <2>2, <3>1, <3>2, Retire
  <2>3. CASE key \notin DOMAIN task /\ InsertTask(key, skipped)
    <3>1. WellFormed(skipped) /\ skipped.status # "running"
      BY DEF NewTask, WellFormed
    <3>2. task' = Put(task, key, skipped)
      BY <2>3 DEF InsertTask
    <3>. HIDE DEF skipped, key
    <3>. QED
      BY <1>1, <2>3, <3>1, <3>2, Insert
  <2>. QED
    BY <1>4, <2>1, <2>2, <2>3 DEF Skip
<1>5. CASE Merge(s, c, p) /\ key \in DOMAIN task
  <2>1. CASE UNCHANGED task
    BY <1>1, <2>1, Touch DEF Alike
  <2>2. CASE task' = [task EXCEPT ![key].snap = Snap(s), ![key].policy = p]
    <3>. DEFINE u == [task[key] EXCEPT !.snap = Snap(s), !.policy = p]
    <3>1. task' = [task EXCEPT ![key] = u]
      BY <1>5, <2>2
    <3>2. Alike(task[key], u)
      BY <1>3, <1>5 DEF Task, Alike
    <3>. HIDE DEF u, key
    <3>3. \A k \in DOMAIN task : Alike(task[k], task'[k])
      BY <3>1, <3>2 DEF Alike
    <3>. QED
      BY <1>1, <3>1, <3>3, Touch
  <2>. QED
    BY <1>5, <2>1, <2>2 DEF Merge
<1>6. CASE Restart(s, c, p) /\ key \in DOMAIN task
  <2>. DEFINE u == [new EXCEPT !.id = task[key].id,
                               !.epoch = task[key].epoch + 1,
                               !.reserved = task[key].reserved]
  <2>1. task' = [task EXCEPT ![key] = u]
    BY <1>6 DEF Restart
  <2>2. /\ WellFormed(u) /\ u.status # "running"
        /\ u.epoch = task[key].epoch + 1
    BY <1>2 DEF NewTask, WellFormed
  <2>. HIDE DEF u, key
  <2>. QED
    BY <1>1, <1>6, <2>1, <2>2, Renew
<1>7. CASE key \notin DOMAIN task /\ InsertTask(key, new)
  <2>1. task' = Put(task, key, new)
    BY <1>7 DEF InsertTask
  <2>2. new.status # "running"
    BY <1>2
  <2>. HIDE DEF new, key
  <2>. QED
    BY <1>1, <1>2, <1>7, <2>1, <2>2, Insert
<1>. QED
  BY <1>4, <1>5, <1>6, <1>7 DEF Admit

LEMMA ClaimFencing ==
  ASSUME TypeOK, FencingInv, NEW ids \in SUBSET TaskKey, NEW r \in Run,
         Claim(ids, r)
  PROVE  FencingInv'
<1>1. PICK k \in ids :
        Candidate(ids, k) /\ (Lease(k, r) \/ Defer(r, task[k].policy))
  BY DEF Claim
<1>2. /\ k \in DOMAIN task /\ task[k].status = "pending"
      /\ task[k] \in Task
  BY <1>1, RowOf DEF Candidate, Due, TypeOK
<1>3. CASE Defer(r, task[k].policy)
  BY <1>3, Touch DEF Defer, Alike
<1>4. CASE Lease(k, r)
  <2>. DEFINE t == task[k]
              a == [task |-> k, epoch |-> t.epoch, no |-> t.attempts + 1]
              row == [status |-> "reserved", hash |-> t.hash, run |-> r,
                      day |-> day, reserved |-> t.policy.cost]
              u == [t EXCEPT !.status = "running", !.token = a,
                             !.expires = LeaseWindow,
                             !.attempts = t.attempts + 1,
                             !.reserved = t.reserved + t.policy.cost]
  <2>1. attempt' = Put(attempt, a, row) /\ task' = [task EXCEPT ![k] = u]
    BY <1>2, <1>4 DEF Lease, Task
  <2>2. /\ u.status = "running" /\ u.result = t.result /\ u.token = a
        /\ u.epoch = t.epoch /\ u.attempts = t.attempts + 1
        /\ u.hash = t.hash /\ u.retries = t.retries
        /\ u.max_retries = t.max_retries
    BY <1>2 DEF Task
  <2>3. row.status = "reserved" /\ row.hash = t.hash
    OBVIOUS
  <2>4. a = [task |-> k, epoch |-> t.epoch, no |-> t.attempts + 1]
    OBVIOUS
  <2>. HIDE DEF u, row, a
  <2>. QED
    BY <1>2, <2>1, <2>2, <2>3, <2>4, Grant
<1>. QED
  BY <1>1, <1>3, <1>4

\* The holder of a live lease is an issued attempt of a row.
LEMMA HolderFacts ==
  ASSUME TypeOK, FencingInv, NEW a \in Issued, Live(a)
  PROVE  /\ a \in DOMAIN attempt /\ a.task \in DOMAIN task
         /\ task[a.task] \in Task /\ task[a.task].status = "running"
         /\ task[a.task].result = "none"
         /\ task[a.task].retries < task[a.task].max_retries
<1>1. a \in DOMAIN attempt /\ a.task \in DOMAIN task
  BY DEF Issued, FencingInv, Belongs
<1>2. task[a.task] \in Task
  BY <1>1, RowOf DEF TypeOK
<1>. QED
  BY <1>1, <1>2 DEF Live, FencingInv, WellFormed

LEMMA HeartbeatFencing ==
  ASSUME TypeOK, FencingInv, NEW a \in Issued, Heartbeat(a)
  PROVE  FencingInv'
<1>. DEFINE k == a.task
            u == [task[k] EXCEPT !.expires = LeaseWindow]
<1>1. k \in DOMAIN task /\ task[k] \in Task
  BY HolderFacts DEF Heartbeat
<1>2. task' = [task EXCEPT ![k] = u] /\ UNCHANGED attempt
  BY <1>1 DEF Heartbeat
<1>3. Alike(task[k], u)
  BY <1>1 DEF Task, Alike
<1>. HIDE DEF k, u
<1>4. \A j \in DOMAIN task : Alike(task[j], task'[j])
  BY <1>2, <1>3 DEF Alike
<1>. QED
  BY <1>2, <1>4, Touch

LEMMA PublishFencing ==
  ASSUME TypeOK, FencingInv, NEW a \in Issued, NEW h, Publish(a, h)
  PROVE  FencingInv'
<1>. DEFINE u == Finish(task[a.task], "succeeded", "accepted")
<1>1. /\ Live(a) /\ attempt' = [attempt EXCEPT ![a].status = "accepted"]
      /\ task' = [task EXCEPT ![a.task] = u]
  BY DEF Publish
<1>2. a \in DOMAIN attempt /\ task[a.task] \in Task
  BY <1>1, HolderFacts
<1>3. WellFormed(u) /\ SameEpoch(task[a.task], u) /\ u.status = "succeeded"
  BY <1>2, FinishFields DEF WellFormed
<1>. HIDE DEF u
<1>. QED
  BY <1>1, <1>2, <1>3, Close

LEMMA InvalidOutputFencing ==
  ASSUME TypeOK, FencingInv, NEW a \in Issued, NEW divergent \in BOOLEAN,
         InvalidOutput(a, divergent)
  PROVE  FencingInv'
<1>. DEFINE k == a.task
            t == [task[k] EXCEPT !.recompiles = task[k].recompiles + 1]
            dead == Finish(t, "dead", "quarantined")
            again == PutBack(t, Backoff(t.retries))
<1>1. /\ Live(a) /\ attempt' = [attempt EXCEPT ![a].status = "completed"]
      /\ \/ task' = [task EXCEPT ![k] = dead]
         \/ task' = [task EXCEPT ![k] = again]
  BY DEF InvalidOutput
<1>2. /\ a \in DOMAIN attempt /\ task[k] \in Task
      /\ task[k].retries < task[k].max_retries /\ task[k].result = "none"
  BY <1>1, HolderFacts
<1>3. /\ t \in Task /\ SameEpoch(task[k], t) /\ t.result = "none"
      /\ t.retries < t.max_retries
  BY <1>2, CountedFields
<1>. HIDE DEF t
<1>4. /\ WellFormed(dead) /\ SameEpoch(task[k], dead)
      /\ dead.status = "dead"
  BY <1>3, FinishFields DEF WellFormed, SameEpoch
<1>5. /\ WellFormed(again) /\ SameEpoch(task[k], again)
      /\ again.status = "pending"
  BY <1>3, PutBackFields DEF WellFormed, SameEpoch
<1>. HIDE DEF dead, again
<1>6. CASE task' = [task EXCEPT ![k] = dead]
  BY <1>1, <1>2, <1>4, <1>6, Close
<1>7. CASE task' = [task EXCEPT ![k] = again]
  BY <1>1, <1>2, <1>5, <1>7, Close
<1>. QED
  BY <1>1, <1>6, <1>7

LEMMA RetryableFencing ==
  ASSUME TypeOK, FencingInv, NEW a \in Issued,
         NEW retry_after \in RetryAfter, Retryable(a, retry_after)
  PROVE  FencingInv'
<1>. DEFINE k == a.task
            t == [task[k] EXCEPT !.retries = task[k].retries + 1]
            wait == IF retry_after = Null THEN Backoff(t.retries)
                    ELSE Lesser(retry_after, MaxRetryAfter)
            dead == Finish(t, "dead", "failed")
            again == PutBack(t, wait)
<1>1. /\ Live(a) /\ attempt' = [attempt EXCEPT ![a].status = "completed"]
      /\ \/ task' = [task EXCEPT ![k] = dead]
         \/ /\ ~(t.retries >= t.max_retries)
            /\ task' = [task EXCEPT ![k] = again]
  BY DEF Retryable
<1>2. /\ a \in DOMAIN attempt /\ task[k] \in Task
      /\ task[k].result = "none"
  BY <1>1, HolderFacts
<1>3. t \in Task /\ SameEpoch(task[k], t) /\ t.result = "none"
  BY <1>2, CountedFields
<1>. HIDE DEF t, wait
<1>4. /\ WellFormed(dead) /\ SameEpoch(task[k], dead)
      /\ dead.status = "dead"
  BY <1>3, FinishFields DEF WellFormed, SameEpoch
<1>5. /\ again.status = "pending" /\ again.result = "none"
      /\ again.token = Null /\ SameEpoch(task[k], again)
      /\ again.retries = t.retries /\ again.max_retries = t.max_retries
  BY <1>3, PutBackFields DEF SameEpoch
<1>6. t.retries \in Nat /\ t.max_retries \in Nat
  BY <1>3 DEF Task
<1>. HIDE DEF dead, again
<1>7. CASE task' = [task EXCEPT ![k] = dead]
  BY <1>1, <1>2, <1>4, <1>7, Close
<1>8. CASE /\ ~(t.retries >= t.max_retries)
           /\ task' = [task EXCEPT ![k] = again]
  <2>1. WellFormed(again)
    BY <1>5, <1>6, <1>8 DEF WellFormed
  <2>. QED
    BY <1>1, <1>2, <1>5, <1>8, <2>1, Close
<1>. QED
  BY <1>1, <1>7, <1>8

LEMMA PermanentFencing ==
  ASSUME TypeOK, FencingInv, NEW a \in Issued, Permanent(a)
  PROVE  FencingInv'
<1>. DEFINE u == Finish(task[a.task], "failed", "failed")
<1>1. /\ Live(a) /\ attempt' = [attempt EXCEPT ![a].status = "completed"]
      /\ task' = [task EXCEPT ![a.task] = u]
  BY DEF Permanent
<1>2. a \in DOMAIN attempt /\ task[a.task] \in Task
  BY <1>1, HolderFacts
<1>3. WellFormed(u) /\ SameEpoch(task[a.task], u) /\ u.status = "failed"
  BY <1>2, FinishFields DEF WellFormed
<1>. HIDE DEF u
<1>. QED
  BY <1>1, <1>2, <1>3, Close

\* An expired row leaves its holder with the attempt abandoned: the three
\* conditions of the recovery's UPDATE name exactly the holder.
LEMMA RecoverFencing ==
  ASSUME TypeOK, FencingInv, Recover
  PROVE  FencingInv'
<1>1. \A k \in DOMAIN task : task[k] \in Task
  BY DEF TypeOK, IsTable
<1>2. ASSUME NEW k \in DOMAIN task, Expired(k)
      PROVE  /\ SameEpoch(task[k], RecoveredTask(k))
             /\ WellFormed(RecoveredTask(k))
             /\ RecoveredTask(k).status # "running"
  <2>. DEFINE t == [task[k] EXCEPT !.retries = task[k].retries + 1]
  <2>1. task[k].result = "none"
    BY <1>2 DEF Expired, FencingInv, WellFormed
  <2>2. /\ t \in Task /\ SameEpoch(task[k], t) /\ t.result = "none"
        /\ t.retries = task[k].retries + 1
        /\ t.max_retries = task[k].max_retries
    BY <1>1, <2>1, CountedFields
  <2>3. \/ RecoveredTask(k) = Finish(task[k], "succeeded", "superseded")
        \/ RecoveredTask(k) = Finish(t, "dead", "failed")
        \/ /\ ~Exhausted(k)
           /\ RecoveredTask(k) = PutBack(t, Backoff(t.retries))
    BY <1>2 DEF RecoveredTask
  <2>. HIDE DEF t
  <2>4. CASE RecoveredTask(k) = Finish(task[k], "succeeded", "superseded")
    BY <1>1, <2>4, FinishFields DEF WellFormed
  <2>5. CASE RecoveredTask(k) = Finish(t, "dead", "failed")
    BY <2>2, <2>5, FinishFields DEF WellFormed, SameEpoch
  <2>6. CASE /\ ~Exhausted(k)
             /\ RecoveredTask(k) = PutBack(t, Backoff(t.retries))
    <3>. DEFINE u == PutBack(t, Backoff(t.retries))
    <3>1. /\ u.status = "pending" /\ u.result = "none" /\ u.token = Null
          /\ SameEpoch(task[k], u)
          /\ u.retries = task[k].retries + 1
          /\ u.max_retries = task[k].max_retries
      BY <2>2, PutBackFields DEF SameEpoch
    <3>2. task[k].retries \in Nat /\ task[k].max_retries \in Nat
      BY <1>1 DEF Task
    <3>3. task[k].retries + 1 < task[k].max_retries
      BY <2>6, <3>2 DEF Exhausted
    <3>. HIDE DEF u
    <3>4. WellFormed(u)
      BY <3>1, <3>3 DEF WellFormed
    <3>5. RecoveredTask(k) = u
      BY <2>6 DEF u
    <3>. QED
      BY <3>1, <3>4, <3>5
  <2>. QED
    BY <2>3, <2>4, <2>5, <2>6
<1>3. /\ DOMAIN task' = DOMAIN task
      /\ \A k \in DOMAIN task :
           task'[k] = IF Expired(k) THEN RecoveredTask(k) ELSE task[k]
  BY DEF Recover
<1>4. /\ DOMAIN attempt' = DOMAIN attempt
      /\ \A a \in DOMAIN attempt :
           /\ Abandoned(a) => attempt'[a].status = "abandoned"
           /\ ~Abandoned(a) => attempt'[a] = attempt[a]
  <2>1. \A a \in DOMAIN attempt : attempt[a] \in Attempt
    BY DEF TypeOK, IsTable
  <2>. QED
    BY <2>1 DEF Recover, Attempt
<1>5. \A a \in DOMAIN attempt :
        attempt'[a].status \in {"accepted", "reserved"} =>
          ~Abandoned(a) /\ attempt'[a] = attempt[a]
  BY <1>4
<1>6. ASSUME NEW k \in DOMAIN task
      PROVE  WellFormed(task'[k]) /\ HeldByHolder(k)'
  <2>1. CASE Expired(k)
    BY <1>2, <1>3, <2>1 DEF HeldByHolder
  <2>2. CASE ~Expired(k)
    <3>1. task'[k] = task[k] /\ Holder(k)' = Holder(k)
      BY <1>3, <2>2 DEF Holder
    <3>2. ~Abandoned(Holder(k))
      BY <2>2 DEF Abandoned, Holder
    <3>. QED
      BY <1>4, <3>1, <3>2 DEF FencingInv, HeldByHolder
  <2>. QED
    BY <2>1, <2>2
<1>7. ASSUME NEW a \in DOMAIN attempt
      PROVE  (Belongs(a) /\ EndsItsEpoch(a) /\ Accounted(a))'
  <2>1. /\ a.task \in DOMAIN task
        /\ task'[a.task].epoch = task[a.task].epoch
        /\ task'[a.task].attempts = task[a.task].attempts
    BY <1>2, <1>3 DEF FencingInv, Belongs, SameEpoch
  <2>2. Belongs(a)'
    BY <1>3, <2>1 DEF FencingInv, Belongs
  <2>3. EndsItsEpoch(a)'
    BY <1>3, <1>5, <2>1 DEF FencingInv, EndsItsEpoch, Expired
  <2>4. Accounted(a)'
    <3>. SUFFICES ASSUME attempt'[a].status = "reserved",
                         a.epoch = task[a.task].epoch
                  PROVE  \/ task'[a.task].token = a
                         \/ task'[a.task].result
                              \in {"skipped", "quarantined"}
      BY <2>1 DEF Accounted
    <3>1. ~Abandoned(a) /\ attempt[a].status = "reserved"
      BY <1>5
    <3>2. \/ task[a.task].token = a
          \/ task[a.task].result \in {"skipped", "quarantined"}
      BY <3>1 DEF FencingInv, Accounted
    <3>3. ~Expired(a.task)
      <4>. SUFFICES ASSUME Expired(a.task)
                    PROVE  FALSE
        OBVIOUS
      <4>1. /\ task[a.task].result = "none"
            /\ task[a.task].token = Holder(a.task)
        BY <2>1 DEF Expired, FencingInv, WellFormed, HeldByHolder
      <4>2. a = Holder(a.task)
        BY <3>2, <4>1
      <4>3. a.no = task[a.task].attempts
        BY <4>2 DEF Holder
      <4>. QED
        BY <3>1, <3>2, <4>1, <4>3 DEF Abandoned
    <3>. QED
      BY <1>3, <2>1, <3>2, <3>3
  <2>. QED
    BY <2>2, <2>3, <2>4
<1>8. AcceptedOnce'
  BY <1>4, <1>5 DEF FencingInv, AcceptedOnce
<1>. QED
  BY <1>3, <1>4, <1>6, <1>7, <1>8 DEF FencingInv

LEMMA QuarantinePreflightFencing ==
  ASSUME TypeOK, FencingInv, NEW k \in DOMAIN task,
         NEW epoch \in 1..task[k].epoch, QuarantinePreflight(k, epoch)
  PROVE  FencingInv'
<1>. DEFINE a == [task |-> k, epoch |-> epoch, no |-> 0]
            row == [status |-> "completed", hash |-> task[k].hash,
                    run |-> Null, day |-> Null, reserved |-> 0]
            dead == Finish(task[k], "dead", "quarantined")
<1>1. /\ \/ UNCHANGED task
         \/ task' = [task EXCEPT ![k] = dead]
      /\ \/ UNCHANGED attempt
         \/ a \notin DOMAIN attempt /\ attempt' = Put(attempt, a, row)
  BY DEF QuarantinePreflight
<1>2. /\ WellFormed(dead) /\ SameEpoch(task[k], dead)
      /\ dead.status = "dead" /\ dead.result = "quarantined"
  <2>1. task[k] \in Task
    BY RowOf DEF TypeOK
  <2>. QED
    BY <2>1, FinishFields DEF WellFormed
<1>3. row.status = "completed"
  OBVIOUS
<1>4. a.task = k /\ a.no = 0 /\ a.epoch \in 1..task[k].epoch
  OBVIOUS
<1>5. /\ DOMAIN task' = DOMAIN task
      /\ \A j \in DOMAIN task :
           \/ task'[j] = task[j]
           \/ /\ WellFormed(task'[j]) /\ SameEpoch(task[j], task'[j])
              /\ task'[j].status = "dead" /\ task'[j].result = "quarantined"
  BY <1>1, <1>2
<1>. HIDE DEF a, row, dead
<1>6. CASE UNCHANGED task /\ UNCHANGED attempt
  BY <1>6, Touch DEF Alike
<1>7. CASE task' = [task EXCEPT ![k] = dead] /\ UNCHANGED attempt
  BY <1>2, <1>7, Retire
<1>8. CASE a \notin DOMAIN attempt /\ attempt' = Put(attempt, a, row)
  BY <1>3, <1>4, <1>5, <1>8, Record
<1>. QED
  BY <1>1, <1>6, <1>7, <1>8

LEMMA TickFencing ==
  ASSUME TypeOK, FencingInv, Tick
  PROVE  FencingInv'
<1>1. DOMAIN task' = DOMAIN task /\ UNCHANGED attempt
  BY DEF Tick
<1>2. ASSUME NEW k \in DOMAIN task
      PROVE  Alike(task[k], task'[k])
  <2>1. task[k] \in Task
    BY RowOf DEF TypeOK
  <2>. QED
    BY <2>1 DEF Tick, Task, Alike
<1>. QED
  BY <1>1, <1>2, Touch

LEMMA InitFencing == Init => FencingInv
BY DEF Init, EmptyTable, FencingInv, AcceptedOnce

LEMMA NextFencing ==
  ASSUME TypeOK, FencingInv, [Next]_vars
  PROVE  FencingInv'
<1>1. ASSUME NEW s \in Source, NEW c \in Config, NEW p \in Policy,
             NEW force \in BOOLEAN, Admit(s, c, p, force)
      PROVE  FencingInv'
  BY <1>1, AdmitFencing
<1>2. ASSUME NEW s \in Seeded, UpsertFacts(s)
      PROVE  FencingInv'
  BY <1>2, Touch DEF UpsertFacts, Alike
<1>3. ASSUME NEW ids \in SUBSET TaskKey, NEW r \in Run, Claim(ids, r)
      PROVE  FencingInv'
  BY <1>3, ClaimFencing
<1>4. ASSUME NEW a \in Issued, Heartbeat(a)
      PROVE  FencingInv'
  BY <1>4, HeartbeatFencing
<1>5. ASSUME NEW a \in Issued, NEW h \in ContentHash, Publish(a, h)
      PROVE  FencingInv'
  BY <1>5, PublishFencing
<1>6. ASSUME NEW a \in Issued, NEW divergent \in BOOLEAN,
             InvalidOutput(a, divergent)
      PROVE  FencingInv'
  BY <1>6, InvalidOutputFencing
<1>7. ASSUME NEW a \in Issued, NEW retry_after \in RetryAfter,
             Retryable(a, retry_after)
      PROVE  FencingInv'
  BY <1>7, RetryableFencing
<1>8. ASSUME NEW a \in Issued, Permanent(a)
      PROVE  FencingInv'
  BY <1>8, PermanentFencing
<1>9. CASE Recover
  BY <1>9, RecoverFencing
<1>10. ASSUME NEW k \in DOMAIN task, NEW epoch \in 1..task[k].epoch,
              QuarantinePreflight(k, epoch)
       PROVE  FencingInv'
  BY <1>10, QuarantinePreflightFencing
<1>11. CASE Tick
  BY <1>11, TickFencing
<1>12. CASE NewDay
  BY <1>12, Touch DEF NewDay, Alike
<1>13. CASE UNCHANGED vars
  BY <1>13, Touch DEF vars, Alike
<1>. QED
  BY <1>1, <1>2, <1>3, <1>4, <1>5, <1>6, <1>7, <1>8, <1>9, <1>10, <1>11,
     <1>12, <1>13 DEF Next

-----------------------------------------------------------------------------
(* The theorems.                                                           *)

\* The invariant that the theorems below are read off from.
THEOREM FencingInvariant == Spec => []FencingInv
BY TypeCorrect, InitFencing, NextFencing, PTL DEF Spec

\* Whatever its callers present, late, twice or never: a running task is
\* leased to exactly the attempt its token names, the newest of its epoch, and
\* no reservation of a current epoch is left without a holder except by the
\* skip and the preflight that take the task away.
THEOREM LeasesAreOwned == Spec => []LeaseOwnership
BY FencingInvariant, FencingImplies, PTL

\* SQL_CLAIM_NEXT never passes over an open task for ever: both the failure
\* disposition and the recovery kill the task before its retries run out.
THEOREM NoTaskIsStranded == Spec => []OpenTasksHaveRetriesLeft
BY FencingInvariant, FencingImplies, PTL
=============================================================================
