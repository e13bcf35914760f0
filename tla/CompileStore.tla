---------------------------- MODULE CompileStore ----------------------------
(***************************************************************************)
(* The compile tables of the SQLite kernel (kernel/compile_store.rs):      *)
(* admission of sources, the task queue, leases, publication, failure      *)
(* disposition and the recovery of expired leases.                         *)
(*                                                                         *)
(* Every public method of the kernel takes the connection mutex and runs   *)
(* one BEGIN IMMEDIATE transaction, so every method is one atomic action.  *)
(* The callers are left as free as the interface leaves them: whoever was  *)
(* ever given a lease may present it again, late, twice or never.          *)
(*                                                                         *)
(* A table is a function from the keys of its rows.  lease_expires_at and  *)
(* next_attempt_at are kept relative to the clock, so that a second that   *)
(* passes (Tick) takes one from each and time needs no bound.              *)
(*                                                                         *)
(* Definitions named Faulty... are not part of the model: each is the form *)
(* the next definition would take with a plausible bug in it, kept to show *)
(* that the properties at the end notice.                                  *)
(***************************************************************************)
EXTENDS Integers, FiniteSets

CONSTANTS
  Source,        \* the sources that are offered: [entity, rev, body, facts]
  Seeded,        \* those of them whose facts are also imported on their own
  Oversized,     \* the bodies a preflight refuses to compile
  Config,        \* domain_pack_version and everything else that is hashed
  Policy,        \* the part of CompilePolicy that content_hash leaves out
  Run,           \* run ids under which claims reserve
  RetryAfter,    \* Retry-After values a provider may answer with, or Null
  LeaseWindow,   \* LEASE_WINDOW_SECONDS
  MaxRetryAfter, \* the clamp on Retry-After
  Horizon,       \* for how long overdue tasks keep their relative order
  MaxDay,        \* bound: UTC days 0..MaxDay
  MaxEpoch,      \* bound: epochs of one task
  Null           \* SQL NULL

ASSUME SourceAssumption ==
  /\ \A s \in Source : s.rev \in Nat \ {0}
  /\ Seeded \subseteq Source

ASSUME PolicyAssumption ==
  \A p \in Policy :
    /\ p.max_retries \in Nat \ {0}
    /\ p.max_recompiles \in Nat
    /\ p.task_budget \in Nat
    /\ p.batch_budget \in Nat
    /\ p.daily_budget \in Nat \cup {Null}
    /\ p.cost \in Nat \ {0}

ASSUME TimeAssumption ==
  /\ LeaseWindow \in Nat \ {0}
  /\ MaxRetryAfter \in Nat
  /\ Horizon \in Nat \ {0}
  /\ MaxDay \in Nat
  /\ MaxEpoch \in Nat \ {0}
  /\ RetryAfter \subseteq Nat \cup {Null}
  /\ Null \notin Nat

VARIABLES
  facts,       \* facts plane: entity -> [rev, val]
  head,        \* compile_source_heads
  task,        \* compile_tasks, by (entity, source_revision, pack version)
  next_id,     \* the next task_id
  attempt,     \* compile_attempts, by (task, epoch, attempt_no)
  page,        \* pages: page_id is the entity key, so one row per entity
  generation,  \* the last generation allocated
  runs,        \* compile_runs
  days,        \* compile_daily_budget
  day,         \* the current UTC day
  review       \* review_queue rows about tasks

vars == <<facts, head, task, next_id, attempt, page, generation, runs, days,
          day, review>>

-----------------------------------------------------------------------------
(* Keys, hashes and small helpers.                                         *)

Entity == {s.entity : s \in Source}
Revision == {s.rev : s \in Source}
Pack == {c.pack : c \in Config}
TaskKey == [entity : Entity, rev : Revision, pack : Pack]
AttemptId == [task : TaskKey, epoch : Nat, no : Nat]
ReviewKey == [task : TaskKey,
              action : {"compile_dead_letter", "consistency_conflict"}]

\* No lease token is NULL.
ASSUME TokenAssumption == Null \notin AttemptId

\* snapshot_hash covers the whole source; content_hash leaves out the facts,
\* the revision, the budgets and the retry limits.
Snap(s) == [body |-> s.body, facts |-> s.facts]
Hash(s, c) == [entity |-> s.entity, body |-> s.body, config |-> c]
Snapshot == {Snap(s) : s \in Source}
ContentHash == {Hash(s, c) : s \in Source, c \in Config}

Put(table, key, row) ==
  [k \in DOMAIN table \cup {key} |-> IF k = key THEN row ELSE table[k]]

Lesser(a, b) == IF a < b THEN a ELSE b

\* min(2^(retry_count - 1), 60) seconds, with the shift capped at 6.
Backoff(retries) ==
  IF retries <= 1 THEN 1
  ELSE <<1, 2, 4, 8, 16, 32, 60>>[Lesser(retries, 7)]

FaultyFits(reserved, b, limit) == reserved <= limit
Fits(reserved, b, limit) == reserved + b <= limit

\* next_attempt_at = 0: due before every task that was ever put back.
LongAgo == -Horizon

Age(t) == IF t > LongAgo + 1 THEN t - 1 ELSE t

-----------------------------------------------------------------------------
(* Admission: admit_compile_on_conn.                                       *)

\* A lower revision is skipped and the head's revision with another snapshot
\* is rejected; neither writes anything.
FaultyAdmissibleAnySnapshot(s) ==
  s.entity \in DOMAIN head => s.rev >= head[s.entity].rev
FaultyAdmissibleAnyRevision(s) == TRUE
Admissible(s) ==
  s.entity \in DOMAIN head =>
    LET h == head[s.entity]
    IN  \/ s.rev > h.rev
        \/ s.rev = h.rev /\ Snap(s) = h.snap

\* Facts are written for a new head revision, and only over an older row.
FaultyWriteFactsOnce(s) ==
  facts' = IF s.entity \in DOMAIN facts THEN facts
           ELSE Put(facts, s.entity, [rev |-> s.rev, val |-> s.facts])
WriteFacts(s) ==
  LET newer == s.entity \in DOMAIN head => s.rev > head[s.entity].rev
      cas == s.entity \in DOMAIN facts => s.rev > facts[s.entity].rev
  IN  facts' = IF newer /\ cas
                 THEN Put(facts, s.entity, [rev |-> s.rev, val |-> s.facts])
                 ELSE facts

FaultySetHeadOnce(s, c, key, epoch) ==
  head' = IF s.entity \in DOMAIN head THEN head
          ELSE Put(head, s.entity, [rev |-> s.rev, snap |-> Snap(s),
                                    hash |-> Hash(s, c), task |-> key,
                                    epoch |-> epoch])
SetHead(s, c, key, epoch) ==
  head' = Put(head, s.entity, [rev |-> s.rev, snap |-> Snap(s),
                               hash |-> Hash(s, c), task |-> key,
                               epoch |-> epoch])

NewTask(s, c, p) ==
  [id |-> next_id, status |-> "pending", result |-> "none", epoch |-> 1,
   hash |-> Hash(s, c), snap |-> Snap(s), policy |-> p,
   max_retries |-> p.max_retries, budget |-> p.task_budget,
   reserved |-> 0, attempts |-> 0, retries |-> 0, recompiles |-> 0,
   token |-> Null, expires |-> 0, next |-> LongAgo]

InsertTask(key, row) ==
  /\ task' = Put(task, key, row)
  /\ next_id' = next_id + 1

\* The accepted page already has this hash and force is off.
UpToDate(s, c, force) ==
  /\ ~force
  /\ s.entity \in DOMAIN page
  /\ page[s.entity].hash = Hash(s, c)

KeyOf(s, c) == [entity |-> s.entity, rev |-> s.rev, pack |-> c.pack]

\* record_skipped_task and the head, when the revision is newer than the
\* page's; an existing task row keeps its desired_hash, epoch and counters.
Skip(s, c, p) ==
  LET key == KeyOf(s, c)
  IN  IF s.rev > page[s.entity].rev
        THEN IF key \in DOMAIN task
               THEN /\ task' = [task EXCEPT
                          ![key].status = "succeeded",
                          ![key].result = "skipped", ![key].token = Null,
                          ![key].expires = 0, ![key].next = LongAgo]
                    /\ SetHead(s, c, key, task[key].epoch)
                    /\ UNCHANGED next_id
               ELSE /\ InsertTask(key, [NewTask(s, c, p) EXCEPT
                          !.status = "succeeded", !.result = "skipped"])
                    /\ SetHead(s, c, key, 1)
        ELSE UNCHANGED <<head, task, next_id>>

\* The triple has a row with the same hash and force is off: an open task is
\* given the new snapshots, a terminal one stays as it is.
Merge(s, c, p) ==
  LET key == KeyOf(s, c)
  IN  /\ task' = IF task[key].status \in {"pending", "running"}
                   THEN [task EXCEPT ![key].snap = Snap(s),
                                     ![key].policy = p]
                   ELSE task
      /\ SetHead(s, c, key, task[key].epoch)
      /\ UNCHANGED next_id

\* The triple has a row with another hash, or force is on: the next epoch
\* starts, with all counters but reserved_tokens at zero.
Restart(s, c, p) ==
  LET key == KeyOf(s, c)
      t == task[key]
  IN  /\ t.epoch < MaxEpoch
      /\ task' = [task EXCEPT ![key] =
            [NewTask(s, c, p) EXCEPT !.id = t.id, !.epoch = t.epoch + 1,
                                     !.reserved = t.reserved]]
      /\ SetHead(s, c, key, t.epoch + 1)
      /\ UNCHANGED next_id

Admit(s, c, p, force) ==
  LET key == KeyOf(s, c)
      known == key \in DOMAIN task
      same == known /\ task[key].hash = Hash(s, c) /\ ~force
  IN  /\ Admissible(s)
      /\ WriteFacts(s)
      /\ \/ UpToDate(s, c, force) /\ Skip(s, c, p)
         \/ ~UpToDate(s, c, force) /\ same /\ Merge(s, c, p)
         \/ ~UpToDate(s, c, force) /\ known /\ ~same /\ Restart(s, c, p)
         \/ /\ ~UpToDate(s, c, force) /\ ~known
            /\ InsertTask(key, NewTask(s, c, p))
            /\ SetHead(s, c, key, 1)
      /\ UNCHANGED <<attempt, page, generation, runs, days, day, review>>

\* EntityStore::upsert_facts: the facts plane alone, under the same CAS.
UpsertFacts(s) ==
  /\ s.entity \in DOMAIN facts => s.rev > facts[s.entity].rev
  /\ facts' = Put(facts, s.entity, [rev |-> s.rev, val |-> s.facts])
  /\ UNCHANGED <<head, task, next_id, attempt, page, generation, runs, days,
                 day, review>>

-----------------------------------------------------------------------------
(* Claiming: SQL_CLAIM_NEXT and claim_in_transaction.                      *)

Due(k) ==
  /\ task[k].status = "pending"
  /\ task[k].next <= 0
  /\ task[k].retries < task[k].max_retries

Precedes(j, k) ==
  \/ task[j].next < task[k].next
  \/ task[j].next = task[k].next /\ task[j].id <= task[k].id

\* The one candidate a claim looks at: the first of the due tasks.
Candidate(ids, k) ==
  /\ k \in ids \cap DOMAIN task
  /\ Due(k)
  /\ \A j \in ids \cap DOMAIN task : Due(j) => Precedes(k, j)

\* The run row is created with the candidate's batch budget, the day row
\* with its daily budget; a stored daily limit can only get smaller.
OpenRun(r, p) ==
  IF r \in DOMAIN runs THEN runs
  ELSE Put(runs, r, [limit |-> p.batch_budget, reserved |-> 0])

OpenDay(p) ==
  IF p.daily_budget = Null THEN days
  ELSE IF day \in DOMAIN days
         THEN [days EXCEPT ![day].limit = Lesser(@, p.daily_budget)]
         ELSE Put(days, day, [limit |-> p.daily_budget, reserved |-> 0])

FaultyReserveAnew(table, key, b) ==
  IF key \in DOMAIN table THEN [table EXCEPT ![key].reserved = b] ELSE table
Reserve(table, key, b) ==
  IF key \in DOMAIN table THEN [table EXCEPT ![key].reserved = @ + b]
  ELSE table

\* The candidate cannot be afforded: Ok(None), with the run and day rows kept.
Defer(r, p) ==
  /\ runs' = OpenRun(r, p)
  /\ days' = IF Fits(OpenRun(r, p)[r].reserved, p.cost, OpenRun(r, p)[r].limit)
               THEN OpenDay(p) ELSE days
  /\ UNCHANGED <<facts, head, task, next_id, attempt, page, generation, day,
                 review>>

Affordable(r, p) ==
  /\ Fits(OpenRun(r, p)[r].reserved, p.cost, OpenRun(r, p)[r].limit)
  /\ day \in DOMAIN OpenDay(p) =>
       Fits(OpenDay(p)[day].reserved, p.cost, OpenDay(p)[day].limit)

\* All three budgets are reserved, the attempt is recorded and the task is
\* leased under a token nobody else was ever given.
Lease(k, r) ==
  LET t == task[k]
      a == [task |-> k, epoch |-> t.epoch, no |-> t.attempts + 1]
  IN  /\ runs' = Reserve(OpenRun(r, t.policy), r, t.policy.cost)
      /\ days' = Reserve(OpenDay(t.policy), day, t.policy.cost)
      /\ attempt' = Put(attempt, a,
                        [status |-> "reserved", hash |-> t.hash, run |-> r,
                         day |-> day, reserved |-> t.policy.cost])
      /\ task' = [task EXCEPT ![k].status = "running", ![k].token = a,
                              ![k].expires = LeaseWindow,
                              ![k].attempts = @ + 1,
                              ![k].reserved = @ + t.policy.cost]
      /\ UNCHANGED <<facts, head, next_id, page, generation, day, review>>

Claim(ids, r) ==
  \E k \in ids :
    /\ Candidate(ids, k)
    /\ Fits(task[k].reserved, task[k].policy.cost, task[k].budget)
    /\ \/ Affordable(r, task[k].policy) /\ Lease(k, r)
       \/ ~Affordable(r, task[k].policy) /\ Defer(r, task[k].policy)

-----------------------------------------------------------------------------
(* What the holder of lease a may do.                                      *)

\* The fencing tuple every handler checks.
FaultyLiveAnyToken(a) ==
  LET t == task[a.task]
  IN  t.status = "running" /\ t.epoch = a.epoch /\ t.expires > 0
FaultyLiveEpochOnly(a) == task[a.task].epoch = a.epoch
Live(a) ==
  LET t == task[a.task]
  IN  /\ t.status = "running"
      /\ t.epoch = a.epoch
      /\ t.token = a
      /\ t.expires > 0

Heartbeat(a) ==
  /\ Live(a)
  /\ task' = [task EXCEPT ![a.task].expires = LeaseWindow]
  /\ UNCHANGED <<facts, head, next_id, attempt, page, generation, runs, days,
                 day, review>>

Finish(t, status, result) ==
  [t EXCEPT !.status = status, !.result = result, !.token = Null,
            !.expires = 0]

PutBack(t, wait) ==
  [t EXCEPT !.status = "pending", !.next = wait, !.token = Null,
            !.expires = 0]

\* The head still wants what the task wants: only the hashes are compared.
FaultyHeadWants(k) == TRUE
HeadWants(k) ==
  k.entity \in DOMAIN head /\ head[k.entity].hash = task[k].hash

\* The page row takes the task's revision, not the head's.
FaultyPageRow(k, h) ==
  [hash |-> h, gen |-> generation + 1, rev |-> head[k.entity].rev]
PageRow(k, h) == [hash |-> h, gen |-> generation + 1, rev |-> k.rev]

\* publish_in_transaction with a page of content hash h.  A replay, a stale
\* lease, a moved head and a page with another hash change nothing.
Publish(a, h) ==
  LET k == a.task
  IN  /\ Live(a)
      /\ HeadWants(k)
      /\ h = attempt[a].hash
      /\ generation' = generation + 1
      /\ page' = Put(page, k.entity, PageRow(k, h))
      /\ attempt' = [attempt EXCEPT ![a].status = "accepted"]
      /\ task' = [task EXCEPT ![k] = Finish(@, "succeeded", "accepted")]
      /\ UNCHANGED <<facts, head, next_id, runs, days, day, review>>

DeadLetter(k) == [task |-> k, action |-> "compile_dead_letter"]
Conflict(k) == [task |-> k, action |-> "consistency_conflict"]

\* INSERT ... ON CONFLICT DO NOTHING.
FaultyEnqueueNothing(keys) == UNCHANGED review
Enqueue(keys) ==
  review' = [r \in DOMAIN review \cup keys |->
               IF r \in DOMAIN review THEN review[r] ELSE "pending"]

\* finish_failure_in_transaction, CompileFailure::InvalidOutput: the page
\* brake.  divergent: the round had VALUE_DIVERGENCE findings.
InvalidOutput(a, divergent) ==
  LET k == a.task
      t == [task[k] EXCEPT !.recompiles = @ + 1]
  IN  /\ Live(a)
      /\ attempt' = [attempt EXCEPT ![a].status = "completed"]
      /\ IF t.recompiles > t.policy.max_recompiles
           THEN /\ task' = [task EXCEPT ![k] =
                              Finish(t, "dead", "quarantined")]
                /\ Enqueue({DeadLetter(k)} \cup
                           (IF divergent THEN {Conflict(k)} ELSE {}))
           ELSE /\ task' = [task EXCEPT ![k] =
                              PutBack(t, Backoff(t.retries))]
                /\ UNCHANGED review
      /\ UNCHANGED <<facts, head, next_id, page, generation, runs, days, day>>

\* ... CompileFailure::Retryable: the task brake.
Retryable(a, retry_after) ==
  LET k == a.task
      t == [task[k] EXCEPT !.retries = @ + 1]
      wait == IF retry_after = Null THEN Backoff(t.retries)
              ELSE Lesser(retry_after, MaxRetryAfter)
  IN  /\ Live(a)
      /\ attempt' = [attempt EXCEPT ![a].status = "completed"]
      /\ IF t.retries >= t.max_retries
           THEN /\ task' = [task EXCEPT ![k] = Finish(t, "dead", "failed")]
                /\ Enqueue({DeadLetter(k)})
           ELSE /\ task' = [task EXCEPT ![k] = PutBack(t, wait)]
                /\ UNCHANGED review
      /\ UNCHANGED <<facts, head, next_id, page, generation, runs, days, day>>

\* ... CompileFailure::Permanent.
Permanent(a) ==
  /\ Live(a)
  /\ attempt' = [attempt EXCEPT ![a].status = "completed"]
  /\ task' = [task EXCEPT ![a.task] = Finish(@, "failed", "failed")]
  /\ UNCHANGED <<facts, head, next_id, page, generation, runs, days, day,
                 review>>

-----------------------------------------------------------------------------
(* Recovery, preflight and time.                                           *)

Expired(k) == task[k].status = "running" /\ task[k].expires <= 0

Superseded(k) ==
  k.entity \in DOMAIN head /\ head[k.entity].hash # task[k].hash

FaultyExhausted(k) == task[k].retries >= task[k].max_retries
Exhausted(k) == task[k].retries + 1 >= task[k].max_retries

RecoveredTask(k) ==
  LET t == [task[k] EXCEPT !.retries = @ + 1]
  IN  IF Superseded(k) THEN Finish(task[k], "succeeded", "superseded")
      ELSE IF Exhausted(k) THEN Finish(t, "dead", "failed")
      ELSE PutBack(t, Backoff(t.retries))

FaultyAbandoned(a) == Expired(a.task)
Abandoned(a) ==
  /\ Expired(a.task)
  /\ a.epoch = task[a.task].epoch
  /\ a.no = task[a.task].attempts
  /\ a = task[a.task].token
  /\ attempt[a].status = "reserved"

\* recover_compile_leases: every expired lease, in one transaction.
Recover ==
  /\ \E k \in DOMAIN task : Expired(k)
  /\ task' = [k \in DOMAIN task |->
                IF Expired(k) THEN RecoveredTask(k) ELSE task[k]]
  /\ attempt' = [a \in DOMAIN attempt |->
                   IF Abandoned(a)
                     THEN [attempt[a] EXCEPT !.status = "abandoned"]
                     ELSE attempt[a]]
  /\ Enqueue({DeadLetter(k) : k \in {j \in DOMAIN task :
                Expired(j) /\ ~Superseded(j) /\ Exhausted(j)}})
  /\ UNCHANGED <<facts, head, next_id, page, generation, runs, days, day>>

\* quarantine_compile_preflight: a synthetic attempt 0, no review row.
QuarantinePreflight(k, epoch) ==
  LET a == [task |-> k, epoch |-> epoch, no |-> 0]
  IN  /\ task[k].snap.body \in Oversized
      /\ attempt' = IF a \in DOMAIN attempt THEN attempt
                    ELSE Put(attempt, a, [status |-> "completed",
                                          hash |-> task[k].hash, run |-> Null,
                                          day |-> Null, reserved |-> 0])
      /\ task' = IF /\ task[k].epoch = epoch
                    /\ task[k].status \in {"pending", "running"}
                   THEN [task EXCEPT ![k] =
                           Finish(@, "dead", "quarantined")]
                   ELSE task
      /\ UNCHANGED <<facts, head, next_id, page, generation, runs, days, day,
                     review>>

Tick ==
  /\ task' = [k \in DOMAIN task |->
                [task[k] EXCEPT !.expires = IF @ > 0 THEN @ - 1 ELSE @,
                                !.next = Age(@)]]
  /\ UNCHANGED <<facts, head, next_id, attempt, page, generation, runs, days,
                 day, review>>

NewDay ==
  /\ day < MaxDay
  /\ day' = day + 1
  /\ UNCHANGED <<facts, head, task, next_id, attempt, page, generation, runs,
                 days, review>>

-----------------------------------------------------------------------------
EmptyTable == [k \in {} |-> k]

Init ==
  /\ facts = EmptyTable /\ head = EmptyTable /\ task = EmptyTable
  /\ attempt = EmptyTable /\ page = EmptyTable /\ runs = EmptyTable
  /\ days = EmptyTable /\ review = EmptyTable
  /\ next_id = 1 /\ generation = 0 /\ day = 0

Issued == {a \in DOMAIN attempt : a.no > 0}

Next ==
  \/ \E s \in Source, c \in Config, p \in Policy, force \in BOOLEAN :
       Admit(s, c, p, force)
  \/ \E s \in Seeded : UpsertFacts(s)
  \/ \E ids \in SUBSET TaskKey, r \in Run : Claim(ids, r)
  \/ \E a \in Issued : Heartbeat(a)
  \/ \E a \in Issued, h \in ContentHash : Publish(a, h)
  \/ \E a \in Issued, divergent \in BOOLEAN : InvalidOutput(a, divergent)
  \/ \E a \in Issued, retry_after \in RetryAfter : Retryable(a, retry_after)
  \/ \E a \in Issued : Permanent(a)
  \/ Recover
  \/ \E k \in DOMAIN task : \E epoch \in 1..task[k].epoch :
       QuarantinePreflight(k, epoch)
  \/ Tick
  \/ NewDay

Spec == Init /\ [][Next]_vars

-----------------------------------------------------------------------------
(* Type correctness.                                                       *)

Task == [id : Nat \ {0},
         status : {"pending", "running", "succeeded", "failed", "dead"},
         result : {"none", "accepted", "quarantined", "failed", "skipped",
                   "superseded"},
         epoch : Nat \ {0}, hash : ContentHash, snap : Snapshot,
         policy : Policy, max_retries : Nat, budget : Nat, reserved : Nat,
         attempts : Nat, retries : Nat, recompiles : Nat,
         token : AttemptId \cup {Null}, expires : Nat, next : Int]

Attempt == [status : {"reserved", "accepted", "completed", "abandoned"},
            hash : ContentHash, run : Run \cup {Null}, day : Nat \cup {Null},
            reserved : Nat]

Ledger == [limit : Nat, reserved : Nat]

\* A table with keys in S and rows in T.
IsTable(table, S, T) ==
  /\ DOMAIN table \subseteq S
  /\ table = [k \in DOMAIN table |-> table[k]]
  /\ \A k \in DOMAIN table : table[k] \in T

\* Every row of every table has the shape the schema gives it.
TypeOK ==
  /\ IsTable(facts, Entity,
             [rev : Revision, val : {s.facts : s \in Source}])
  /\ IsTable(head, Entity,
             [rev : Revision, snap : Snapshot, hash : ContentHash,
              task : TaskKey, epoch : Nat \ {0}])
  /\ IsTable(task, TaskKey, Task)
  /\ IsTable(attempt, AttemptId, Attempt)
  /\ IsTable(page, Entity,
             [hash : ContentHash, gen : Nat \ {0}, rev : Revision])
  /\ IsTable(runs, Run, Ledger)
  /\ IsTable(days, Nat, Ledger)
  /\ IsTable(review, ReviewKey, {"pending", "approved", "ignored"})
  /\ next_id \in Nat \ {0} /\ generation \in Nat /\ day \in Nat

-----------------------------------------------------------------------------
(* Safety.                                                                 *)

Open(k) == task[k].status \in {"pending", "running"}

\* A running task is leased to exactly the attempt its token names, which is
\* the newest of its epoch; a reservation of the current epoch that nobody
\* holds is one a skip or a preflight quarantine took the task away from.
LeaseOwnership ==
  /\ \A k \in DOMAIN task : task[k].status = "running" =>
       LET a == [task |-> k, epoch |-> task[k].epoch, no |-> task[k].attempts]
       IN  /\ task[k].token = a
           /\ a \in DOMAIN attempt
           /\ attempt[a].status = "reserved"
           /\ attempt[a].hash = task[k].hash
  /\ \A a \in DOMAIN attempt :
       /\ attempt[a].status = "reserved"
       /\ a.epoch = task[a.task].epoch
       => \/ task[a.task].token = a
          \/ task[a.task].result \in {"skipped", "quarantined"}

\* An epoch of a task is accepted at most once, whatever its holders replay
\* or deliver late, and generations are allocated by acceptances only.
OneAcceptancePerEpoch ==
  LET accepted == {a \in DOMAIN attempt : attempt[a].status = "accepted"}
  IN  /\ \A a, b \in accepted :
           a.task = b.task /\ a.epoch = b.epoch => a = b
      /\ generation = Cardinality(accepted)

\* Every page is the artifact of an accepted attempt on its own revision.
PagesAreBacked ==
  \A e \in DOMAIN page : \E a \in DOMAIN attempt :
    /\ attempt[a].status = "accepted"
    /\ attempt[a].hash = page[e].hash
    /\ a.task.entity = e
    /\ a.task.rev = page[e].rev

\* An open task has retries left: SQL_CLAIM_NEXT passes over the others, so
\* one without would wait for ever without being dead.
OpenTasksHaveRetriesLeft ==
  \A k \in DOMAIN task : Open(k) => task[k].retries < task[k].max_retries

\* A dead task has a dead letter, unless a preflight put it there.
DeadTasksAreEscalated ==
  \A k \in DOMAIN task : task[k].status = "dead" =>
    \/ DeadLetter(k) \in DOMAIN review
    \/ [task |-> k, epoch |-> task[k].epoch, no |-> 0] \in DOMAIN attempt

\* Knowledge lags the head and the head lags the facts, never the reverse:
\* no path writes the facts of a revision and leaves the head behind a page.
PlanesAreOrdered ==
  /\ \A e \in DOMAIN head :
       e \in DOMAIN facts /\ head[e].rev <= facts[e].rev
  /\ \A e \in DOMAIN page :
       e \in DOMAIN head /\ page[e].rev <= head[e].rev

\* A revision is one snapshot, whatever its packs and builds: its tasks were
\* admitted from one snapshot and want a hash of that snapshot's body, and the
\* page of the revision the head is at has the body of the head's snapshot.
OneSnapshotPerRevision ==
  /\ \A j, k \in DOMAIN task :
       j.entity = k.entity /\ j.rev = k.rev =>
         task[j].snap = task[k].snap /\ task[j].hash.body = task[k].snap.body
  /\ \A e \in DOMAIN page \cap DOMAIN head :
       page[e].rev = head[e].rev => page[e].hash.body = head[e].snap.body

\* The head names a task that exists, in its current epoch, and wants what
\* that task wants, unless the task was skipped under another hash.
HeadsNameTheirTask ==
  \A e \in DOMAIN head :
    LET h == head[e]
    IN  /\ h.task \in DOMAIN task
        /\ h.task.entity = e /\ h.task.rev = h.rev
        /\ task[h.task].epoch = h.epoch
        /\ task[h.task].snap = h.snap
        /\ task[h.task].hash = h.hash \/ task[h.task].result = "skipped"

-----------------------------------------------------------------------------
(* What a step may never do.                                               *)

\* Rows stay, epochs only grow, and a terminal task is reopened only by a
\* new epoch: no late worker and no recovery brings an old one back.
TerminalUntilNewEpoch ==
  [][\A k \in DOMAIN task :
       /\ k \in DOMAIN task'
       /\ task'[k].epoch >= task[k].epoch
       /\ task'[k].reserved >= task[k].reserved
       /\ ~Open(k) /\ task'[k].epoch = task[k].epoch =>
            task'[k].status \notin {"pending", "running"}]_vars

\* The outcome of an attempt is final, and only a live lease gets one.
OutcomesAreFinal ==
  [][\A a \in DOMAIN attempt :
       /\ a \in DOMAIN attempt'
       /\ attempt[a].status # "reserved" => attempt'[a] = attempt[a]
       /\ attempt[a].status = "reserved" /\ attempt'[a].status # "reserved"
          => task[a.task].status = "running" /\ task[a.task].token = a]_vars

\* A page is replaced by what the head wants, with a larger generation, and
\* by the newest claim of a task: an older worker never gets through.
PublishIsFenced ==
  [][\A e \in DOMAIN page' :
       e \notin DOMAIN page \/ page'[e] # page[e] =>
         /\ e \in DOMAIN head /\ page'[e].hash = head[e].hash
         /\ e \in DOMAIN page => page'[e].gen > page[e].gen
         /\ \A a \in DOMAIN attempt :
              attempt'[a].status = "accepted" /\ attempt[a].status # "accepted"
              => /\ a.epoch = task[a.task].epoch
                 /\ a.no = task[a.task].attempts]_vars

\* Heads and facts never go back, and a revision keeps its snapshot.
RevisionsNeverRegress ==
  [][/\ \A e \in DOMAIN head :
          \/ head'[e].rev > head[e].rev
          \/ head'[e].rev = head[e].rev /\ head'[e].snap = head[e].snap
     /\ \A e \in DOMAIN facts :
          facts'[e] = facts[e] \/ facts'[e].rev > facts[e].rev]_vars

\* A claim is charged to its task, to its run and, once a limit exists for
\* the day, to the day, also under a policy that sets none; and it fits all.
ClaimsAreCharged ==
  [][\A a \in DOMAIN attempt' \ DOMAIN attempt : a.no > 0 =>
       LET b == attempt'[a].reserved
           r == attempt'[a].run
           Before(table, key) ==
             IF key \in DOMAIN table THEN table[key].reserved ELSE 0
       IN  /\ task'[a.task].reserved = task[a.task].reserved + b
           /\ task'[a.task].reserved <= task'[a.task].budget
           /\ runs'[r].reserved = Before(runs, r) + b
           /\ runs'[r].reserved <= runs'[r].limit
           /\ day \in DOMAIN days' =>
                /\ days'[day].reserved = Before(days, day) + b
                /\ days'[day].reserved <= days'[day].limit]_vars

\* Nothing is refunded or charged twice: a ledger is the sum of the attempts
\* made under it (of a day, those made since its limit was first set).
\* A sum counts the tokens one by one.
SumReserved(S) ==
  Cardinality(UNION {{a} \X (1..attempt[a].reserved) : a \in S})

LedgersAgree ==
  /\ \A k \in DOMAIN task :
       task[k].reserved = SumReserved({a \in DOMAIN attempt : a.task = k})
  /\ \A r \in DOMAIN runs : runs[r].reserved =
       SumReserved({a \in DOMAIN attempt : attempt[a].run = r})
  /\ \A d \in DOMAIN days : days[d].reserved <=
       SumReserved({a \in DOMAIN attempt : attempt[a].day = d})

-----------------------------------------------------------------------------
\* The reaper, the worker's poll loop and the clock do not stop.
FairSpec ==
  /\ Spec
  /\ WF_vars(Tick)
  /\ WF_vars(Recover)
  /\ WF_vars(\E ids \in SUBSET TaskKey, r \in Run : Claim(ids, r))
=============================================================================
