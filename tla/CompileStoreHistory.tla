------------------------- MODULE CompileStoreHistory -------------------------
(***************************************************************************)
(* What the tables of CompileStore remember of each other across steps,    *)
(* for every value of the constants: facts, heads, tasks, pages, attempts  *)
(* and reviews.  The first part says what a step may do to one row, in the *)
(* few terms the properties need; the second is the inductive invariant    *)
(* HistoryInv; the last reads the properties off from both.                *)
(***************************************************************************)
EXTENDS CompileStoreProofs, FiniteSetTheorems

IsOpen(t) == t.status \in {"pending", "running"}

\* What work on a task (anything but an admission) may do to its row.
Worked(t, u) ==
  /\ u.epoch = t.epoch /\ u.hash = t.hash /\ u.snap = t.snap
  /\ u.reserved >= t.reserved
  /\ IsOpen(u) => IsOpen(t)
  /\ ~IsOpen(t) => u.status = t.status /\ u.result = t.result

\* What an admission of s under c may do to the row of its key.
Admitted(t, u, s, c) ==
  /\ u.reserved = t.reserved
  /\ \/ /\ u.epoch = t.epoch /\ u.hash = t.hash
        /\ u.snap \in {t.snap, Snap(s)}
        /\ IsOpen(u) => IsOpen(t)
        /\ u.status = "dead" => t.status = "dead"
     \/ /\ u.epoch = t.epoch + 1 /\ u.hash = Hash(s, c)
        /\ u.snap = Snap(s) /\ u.status = "pending"

\* What any step may do to an attempt: only its holder gives it an outcome.
Kept(a) ==
  /\ a \in DOMAIN attempt'
  /\ \/ attempt'[a] = attempt[a]
     \/ /\ attempt[a].status = "reserved" /\ attempt'[a].hash = attempt[a].hash
        /\ task[a.task].status = "running" /\ task[a.task].token = a

TasksAreWorked ==
  /\ DOMAIN task' = DOMAIN task
  /\ \A k \in DOMAIN task : Worked(task[k], task'[k])

AttemptsAreKept == \A a \in DOMAIN attempt : Kept(a)

Accepted == {a \in DOMAIN attempt : attempt[a].status = "accepted"}

-----------------------------------------------------------------------------
(* Steps, row by row.                                                      *)

LEMMA Unworked ==
  ASSUME TypeOK, UNCHANGED task
  PROVE  TasksAreWorked
<1>1. \A k \in DOMAIN task : task[k].reserved \in Nat
  BY DEF TypeOK, IsTable, Task
<1>. QED
  BY <1>1 DEF TasksAreWorked, Worked

\* One row that is worked on.
LEMMA WorkedRow ==
  ASSUME TypeOK, NEW k \in DOMAIN task, NEW u,
         task' = [task EXCEPT ![k] = u], Worked(task[k], u)
  PROVE  TasksAreWorked
<1>1. \A j \in DOMAIN task : task[j].reserved \in Nat
  BY DEF TypeOK, IsTable, Task
<1>. QED
  BY <1>1 DEF TasksAreWorked, Worked

\* Rows of an open task that only move within the columns of a lease.
LEMMA WorkedFields ==
  ASSUME NEW t \in Task, IsOpen(t)
  PROVE  /\ \A status, result : Worked(t, Finish(t, status, result))
         /\ \A wait : Worked(t, PutBack(t, wait))
<1>1. t.reserved \in Nat
  BY DEF Task
<1>. QED
  BY <1>1 DEF Finish, PutBack, Worked, IsOpen, Task

\* A holder's outcome, through a failure counter or not.
LEMMA CountedWork ==
  ASSUME NEW t \in Task, IsOpen(t)
  PROVE  /\ LET u == [t EXCEPT !.retries = t.retries + 1]
            IN  /\ \A status, result : Worked(t, Finish(u, status, result))
                /\ \A wait : Worked(t, PutBack(u, wait))
         /\ LET u == [t EXCEPT !.recompiles = t.recompiles + 1]
            IN  /\ \A status, result : Worked(t, Finish(u, status, result))
                /\ \A wait : Worked(t, PutBack(u, wait))
<1>1. t.reserved \in Nat
  BY DEF Task
<1>2. ASSUME NEW u \in Task, u.epoch = t.epoch, u.hash = t.hash,
             u.snap = t.snap, u.reserved = t.reserved, IsOpen(u)
      PROVE  /\ \A status, result : Worked(t, Finish(u, status, result))
             /\ \A wait : Worked(t, PutBack(u, wait))
  BY <1>1, <1>2 DEF Finish, PutBack, Worked, IsOpen, Task
<1>3. LET u == [t EXCEPT !.retries = t.retries + 1]
      IN  /\ u \in Task /\ u.epoch = t.epoch /\ u.hash = t.hash
          /\ u.snap = t.snap /\ u.reserved = t.reserved /\ IsOpen(u)
  <2>1. [t EXCEPT !.retries = t.retries + 1] \in Task
    BY CountedTypes
  <2>. QED
    BY <2>1 DEF Task, IsOpen
<1>4. LET u == [t EXCEPT !.recompiles = t.recompiles + 1]
      IN  /\ u \in Task /\ u.epoch = t.epoch /\ u.hash = t.hash
          /\ u.snap = t.snap /\ u.reserved = t.reserved /\ IsOpen(u)
  <2>1. [t EXCEPT !.recompiles = t.recompiles + 1] \in Task
    BY CountedTypes
  <2>. QED
    BY <2>1 DEF Task, IsOpen
<1>. QED
  BY <1>2, <1>3, <1>4

\* The holder of a live lease closes its attempt.
LEMMA ClosedAttempt ==
  ASSUME TypeOK, FencingInv, NEW a \in Issued, Live(a), NEW status,
         attempt' = [attempt EXCEPT ![a].status = status]
  PROVE  /\ AttemptsAreKept /\ DOMAIN attempt' = DOMAIN attempt
         /\ attempt'[a].status = status /\ attempt[a].status = "reserved"
         /\ attempt'[a].hash = attempt[a].hash
         /\ attempt[a].hash = task[a.task].hash
         /\ a.epoch = task[a.task].epoch /\ a.no = task[a.task].attempts
         /\ \A b \in DOMAIN attempt : b # a => attempt'[b] = attempt[b]
<1>1. /\ a \in DOMAIN attempt /\ a.task \in DOMAIN task
      /\ task[a.task].status = "running" /\ task[a.task].token = a
  BY HolderFacts DEF Live
<1>2. /\ a = Holder(a.task) /\ attempt[a].status = "reserved"
      /\ attempt[a].hash = task[a.task].hash
  BY <1>1 DEF FencingInv, HeldByHolder
<1>3. a.epoch = task[a.task].epoch /\ a.no = task[a.task].attempts
  BY <1>2 DEF Holder
<1>4. attempt[a] \in Attempt
  BY <1>1 DEF TypeOK, IsTable
<1>5. /\ DOMAIN attempt' = DOMAIN attempt
      /\ attempt'[a] = [attempt[a] EXCEPT !.status = status]
      /\ \A b \in DOMAIN attempt : b # a => attempt'[b] = attempt[b]
  BY <1>1
<1>6. attempt'[a].status = status /\ attempt'[a].hash = attempt[a].hash
  BY <1>4, <1>5 DEF Attempt
<1>. QED
  BY <1>1, <1>2, <1>3, <1>5, <1>6 DEF AttemptsAreKept, Kept

-----------------------------------------------------------------------------
(* Steps, action by action.                                                *)

LEMMA ClaimWork ==
  ASSUME TypeOK, FencingInv, NEW ids \in SUBSET TaskKey, NEW r \in Run,
         Claim(ids, r)
  PROVE  /\ TasksAreWorked /\ AttemptsAreKept
         /\ \/ UNCHANGED attempt
            \/ \E a, row : /\ a \notin DOMAIN attempt
                           /\ attempt' = Put(attempt, a, row)
                           /\ row.status = "reserved"
         /\ UNCHANGED <<facts, head, page, generation, review>>
<1>1. PICK k \in ids :
        Candidate(ids, k) /\ (Lease(k, r) \/ Defer(r, task[k].policy))
  BY DEF Claim
<1>2. /\ k \in DOMAIN task /\ task[k].status = "pending"
      /\ task[k] \in Task
  BY <1>1, RowOf DEF Candidate, Due, TypeOK
<1>3. CASE Defer(r, task[k].policy)
  BY <1>3, Unworked DEF Defer, AttemptsAreKept, Kept
<1>4. CASE Lease(k, r)
  <2>. DEFINE t == task[k]
              a == [task |-> k, epoch |-> t.epoch, no |-> t.attempts + 1]
              row == [status |-> "reserved", hash |-> t.hash, run |-> r,
                      day |-> day, reserved |-> t.policy.cost]
              u == [t EXCEPT !.status = "running", !.token = a,
                             !.expires = LeaseWindow,
                             !.attempts = t.attempts + 1,
                             !.reserved = t.reserved + t.policy.cost]
  <2>1. attempt' = Put(attempt, a, row) /\ task' = [task EXCEPT ![k] = u]
    BY <1>2, <1>4 DEF Lease, Task
  <2>2. t.reserved \in Nat /\ t.policy.cost \in Nat /\ t.attempts \in Nat
    BY <1>2, PolicyAssumption DEF Task
  <2>3. Worked(t, u)
    BY <1>2, <2>2 DEF Worked, IsOpen, Task
  <2>4. a \notin DOMAIN attempt
    BY <2>2 DEF FencingInv, Belongs
  <2>5. row.status = "reserved"
    OBVIOUS
  <2>6. UNCHANGED <<facts, head, page, generation, review>>
    BY <1>4 DEF Lease
  <2>. HIDE DEF u, row, a
  <2>7. TasksAreWorked
    BY <1>2, <2>1, <2>3, WorkedRow
  <2>8. AttemptsAreKept
    BY <2>1, <2>4 DEF AttemptsAreKept, Kept, Put
  <2>. QED
    BY <2>1, <2>4, <2>5, <2>6, <2>7, <2>8
<1>. QED
  BY <1>1, <1>3, <1>4

LEMMA HeartbeatWork ==
  ASSUME TypeOK, FencingInv, NEW a \in Issued, Heartbeat(a)
  PROVE  /\ TasksAreWorked
         /\ UNCHANGED <<facts, head, attempt, page, generation, review>>
<1>. DEFINE k == a.task
            u == [task[k] EXCEPT !.expires = LeaseWindow]
<1>1. k \in DOMAIN task /\ task[k] \in Task
  BY HolderFacts DEF Heartbeat
<1>2. task' = [task EXCEPT ![k] = u]
  BY <1>1 DEF Heartbeat
<1>3. Worked(task[k], u)
  BY <1>1 DEF Task, Worked, IsOpen
<1>. HIDE DEF k, u
<1>. QED
  BY <1>1, <1>2, <1>3, WorkedRow DEF Heartbeat

\* Publication, apart from the page.
LEMMA PublishWork ==
  ASSUME TypeOK, FencingInv, NEW a \in Issued, NEW h, Publish(a, h)
  PROVE  /\ TasksAreWorked
         /\ task'[a.task].status = "succeeded"
         /\ a.task \in DOMAIN task
<1>. DEFINE u == Finish(task[a.task], "succeeded", "accepted")
<1>1. Live(a) /\ task' = [task EXCEPT ![a.task] = u]
  BY DEF Publish
<1>2. /\ task[a.task] \in Task /\ a.task \in DOMAIN task
      /\ task[a.task].status = "running"
  BY <1>1, HolderFacts
<1>3. Worked(task[a.task], u) /\ u.status = "succeeded"
  BY <1>2, WorkedFields, FinishFields DEF IsOpen
<1>. HIDE DEF u
<1>4. TasksAreWorked
  BY <1>1, <1>2, <1>3, WorkedRow
<1>. QED
  BY <1>1, <1>2, <1>3, <1>4

\* The other outcomes.
LEMMA FailureWork ==
  ASSUME TypeOK, FencingInv, NEW a \in Issued,
         \/ \E divergent \in BOOLEAN : InvalidOutput(a, divergent)
         \/ \E retry_after \in RetryAfter : Retryable(a, retry_after)
         \/ Permanent(a)
  PROVE  /\ TasksAreWorked
         /\ Live(a) /\ attempt' = [attempt EXCEPT ![a].status = "completed"]
         /\ a.task \in DOMAIN task
         /\ task' = [task EXCEPT ![a.task] = task'[a.task]]
         /\ DOMAIN review \subseteq DOMAIN review'
         /\ task'[a.task].status = "dead" => DeadLetter(a.task) \in DOMAIN review'
         /\ UNCHANGED <<facts, head, page, generation>>
<1>. DEFINE k == a.task
            retried == [task[k] EXCEPT !.retries = task[k].retries + 1]
            judged == [task[k] EXCEPT !.recompiles = task[k].recompiles + 1]
<1>1. Live(a) /\ attempt' = [attempt EXCEPT ![a].status = "completed"]
  BY DEF InvalidOutput, Retryable, Permanent
<1>2. /\ k \in DOMAIN task /\ task[k] \in Task
      /\ task[k].status = "running" /\ IsOpen(task[k])
  BY <1>1, HolderFacts DEF IsOpen
<1>3. PICK u, keys :
        /\ task' = [task EXCEPT ![k] = u]
        /\ \/ UNCHANGED review
           \/ Enqueue(keys)
        /\ \/ \E wait : u \in {PutBack(retried, wait), PutBack(judged, wait)}
           \/ u = Finish(task[k], "failed", "failed")
           \/ /\ \E result : u \in {Finish(retried, "dead", result),
                                    Finish(judged, "dead", result)}
              /\ DeadLetter(k) \in keys /\ Enqueue(keys)
  <2>1. CASE \E divergent \in BOOLEAN : InvalidOutput(a, divergent)
    <3>1. PICK divergent \in BOOLEAN : InvalidOutput(a, divergent)
      BY <2>1
    <3>2. CASE judged.recompiles > judged.policy.max_recompiles
      <4>1. task' = [task EXCEPT ![k] = Finish(judged, "dead", "quarantined")]
        BY <3>1, <3>2 DEF InvalidOutput
      <4>2. PICK keys : Enqueue(keys) /\ DeadLetter(k) \in keys
        BY <3>1, <3>2 DEF InvalidOutput
      <4>. QED
        BY <4>1, <4>2, Zenon
    <3>3. CASE ~(judged.recompiles > judged.policy.max_recompiles)
      <4>1. /\ task' = [task EXCEPT ![k] =
                          PutBack(judged, Backoff(judged.retries))]
            /\ UNCHANGED review
        BY <3>1, <3>3 DEF InvalidOutput
      <4>. QED
        BY <4>1, Zenon
    <3>. QED
      BY <3>2, <3>3
  <2>2. CASE \E retry_after \in RetryAfter : Retryable(a, retry_after)
    <3>1. PICK retry_after \in RetryAfter : Retryable(a, retry_after)
      BY <2>2
    <3>2. CASE retried.retries >= retried.max_retries
      <4>1. /\ task' = [task EXCEPT ![k] = Finish(retried, "dead", "failed")]
            /\ Enqueue({DeadLetter(k)})
        BY <3>1, <3>2 DEF Retryable
      <4>. QED
        BY <4>1, Zenon
    <3>3. CASE ~(retried.retries >= retried.max_retries)
      <4>1. PICK wait : task' = [task EXCEPT ![k] = PutBack(retried, wait)]
        BY <3>1, <3>3 DEF Retryable
      <4>2. UNCHANGED review
        BY <3>1, <3>3 DEF Retryable
      <4>. QED
        BY <4>1, <4>2, Zenon
    <3>. QED
      BY <3>2, <3>3
  <2>3. CASE Permanent(a)
    BY <2>3 DEF Permanent
  <2>. QED
    BY <2>1, <2>2, <2>3
<1>4. Worked(task[k], u)
  BY <1>2, <1>3, WorkedFields, CountedWork
<1>5. u.status = "dead" => DeadLetter(k) \in keys /\ Enqueue(keys)
  <2>1. retried \in Task /\ judged \in Task
    BY <1>2, CountedTypes
  <2>. HIDE DEF retried, judged
  <2>. QED
    BY <1>2, <1>3, <2>1, FinishFields, PutBackFields
<1>6. DOMAIN review \subseteq DOMAIN review'
  BY <1>3 DEF Enqueue
<1>7. UNCHANGED <<facts, head, page, generation>>
  BY DEF InvalidOutput, Retryable, Permanent
<1>8. task'[k] = u
  BY <1>2, <1>3
<1>9. TasksAreWorked
  BY <1>2, <1>3, <1>4, WorkedRow
<1>. QED
  BY <1>1, <1>2, <1>3, <1>5, <1>6, <1>7, <1>8, <1>9 DEF Enqueue

LEMMA RecoverWork ==
  ASSUME TypeOK, FencingInv, Recover
  PROVE  /\ TasksAreWorked /\ AttemptsAreKept
         /\ DOMAIN attempt' = DOMAIN attempt
         /\ \A a \in DOMAIN attempt :
              attempt'[a].status = "accepted" <=> attempt[a].status = "accepted"
         /\ DOMAIN review \subseteq DOMAIN review'
         /\ \A k \in DOMAIN task :
              task'[k].status = "dead" =>
                task'[k] = task[k] \/ DeadLetter(k) \in DOMAIN review'
         /\ UNCHANGED <<facts, head, page, generation>>
<1>1. \A k \in DOMAIN task : task[k] \in Task
  BY DEF TypeOK, IsTable
<1>2. /\ DOMAIN task' = DOMAIN task
      /\ \A k \in DOMAIN task :
           task'[k] = IF Expired(k) THEN RecoveredTask(k) ELSE task[k]
  BY DEF Recover
<1>3. ASSUME NEW k \in DOMAIN task, Expired(k)
      PROVE  /\ Worked(task[k], RecoveredTask(k))
             /\ RecoveredTask(k).status = "dead" =>
                  ~Superseded(k) /\ Exhausted(k)
  <2>. DEFINE t == [task[k] EXCEPT !.retries = task[k].retries + 1]
  <2>1. IsOpen(task[k])
    BY <1>3 DEF Expired, IsOpen
  <2>2. t \in Task
    BY <1>1, CountedTypes
  <2>3. /\ \A status, result : Worked(task[k], Finish(t, status, result))
        /\ \A wait : Worked(task[k], PutBack(t, wait))
        /\ \A status, result : Worked(task[k], Finish(task[k], status, result))
    BY <1>1, <2>1, CountedWork, WorkedFields
  <2>4. \/ RecoveredTask(k) = Finish(task[k], "succeeded", "superseded")
        \/ /\ RecoveredTask(k) = Finish(t, "dead", "failed")
           /\ ~Superseded(k) /\ Exhausted(k)
        \/ RecoveredTask(k) = PutBack(t, Backoff(t.retries))
    BY DEF RecoveredTask
  <2>. HIDE DEF t
  <2>. QED
    BY <1>1, <2>2, <2>3, <2>4, FinishFields, PutBackFields
<1>4. TasksAreWorked
  <2>1. \A k \in DOMAIN task : task[k].reserved \in Nat
    BY <1>1 DEF Task
  <2>2. \A k \in DOMAIN task : Worked(task[k], task[k])
    BY <2>1 DEF Worked
  <2>. QED
    BY <1>2, <1>3, <2>2 DEF TasksAreWorked
<1>5. /\ DOMAIN attempt' = DOMAIN attempt
      /\ \A a \in DOMAIN attempt :
           \/ attempt'[a] = attempt[a]
           \/ /\ Abandoned(a) /\ attempt'[a].status = "abandoned"
              /\ attempt'[a].hash = attempt[a].hash
  <2>1. \A a \in DOMAIN attempt : attempt[a] \in Attempt
    BY DEF TypeOK, IsTable
  <2>. QED
    BY <2>1 DEF Recover, Attempt
<1>6. AttemptsAreKept
  BY <1>5 DEF AttemptsAreKept, Kept, Abandoned, Expired
<1>7. \A k \in DOMAIN task :
        task'[k].status = "dead" =>
          task'[k] = task[k] \/ DeadLetter(k) \in DOMAIN review'
  BY <1>2, <1>3 DEF Recover, Enqueue, Expired
<1>8. DOMAIN review \subseteq DOMAIN review'
  BY DEF Recover, Enqueue
<1>9. UNCHANGED <<facts, head, page, generation>>
  BY DEF Recover
<1>. QED
  BY <1>4, <1>5, <1>6, <1>7, <1>8, <1>9 DEF Abandoned

LEMMA QuarantinePreflightWork ==
  ASSUME TypeOK, NEW k \in DOMAIN task, NEW epoch \in 1..task[k].epoch,
         QuarantinePreflight(k, epoch)
  PROVE  /\ TasksAreWorked /\ AttemptsAreKept
         /\ \/ UNCHANGED attempt
            \/ \E a, row : /\ a \notin DOMAIN attempt
                           /\ attempt' = Put(attempt, a, row)
                           /\ row.status = "completed"
         /\ \A j \in DOMAIN task :
              \/ task'[j] = task[j]
              \/ [task |-> j, epoch |-> task'[j].epoch, no |-> 0]
                    \in DOMAIN attempt'
         /\ UNCHANGED <<facts, head, page, generation, review>>
<1>. DEFINE a == [task |-> k, epoch |-> epoch, no |-> 0]
            row == [status |-> "completed", hash |-> task[k].hash,
                    run |-> Null, day |-> Null, reserved |-> 0]
            dead == Finish(task[k], "dead", "quarantined")
<1>1. /\ \/ UNCHANGED task
         \/ /\ task' = [task EXCEPT ![k] = dead]
            /\ task[k].epoch = epoch /\ IsOpen(task[k])
      /\ \/ UNCHANGED attempt /\ a \in DOMAIN attempt
         \/ a \notin DOMAIN attempt /\ attempt' = Put(attempt, a, row)
  BY DEF QuarantinePreflight, IsOpen
<1>2. task[k] \in Task
  BY RowOf DEF TypeOK
<1>3. TasksAreWorked
  <2>1. CASE UNCHANGED task
    BY <2>1, Unworked
  <2>2. CASE task' = [task EXCEPT ![k] = dead] /\ IsOpen(task[k])
    <3>1. Worked(task[k], dead)
      BY <1>2, <2>2, WorkedFields
    <3>. HIDE DEF dead
    <3>. QED
      BY <2>2, <3>1, WorkedRow
  <2>. QED
    BY <1>1, <2>1, <2>2
<1>4. a \in DOMAIN attempt'
  BY <1>1 DEF Put
<1>5. dead.epoch = task[k].epoch
  BY <1>2, FinishFields DEF SameEpoch
<1>6. AttemptsAreKept
  BY <1>1 DEF AttemptsAreKept, Kept, Put
<1>7. row.status = "completed"
  OBVIOUS
<1>8. UNCHANGED <<facts, head, page, generation, review>>
  BY DEF QuarantinePreflight
<1>9. ASSUME NEW j \in DOMAIN task, task'[j] # task[j]
      PROVE  [task |-> j, epoch |-> task'[j].epoch, no |-> 0]
               \in DOMAIN attempt'
  <2>1. j = k /\ task'[k] = dead /\ task[k].epoch = epoch
    BY <1>1, <1>9
  <2>. QED
    BY <1>4, <1>5, <2>1
<1>. HIDE DEF a, row, dead
<1>. QED
  BY <1>1, <1>3, <1>6, <1>7, <1>8, <1>9

LEMMA TickWork ==
  ASSUME TypeOK, Tick
  PROVE  /\ TasksAreWorked
         /\ \A k \in DOMAIN task : task'[k].status = task[k].status
         /\ UNCHANGED <<facts, head, attempt, page, generation, review>>
<1>1. ASSUME NEW k \in DOMAIN task
      PROVE  Worked(task[k], task'[k]) /\ task'[k].status = task[k].status
  <2>. DEFINE wait == IF task[k].expires > 0 THEN task[k].expires - 1
                      ELSE task[k].expires
              due == Age(task[k].next)
  <2>1. task[k] \in Task
    BY RowOf DEF TypeOK
  <2>2. task'[k] = [task[k] EXCEPT !.expires = wait, !.next = due]
    BY DEF Tick
  <2>. HIDE DEF wait, due
  <2>3. task[k].reserved \in Nat
    BY <2>1 DEF Task
  <2>. QED
    BY <2>1, <2>2, <2>3 DEF Task, Worked, IsOpen
<1>. QED
  BY <1>1 DEF Tick, TasksAreWorked

\* Admission, apart from the facts: the head and the task of the source move
\* together, or neither moves.
LEMMA AdmitWork ==
  ASSUME TypeOK, NEW s \in Source, NEW c \in Config,
         NEW p \in Policy, NEW force \in BOOLEAN, Admit(s, c, p, force)
  PROVE  LET key == KeyOf(s, c)
         IN  /\ \/ UNCHANGED <<task, head>>
                \/ /\ key \in DOMAIN task'
                   /\ head' = Put(head, s.entity,
                                  [rev |-> s.rev, snap |-> Snap(s),
                                   hash |-> Hash(s, c), task |-> key,
                                   epoch |-> task'[key].epoch])
                   /\ \/ task'[key].hash = Hash(s, c)
                      \/ task'[key].result = "skipped"
             /\ DOMAIN task \subseteq DOMAIN task'
             /\ DOMAIN task' \subseteq DOMAIN task \cup {key}
             /\ \A k \in DOMAIN task : k # key => task'[k] = task[k]
             /\ key \in DOMAIN task => Admitted(task[key], task'[key], s, c)
             /\ key \in DOMAIN task' \ DOMAIN task =>
                  /\ task'[key].snap = Snap(s)
                  /\ task'[key].hash = Hash(s, c)
                  /\ task'[key].status # "dead"
             /\ UNCHANGED <<attempt, page, generation, review>>
<1>. DEFINE key == KeyOf(s, c)
            new == NewTask(s, c, p)
            skipped == [new EXCEPT !.status = "succeeded",
                                   !.result = "skipped"]
            Row(epoch) == [rev |-> s.rev, snap |-> Snap(s),
                           hash |-> Hash(s, c), task |-> key, epoch |-> epoch]
<1>1. /\ new.status = "pending" /\ new.snap = Snap(s) /\ new.epoch = 1
      /\ new.hash = Hash(s, c) /\ new.hash.body = s.body /\ new.reserved = 0
      /\ skipped.status = "succeeded" /\ skipped.snap = Snap(s)
      /\ skipped.epoch = 1 /\ skipped.hash = Hash(s, c)
      /\ skipped.result = "skipped"
  BY DEF NewTask, Hash
<1>2. ASSUME key \in DOMAIN task
      PROVE  /\ task[key] \in Task /\ task[key].reserved \in Nat
             /\ task[key].epoch \in Nat
  <2>1. task[key] \in Task
    BY <1>2, RowOf DEF TypeOK
  <2>. QED
    BY <2>1 DEF Task
<1>3. UNCHANGED <<attempt, page, generation, review>>
  BY DEF Admit
<1>4. ASSUME key \in DOMAIN task, UNCHANGED task
      PROVE  Admitted(task[key], task'[key], s, c)
  BY <1>2, <1>4 DEF Admitted
<1>5. CASE UNCHANGED <<task, head>>
  BY <1>3, <1>4, <1>5
<1>6. CASE /\ key \in DOMAIN task
           /\ SetHead(s, c, key, task[key].epoch)
           /\ task' = [task EXCEPT
                 ![key].status = "succeeded", ![key].result = "skipped",
                 ![key].token = Null, ![key].expires = 0,
                 ![key].next = LongAgo]
  <2>. DEFINE u == [task[key] EXCEPT
                      !.status = "succeeded", !.result = "skipped",
                      !.token = Null, !.expires = 0, !.next = LongAgo]
  <2>1. task' = [task EXCEPT ![key] = u]
    BY <1>6
  <2>2. /\ Admitted(task[key], u, s, c) /\ u.epoch = task[key].epoch
        /\ u.result = "skipped"
    BY <1>2, <1>6 DEF Admitted, Task, IsOpen
  <2>. HIDE DEF u, key
  <2>3. /\ DOMAIN task' = DOMAIN task /\ task'[key] = u
        /\ \A k \in DOMAIN task : k # key => task'[k] = task[k]
    BY <1>6, <2>1
  <2>4. head' = Put(head, s.entity, Row(task'[key].epoch))
    BY <1>6, <2>2, <2>3 DEF SetHead
  <2>. QED
    BY <1>3, <1>6, <2>2, <2>3, <2>4 DEF key
<1>7. CASE /\ key \notin DOMAIN task /\ SetHead(s, c, key, 1)
           /\ InsertTask(key, skipped) \/ InsertTask(key, new)
  <2>1. PICK u \in {skipped, new} : task' = Put(task, key, u)
    BY <1>7 DEF InsertTask
  <2>2. /\ u.epoch = 1 /\ u.snap = Snap(s) /\ u.hash = Hash(s, c)
        /\ u.status # "dead"
    BY <1>1
  <2>. HIDE DEF key, skipped, new
  <2>3. /\ DOMAIN task' = DOMAIN task \cup {key} /\ task'[key] = u
        /\ \A k \in DOMAIN task : k # key => task'[k] = task[k]
    BY <2>1 DEF Put
  <2>4. head' = Put(head, s.entity, Row(task'[key].epoch))
    BY <1>7, <2>2, <2>3 DEF SetHead
  <2>. QED
    BY <1>3, <1>7, <2>2, <2>3, <2>4 DEF key
<1>8. CASE /\ key \in DOMAIN task /\ SetHead(s, c, key, task[key].epoch)
           /\ task[key].hash = Hash(s, c)
           /\ \/ UNCHANGED task
              \/ task' = [task EXCEPT ![key].snap = Snap(s),
                                      ![key].policy = p]
  <2>1. /\ Admitted(task[key], task'[key], s, c) /\ DOMAIN task' = DOMAIN task
        /\ task'[key].epoch = task[key].epoch
        /\ task'[key].hash = task[key].hash
        /\ \A k \in DOMAIN task : k # key => task'[k] = task[k]
    <3>1. CASE UNCHANGED task
      BY <1>4, <1>8, <3>1
    <3>2. CASE task' = [task EXCEPT ![key].snap = Snap(s), ![key].policy = p]
      <4>. DEFINE u == [task[key] EXCEPT !.snap = Snap(s), !.policy = p]
      <4>1. task' = [task EXCEPT ![key] = u]
        BY <1>8, <3>2
      <4>2. /\ Admitted(task[key], u, s, c) /\ u.epoch = task[key].epoch
            /\ u.hash = task[key].hash
        BY <1>2, <1>8 DEF Admitted, Task, IsOpen
      <4>. HIDE DEF u, key
      <4>. QED
        BY <1>8, <4>1, <4>2
    <3>. QED
      BY <1>8, <3>1, <3>2
  <2>2. head' = Put(head, s.entity, Row(task'[key].epoch))
    BY <1>8, <2>1 DEF SetHead
  <2>. HIDE DEF key
  <2>. QED
    BY <1>3, <1>8, <2>1, <2>2 DEF key
<1>9. CASE key \in DOMAIN task /\ Restart(s, c, p)
  <2>. DEFINE u == [new EXCEPT !.id = task[key].id,
                               !.epoch = task[key].epoch + 1,
                               !.reserved = task[key].reserved]
  <2>1. task' = [task EXCEPT ![key] = u]
    BY <1>9 DEF Restart
  <2>2. /\ Admitted(task[key], u, s, c) /\ u.hash = Hash(s, c)
        /\ u.epoch = task[key].epoch + 1
    BY <1>1, <1>2, <1>9 DEF NewTask, Admitted, Hash
  <2>3. SetHead(s, c, key, task[key].epoch + 1)
    BY <1>9 DEF Restart
  <2>. HIDE DEF u, key
  <2>4. /\ DOMAIN task' = DOMAIN task /\ task'[key] = u
        /\ \A k \in DOMAIN task : k # key => task'[k] = task[k]
    BY <1>9, <2>1
  <2>5. head' = Put(head, s.entity, Row(task'[key].epoch))
    BY <2>2, <2>3, <2>4 DEF SetHead
  <2>. QED
    BY <1>3, <1>9, <2>2, <2>4, <2>5 DEF key
<1>. HIDE DEF new
<1>10. \/ UNCHANGED <<task, head>>
       \/ /\ key \in DOMAIN task
          /\ SetHead(s, c, key, task[key].epoch)
          /\ task' = [task EXCEPT
                ![key].status = "succeeded", ![key].result = "skipped",
                ![key].token = Null, ![key].expires = 0,
                ![key].next = LongAgo]
       \/ /\ key \notin DOMAIN task /\ SetHead(s, c, key, 1)
          /\ InsertTask(key, skipped) \/ InsertTask(key, new)
       \/ /\ key \in DOMAIN task /\ SetHead(s, c, key, task[key].epoch)
          /\ task[key].hash = Hash(s, c)
          /\ \/ UNCHANGED task
             \/ task' = [task EXCEPT ![key].snap = Snap(s),
                                     ![key].policy = p]
       \/ key \in DOMAIN task /\ Restart(s, c, p)
  BY DEF Admit, Skip, Merge, new
<1>. QED
  BY <1>5, <1>6, <1>7, <1>8, <1>9, <1>10

\* Every step is an admission or works on tasks and leaves the heads alone;
\* either way an attempt's outcome is given by its holder and is final.
LEMMA StepWork ==
  ASSUME TypeOK, FencingInv, [Next]_vars
  PROVE  /\ AttemptsAreKept
         /\ \/ TasksAreWorked /\ UNCHANGED head
            \/ \E s \in Source, c \in Config, p \in Policy,
                  force \in BOOLEAN : Admit(s, c, p, force)
<1>1. ASSUME NEW s \in Source, NEW c \in Config, NEW p \in Policy,
             NEW force \in BOOLEAN, Admit(s, c, p, force)
      PROVE  AttemptsAreKept
  BY <1>1, AdmitWork DEF AttemptsAreKept, Kept
<1>2. ASSUME UNCHANGED <<task, head, attempt>>
      PROVE  TasksAreWorked /\ UNCHANGED head /\ AttemptsAreKept
  BY <1>2, Unworked DEF AttemptsAreKept, Kept
<1>3. ASSUME NEW s \in Seeded, UpsertFacts(s)
      PROVE  UNCHANGED <<task, head, attempt>>
  BY <1>3 DEF UpsertFacts
<1>4. ASSUME NEW ids \in SUBSET TaskKey, NEW r \in Run, Claim(ids, r)
      PROVE  TasksAreWorked /\ UNCHANGED head /\ AttemptsAreKept
  BY <1>4, ClaimWork
<1>5. ASSUME NEW a \in Issued, Heartbeat(a)
      PROVE  TasksAreWorked /\ UNCHANGED head /\ AttemptsAreKept
  BY <1>5, HeartbeatWork DEF AttemptsAreKept, Kept
<1>6. ASSUME NEW a \in Issued, NEW h \in ContentHash, Publish(a, h)
      PROVE  TasksAreWorked /\ UNCHANGED head /\ AttemptsAreKept
  <2>1. /\ Live(a) /\ attempt' = [attempt EXCEPT ![a].status = "accepted"]
        /\ UNCHANGED head
    BY <1>6 DEF Publish
  <2>. QED
    BY <1>6, <2>1, PublishWork, ClosedAttempt
<1>7. ASSUME NEW a \in Issued,
             \/ \E divergent \in BOOLEAN : InvalidOutput(a, divergent)
             \/ \E retry_after \in RetryAfter : Retryable(a, retry_after)
             \/ Permanent(a)
      PROVE  TasksAreWorked /\ UNCHANGED head /\ AttemptsAreKept
  BY <1>7, FailureWork, ClosedAttempt
<1>8. CASE Recover
  BY <1>8, RecoverWork
<1>9. ASSUME NEW k \in DOMAIN task, NEW epoch \in 1..task[k].epoch,
             QuarantinePreflight(k, epoch)
      PROVE  TasksAreWorked /\ UNCHANGED head /\ AttemptsAreKept
  BY <1>9, QuarantinePreflightWork
<1>10. CASE Tick
  BY <1>10, TickWork DEF AttemptsAreKept, Kept
<1>11. CASE NewDay \/ UNCHANGED vars
  BY <1>2, <1>11 DEF NewDay, vars
<1>. QED
  BY <1>1, <1>2, <1>3, <1>4, <1>5, <1>6, <1>7, <1>8, <1>9, <1>10, <1>11
     DEF Next

\* What an admission may do to any row, seen from the row.
LEMMA AdmittedRows ==
  ASSUME TypeOK, NEW s \in Source, NEW c \in Config, NEW p \in Policy,
         NEW force \in BOOLEAN, Admit(s, c, p, force), NEW k \in DOMAIN task
  PROVE  /\ k \in DOMAIN task'
         /\ task'[k] = task[k] \/ Admitted(task[k], task'[k], s, c)
<1>1. CASE k = KeyOf(s, c)
  BY <1>1, AdmitWork
<1>2. CASE k # KeyOf(s, c)
  BY <1>2, AdmitWork
<1>. QED
  BY <1>1, <1>2

-----------------------------------------------------------------------------
(* What a step may never do.                                               *)

\* Rows stay, epochs and reservations only grow, and only a new epoch opens a
\* terminal task: no late worker, no recovery and no merge brings one back.
THEOREM TerminalTasksStayTerminal == Spec => TerminalUntilNewEpoch
<1>1. ASSUME TypeOK, FencingInv, [Next]_vars, NEW k \in DOMAIN task
      PROVE  /\ k \in DOMAIN task'
             /\ task'[k].epoch >= task[k].epoch
             /\ task'[k].reserved >= task[k].reserved
             /\ ~Open(k) /\ task'[k].epoch = task[k].epoch =>
                  task'[k].status \notin {"pending", "running"}
  <2>1. task[k].epoch \in Nat /\ task[k].reserved \in Nat
    <3>1. task[k] \in Task
      BY <1>1 DEF TypeOK, IsTable
    <3>. QED
      BY <3>1 DEF Task
  <2>2. CASE TasksAreWorked
    BY <2>1, <2>2 DEF TasksAreWorked, Worked, IsOpen, Open
  <2>3. ASSUME NEW s \in Source, NEW c \in Config, NEW p \in Policy,
               NEW force \in BOOLEAN, Admit(s, c, p, force)
        PROVE  /\ k \in DOMAIN task'
               /\ task'[k].epoch >= task[k].epoch
               /\ task'[k].reserved >= task[k].reserved
               /\ ~Open(k) /\ task'[k].epoch = task[k].epoch =>
                    task'[k].status \notin {"pending", "running"}
    <3>1. /\ k \in DOMAIN task'
          /\ task'[k] = task[k] \/ Admitted(task[k], task'[k], s, c)
      BY <1>1, <2>3, AdmittedRows
    <3>. QED
      BY <2>1, <3>1 DEF Admitted, IsOpen, Open
  <2>. QED
    BY <1>1, <2>2, <2>3, StepWork
<1>2. TypeOK /\ FencingInv /\ [Next]_vars =>
        [\A k \in DOMAIN task :
           /\ k \in DOMAIN task'
           /\ task'[k].epoch >= task[k].epoch
           /\ task'[k].reserved >= task[k].reserved
           /\ ~Open(k) /\ task'[k].epoch = task[k].epoch =>
                task'[k].status \notin {"pending", "running"}]_vars
  BY <1>1
<1>. QED
  BY <1>2, TypeCorrect, FencingInvariant, PTL DEF Spec, TerminalUntilNewEpoch

\* The outcome of an attempt is final, and it is given while the attempt holds
\* the lease: by its worker, or by the recovery of that very lease.
THEOREM OutcomesStayFinal == Spec => OutcomesAreFinal
<1>1. TypeOK /\ FencingInv /\ [Next]_vars =>
        [\A a \in DOMAIN attempt :
           /\ a \in DOMAIN attempt'
           /\ attempt[a].status # "reserved" => attempt'[a] = attempt[a]
           /\ attempt[a].status = "reserved" /\ attempt'[a].status # "reserved"
              => task[a.task].status = "running" /\ task[a.task].token = a]_vars
  BY StepWork DEF AttemptsAreKept, Kept
<1>. QED
  BY <1>1, TypeCorrect, FencingInvariant, PTL DEF Spec, OutcomesAreFinal

-----------------------------------------------------------------------------
(* The planes: facts, heads, tasks and pages of an entity.                 *)

\* No task is of a revision its head has not reached.
TasksFollowHeads ==
  \A k \in DOMAIN task :
    k.entity \in DOMAIN head /\ k.rev <= head[k.entity].rev

Planes ==
  /\ PlanesAreOrdered /\ OneSnapshotPerRevision /\ HeadsNameTheirTask
  /\ TasksFollowHeads

\* Revisions are numbers, wherever they are stored.
LEMMA RevisionTypes ==
  ASSUME TypeOK
  PROVE  /\ \A e \in DOMAIN facts : facts[e].rev \in Nat
         /\ \A e \in DOMAIN head : head[e].rev \in Nat
         /\ \A e \in DOMAIN page : page[e].rev \in Nat /\ page[e].gen \in Nat
         /\ \A k \in DOMAIN task : k.rev \in Nat
<1>1. Revision \subseteq Nat
  BY SourceAssumption DEF Revision
<1>2. \A e \in DOMAIN facts : facts[e].rev \in Revision
  BY DEF TypeOK, IsTable
<1>3. \A e \in DOMAIN head : head[e].rev \in Revision
  BY DEF TypeOK, IsTable
<1>4. \A e \in DOMAIN page : page[e].rev \in Revision /\ page[e].gen \in Nat
  BY DEF TypeOK, IsTable
<1>5. \A k \in DOMAIN task : k.rev \in Revision
  BY DEF TypeOK, IsTable, TaskKey
<1>. QED
  BY <1>1, <1>2, <1>3, <1>4, <1>5

\* Work on tasks keeps what heads know of them: a head whose task has another
\* hash names a terminal row, and terminal rows keep their result.
LEMMA WorkKeepsHeads ==
  ASSUME FencingInv, HeadsNameTheirTask, TasksFollowHeads, TasksAreWorked,
         UNCHANGED head
  PROVE  HeadsNameTheirTask' /\ TasksFollowHeads'
<1>1. TasksFollowHeads'
  BY DEF TasksFollowHeads, TasksAreWorked
<1>2. ASSUME NEW e \in DOMAIN head
      PROVE  LET h == head[e]
             IN  /\ h.task \in DOMAIN task'
                 /\ h.task.entity = e /\ h.task.rev = h.rev
                 /\ task'[h.task].epoch = h.epoch
                 /\ task'[h.task].snap = h.snap
                 /\ \/ task'[h.task].hash = h.hash
                    \/ task'[h.task].result = "skipped"
  <2>. DEFINE k == head[e].task
  <2>1. /\ k \in DOMAIN task /\ Worked(task[k], task'[k])
        /\ k.entity = e /\ k.rev = head[e].rev
        /\ task[k].epoch = head[e].epoch /\ task[k].snap = head[e].snap
        /\ task[k].hash = head[e].hash \/ task[k].result = "skipped"
    BY DEF HeadsNameTheirTask, TasksAreWorked
  <2>2. task[k].result = "skipped" => ~IsOpen(task[k])
    BY <2>1 DEF FencingInv, WellFormed, IsOpen
  <2>. QED
    BY <2>1, <2>2 DEF TasksAreWorked, Worked
<1>. QED
  BY <1>1, <1>2 DEF HeadsNameTheirTask

LEMMA WorkKeepsPlanes ==
  ASSUME FencingInv, Planes, TasksAreWorked, UNCHANGED <<facts, head, page>>
  PROVE  Planes'
<1>1. PlanesAreOrdered'
  BY DEF Planes, PlanesAreOrdered
<1>2. OneSnapshotPerRevision'
  BY DEF Planes, OneSnapshotPerRevision, TasksAreWorked, Worked
<1>. QED
  BY <1>1, <1>2, WorkKeepsHeads DEF Planes

LEMMA UpsertFactsPlanes ==
  ASSUME TypeOK, Planes, NEW s \in Seeded, UpsertFacts(s)
  PROVE  Planes'
<1>1. s.rev \in Nat
  BY SourceAssumption
<1>2. PlanesAreOrdered'
  BY <1>1, RevisionTypes DEF UpsertFacts, Put, Planes, PlanesAreOrdered
<1>3. UNCHANGED <<task, head, page>>
  BY DEF UpsertFacts
<1>. QED
  BY <1>2, <1>3
     DEF Planes, TasksFollowHeads, OneSnapshotPerRevision, HeadsNameTheirTask

\* The page takes the task's revision and the body of that revision's
\* snapshot: the head's, if the head is at that revision.
LEMMA PublishPlanes ==
  ASSUME TypeOK, FencingInv, Planes, NEW a \in Issued, NEW h, Publish(a, h)
  PROVE  Planes'
<1>. DEFINE k == a.task
<1>1. /\ k \in DOMAIN task /\ TasksAreWorked
      /\ k.entity \in DOMAIN head /\ k.rev <= head[k.entity].rev
      /\ UNCHANGED <<facts, head>>
  BY PublishWork DEF Publish, Planes, TasksFollowHeads
<1>2. h = task[k].hash
  <2>1. Live(a) /\ attempt' = [attempt EXCEPT ![a].status = "accepted"]
        /\ h = attempt[a].hash
    BY DEF Publish
  <2>. QED
    BY <2>1, ClosedAttempt
<1>3. /\ DOMAIN page' = DOMAIN page \cup {k.entity}
      /\ page'[k.entity].rev = k.rev /\ page'[k.entity].hash = h
      /\ \A e \in DOMAIN page : e # k.entity => page'[e] = page[e]
  BY DEF Publish, Put, PageRow
<1>4. PlanesAreOrdered'
  BY <1>1, <1>3 DEF Planes, PlanesAreOrdered
<1>5. TasksFollowHeads' /\ HeadsNameTheirTask'
  BY <1>1, WorkKeepsHeads DEF Planes
<1>6. OneSnapshotPerRevision'
  <2>1. \A i, j \in DOMAIN task' :
          i.entity = j.entity /\ i.rev = j.rev =>
            /\ task'[i].snap = task'[j].snap
            /\ task'[i].hash.body = task'[j].snap.body
    BY <1>1 DEF Planes, OneSnapshotPerRevision, TasksAreWorked, Worked
  <2>2. k.rev = head[k.entity].rev => h.body = head[k.entity].snap.body
    BY <1>1, <1>2
       DEF Planes, OneSnapshotPerRevision, HeadsNameTheirTask
  <2>3. \A e \in DOMAIN page' \cap DOMAIN head :
          page'[e].rev = head[e].rev => page'[e].hash.body = head[e].snap.body
    BY <1>3, <2>2 DEF Planes, OneSnapshotPerRevision
  <2>. QED
    BY <1>1, <2>1, <2>3 DEF OneSnapshotPerRevision
<1>. QED
  BY <1>4, <1>5, <1>6 DEF Planes

\* An admission moves head and task together and never to an older revision;
\* a revision the head is at already has its snapshot.
LEMMA AdmitPlanes ==
  ASSUME TypeOK, Planes, NEW s \in Source, NEW c \in Config,
         NEW p \in Policy, NEW force \in BOOLEAN, Admit(s, c, p, force)
  PROVE  Planes'
<1>. DEFINE key == KeyOf(s, c)
            e == s.entity
            row(epoch) == [rev |-> s.rev, snap |-> Snap(s),
                           hash |-> Hash(s, c), task |-> key, epoch |-> epoch]
<1>1. /\ key.entity = e /\ key.rev = s.rev /\ s.rev \in Nat
      /\ Snap(s).body = s.body /\ Hash(s, c).body = s.body
  BY SourceAssumption DEF KeyOf, Snap, Hash
<1>2. /\ Admissible(s) /\ WriteFacts(s) /\ UNCHANGED page
  BY DEF Admit
<1>3. e \in DOMAIN head =>
        \/ s.rev > head[e].rev
        \/ s.rev = head[e].rev /\ Snap(s) = head[e].snap
  <2>. SUFFICES ASSUME e \in DOMAIN head
                PROVE  \/ s.rev > head[e].rev
                       \/ s.rev = head[e].rev /\ Snap(s) = head[e].snap
    OBVIOUS
  <2>. QED
    BY <1>2 DEF Admissible
<1>4. /\ DOMAIN facts \subseteq DOMAIN facts' /\ e \in DOMAIN facts'
      /\ facts'[e].rev \in Nat /\ s.rev <= facts'[e].rev
      /\ \A f \in DOMAIN facts :
           facts[f].rev <= facts'[f].rev /\ facts'[f].rev \in Nat
  BY <1>1, <1>2, <1>3, RevisionTypes
     DEF WriteFacts, Put, Planes, PlanesAreOrdered
<1>5. \A k \in DOMAIN task :
        k.entity = e =>
          /\ k.rev <= s.rev
          /\ k.rev = s.rev => /\ task[k].snap = Snap(s)
                             /\ task[k].hash.body = s.body
  <2>. SUFFICES ASSUME NEW k \in DOMAIN task, k.entity = e
                PROVE  /\ k.rev <= s.rev
                       /\ k.rev = s.rev => /\ task[k].snap = Snap(s)
                                          /\ task[k].hash.body = s.body
    OBVIOUS
  <2>1. /\ e \in DOMAIN head /\ k.rev <= head[e].rev
        /\ k.rev \in Nat /\ head[e].rev \in Nat
    BY RevisionTypes DEF Planes, TasksFollowHeads
  <2>2. k.rev = head[e].rev =>
          task[k].snap = head[e].snap /\ task[k].hash.body = head[e].snap.body
    BY <2>1 DEF Planes, HeadsNameTheirTask, OneSnapshotPerRevision
  <2>. QED
    BY <1>1, <1>3, <2>1, <2>2
<1>6. ASSUME key \in DOMAIN task'
      PROVE  task'[key].snap = Snap(s) /\ task'[key].hash.body = s.body
  <2>1. CASE key \in DOMAIN task
    <3>1. Admitted(task[key], task'[key], s, c)
      BY <2>1, AdmitWork
    <3>. QED
      BY <1>1, <1>5, <2>1, <3>1 DEF Admitted
  <2>2. CASE key \notin DOMAIN task
    BY <1>1, <1>6, <2>2, AdmitWork
  <2>. QED
    BY <2>1, <2>2
<1>7. /\ DOMAIN task \subseteq DOMAIN task'
      /\ DOMAIN task' \subseteq DOMAIN task \cup {key}
      /\ \A k \in DOMAIN task : k # key => task'[k] = task[k]
  BY AdmitWork
<1>8. \A i, j \in DOMAIN task' :
        i.entity = j.entity /\ i.rev = j.rev =>
          /\ task'[i].snap = task'[j].snap
          /\ task'[i].hash.body = task'[j].snap.body
  <2>1. ASSUME NEW i \in DOMAIN task', i.entity = e, i.rev = s.rev
        PROVE  task'[i].snap = Snap(s) /\ task'[i].hash.body = s.body
    BY <1>5, <1>6, <1>7, <2>1
  <2>2. ASSUME NEW i \in DOMAIN task', ~(i.entity = e /\ i.rev = s.rev)
        PROVE  i \in DOMAIN task /\ task'[i] = task[i]
    BY <1>1, <1>7, <2>2
  <2>. QED
    BY <1>1, <2>1, <2>2 DEF Planes, OneSnapshotPerRevision
<1>9. CASE UNCHANGED <<task, head>>
  <2>1. PlanesAreOrdered'
    <3>1. \A f \in DOMAIN head :
            f \in DOMAIN facts' /\ head[f].rev <= facts'[f].rev
      BY <1>4, RevisionTypes DEF Planes, PlanesAreOrdered
    <3>. QED
      BY <1>2, <1>9, <3>1 DEF Planes, PlanesAreOrdered
  <2>. QED
    BY <1>2, <1>9, <2>1
       DEF Planes, TasksFollowHeads, OneSnapshotPerRevision,
           HeadsNameTheirTask
<1>10. CASE /\ key \in DOMAIN task'
            /\ head' = Put(head, e, row(task'[key].epoch))
            /\ task'[key].hash = Hash(s, c) \/ task'[key].result = "skipped"
  <2>1. /\ DOMAIN head' = DOMAIN head \cup {e}
        /\ head'[e].rev = s.rev /\ head'[e].snap = Snap(s)
        /\ head'[e].hash = Hash(s, c) /\ head'[e].task = key
        /\ head'[e].epoch = task'[key].epoch
        /\ \A f \in DOMAIN head : f # e => head'[f] = head[f]
    BY <1>10 DEF Put
  <2>2. PlanesAreOrdered'
    <3>1. \A f \in DOMAIN head' :
            f \in DOMAIN facts' /\ head'[f].rev <= facts'[f].rev
      BY <1>4, <2>1, RevisionTypes DEF Planes, PlanesAreOrdered
    <3>2. \A f \in DOMAIN page :
            f \in DOMAIN head' /\ page[f].rev <= head'[f].rev
      BY <1>1, <1>3, <2>1, RevisionTypes DEF Planes, PlanesAreOrdered
    <3>. QED
      BY <1>2, <3>1, <3>2 DEF PlanesAreOrdered
  <2>3. TasksFollowHeads'
    BY <1>1, <1>5, <1>7, <2>1 DEF Planes, TasksFollowHeads
  <2>4. \A f \in DOMAIN page \cap DOMAIN head' :
          page[f].rev = head'[f].rev => page[f].hash.body = head'[f].snap.body
    BY <1>1, <1>3, <2>1, RevisionTypes
       DEF Planes, PlanesAreOrdered, OneSnapshotPerRevision
  <2>5. OneSnapshotPerRevision'
    BY <1>2, <1>8, <2>4 DEF OneSnapshotPerRevision
  <2>6. HeadsNameTheirTask'
    BY <1>1, <1>6, <1>7, <1>10, <2>1 DEF Planes, HeadsNameTheirTask
  <2>. QED
    BY <2>2, <2>3, <2>5, <2>6 DEF Planes
<1>. HIDE DEF key, row
<1>. QED
  BY <1>9, <1>10, AdmitWork DEF key, row

LEMMA NextPlanes ==
  ASSUME TypeOK, FencingInv, Planes, [Next]_vars
  PROVE  Planes'
<1>1. ASSUME TasksAreWorked, UNCHANGED <<facts, head, page>>
      PROVE  Planes'
  BY <1>1, WorkKeepsPlanes
<1>2. ASSUME NEW s \in Source, NEW c \in Config, NEW p \in Policy,
             NEW force \in BOOLEAN, Admit(s, c, p, force)
      PROVE  Planes'
  BY <1>2, AdmitPlanes
<1>3. ASSUME NEW s \in Seeded, UpsertFacts(s)
      PROVE  Planes'
  BY <1>3, UpsertFactsPlanes
<1>4. ASSUME NEW ids \in SUBSET TaskKey, NEW r \in Run, Claim(ids, r)
      PROVE  Planes'
  BY <1>1, <1>4, ClaimWork
<1>5. ASSUME NEW a \in Issued, Heartbeat(a)
      PROVE  Planes'
  BY <1>1, <1>5, HeartbeatWork
<1>6. ASSUME NEW a \in Issued, NEW h \in ContentHash, Publish(a, h)
      PROVE  Planes'
  BY <1>6, PublishPlanes
<1>7. ASSUME NEW a \in Issued,
             \/ \E divergent \in BOOLEAN : InvalidOutput(a, divergent)
             \/ \E retry_after \in RetryAfter : Retryable(a, retry_after)
             \/ Permanent(a)
      PROVE  Planes'
  BY <1>1, <1>7, FailureWork
<1>8. CASE Recover
  BY <1>1, <1>8, RecoverWork
<1>9. ASSUME NEW k \in DOMAIN task, NEW epoch \in 1..task[k].epoch,
             QuarantinePreflight(k, epoch)
      PROVE  Planes'
  BY <1>1, <1>9, QuarantinePreflightWork
<1>10. CASE Tick
  BY <1>1, <1>10, TickWork
<1>11. CASE NewDay \/ UNCHANGED vars
  BY <1>1, <1>11, Unworked DEF NewDay, vars
<1>. QED
  BY <1>2, <1>3, <1>4, <1>5, <1>6, <1>7, <1>8, <1>9, <1>10, <1>11 DEF Next

LEMMA InitPlanes == Init => Planes
BY DEF Init, EmptyTable, Planes, PlanesAreOrdered, OneSnapshotPerRevision,
       HeadsNameTheirTask, TasksFollowHeads

\* The inductive invariant of the planes.
LEMMA PlanesInvariant == Spec => []Planes
BY InitPlanes, NextPlanes, TypeCorrect, FencingInvariant, PTL DEF Spec

-----------------------------------------------------------------------------
(* Outcomes: pages, generations and dead letters.                          *)

Outcomes ==
  /\ PagesAreBacked /\ DeadTasksAreEscalated
  /\ \A e \in DOMAIN page : page[e].gen <= generation
  /\ IsFiniteSet(DOMAIN attempt)
  /\ generation = Cardinality(Accepted)

\* A step that accepts nothing and kills no task without leaving a trace.
LEMMA NothingAccepted ==
  ASSUME Outcomes, AttemptsAreKept, UNCHANGED <<page, generation>>,
         IsFiniteSet(DOMAIN attempt'), Accepted' = Accepted,
         DOMAIN review \subseteq DOMAIN review',
         \A k \in DOMAIN task' : task'[k].status = "dead" =>
           \/ /\ k \in DOMAIN task /\ task[k].status = "dead"
              /\ task'[k].epoch = task[k].epoch
           \/ DeadLetter(k) \in DOMAIN review'
           \/ [task |-> k, epoch |-> task'[k].epoch, no |-> 0]
                 \in DOMAIN attempt'
  PROVE  Outcomes'
<1>1. PagesAreBacked'
  BY DEF Outcomes, PagesAreBacked, AttemptsAreKept, Kept
<1>2. DeadTasksAreEscalated'
  BY DEF Outcomes, DeadTasksAreEscalated, AttemptsAreKept, Kept, DeadLetter
<1>. QED
  BY <1>1, <1>2 DEF Outcomes

\* Work that leaves attempts and reviews alone and kills nothing.
LEMMA NothingDecided ==
  ASSUME TypeOK, Outcomes,
         UNCHANGED <<attempt, page, generation, review>>,
         \A k \in DOMAIN task' : task'[k].status = "dead" =>
           /\ k \in DOMAIN task /\ task[k].status = "dead"
           /\ task'[k].epoch = task[k].epoch
  PROVE  Outcomes'
BY NothingAccepted DEF Outcomes, AttemptsAreKept, Kept, Accepted

\* A new attempt that is not an acceptance.
LEMMA NewAttempt ==
  ASSUME IsFiniteSet(DOMAIN attempt), NEW a, NEW row, a \notin DOMAIN attempt,
         attempt' = Put(attempt, a, row), row.status # "accepted"
  PROVE  /\ IsFiniteSet(DOMAIN attempt') /\ Accepted' = Accepted
<1>1. DOMAIN attempt' = DOMAIN attempt \cup {a}
  BY DEF Put
<1>2. IsFiniteSet(DOMAIN attempt')
  BY <1>1, FS_AddElement
<1>3. Accepted' = Accepted
  BY DEF Put, Accepted
<1>. QED
  BY <1>2, <1>3

LEMMA PublishOutcomes ==
  ASSUME TypeOK, FencingInv, Outcomes, NEW a \in Issued, NEW h, Publish(a, h)
  PROVE  Outcomes'
<1>. DEFINE k == a.task
<1>1. /\ Live(a) /\ attempt' = [attempt EXCEPT ![a].status = "accepted"]
      /\ generation' = generation + 1 /\ h = attempt[a].hash
      /\ page' = Put(page, k.entity, PageRow(k, h)) /\ UNCHANGED review
  BY DEF Publish
<1>2. /\ AttemptsAreKept /\ DOMAIN attempt' = DOMAIN attempt
      /\ attempt'[a].status = "accepted" /\ attempt[a].status = "reserved"
      /\ attempt'[a].hash = h
      /\ \A b \in DOMAIN attempt : b # a => attempt'[b] = attempt[b]
      /\ a \in DOMAIN attempt
  BY <1>1, ClosedAttempt DEF Issued
<1>3. generation \in Nat
  BY DEF TypeOK
<1>4. /\ DOMAIN page' = DOMAIN page \cup {k.entity}
      /\ page'[k.entity] = PageRow(k, h)
      /\ \A e \in DOMAIN page : e # k.entity => page'[e] = page[e]
  BY <1>1 DEF Put
<1>5. PagesAreBacked'
  <2>1. /\ page'[k.entity].hash = h /\ page'[k.entity].rev = k.rev
    BY <1>4 DEF PageRow
  <2>2. \A b \in DOMAIN attempt : attempt[b].status = "accepted" =>
          /\ b \in DOMAIN attempt' /\ attempt'[b] = attempt[b]
    BY <1>2
  <2>3. ASSUME NEW e \in DOMAIN page'
        PROVE  \E b \in DOMAIN attempt' :
                 /\ attempt'[b].status = "accepted"
                 /\ attempt'[b].hash = page'[e].hash
                 /\ b.task.entity = e /\ b.task.rev = page'[e].rev
    <3>1. CASE e = k.entity
      BY <1>2, <2>1, <3>1
    <3>2. CASE e # k.entity
      <4>1. e \in DOMAIN page /\ page'[e] = page[e]
        BY <1>4, <3>2
      <4>. QED
        BY <2>2, <4>1 DEF Outcomes, PagesAreBacked
    <3>. QED
      BY <3>1, <3>2
  <2>. QED
    BY <2>3 DEF PagesAreBacked
<1>6. DeadTasksAreEscalated'
  <2>1. TasksAreWorked /\ task'[k].status = "succeeded"
    BY PublishWork
  <2>2. \A j \in DOMAIN task : j # k => task'[j] = task[j]
    BY DEF Publish
  <2>. QED
    BY <1>1, <1>2, <2>1, <2>2
       DEF Outcomes, DeadTasksAreEscalated, TasksAreWorked, DeadLetter
<1>7. \A e \in DOMAIN page' : page'[e].gen <= generation'
  <2>1. page'[k.entity].gen = generation + 1
    BY <1>4 DEF PageRow
  <2>2. \A e \in DOMAIN page : page[e].gen <= generation /\ page[e].gen \in Nat
    BY RevisionTypes DEF Outcomes
  <2>. QED
    BY <1>1, <1>3, <1>4, <2>1, <2>2
<1>8. generation' = Cardinality(Accepted)'
  <2>1. Accepted' = Accepted \cup {a} /\ a \notin Accepted
    BY <1>2 DEF Accepted
  <2>2. IsFiniteSet(Accepted)
    BY FS_Subset DEF Outcomes, Accepted
  <2>3. Cardinality(Accepted') = Cardinality(Accepted) + 1
    BY <2>1, <2>2, FS_AddElement
  <2>. QED
    BY <1>1, <2>3 DEF Outcomes
<1>. QED
  BY <1>2, <1>5, <1>6, <1>7, <1>8 DEF Outcomes

LEMMA NextOutcomes ==
  ASSUME TypeOK, FencingInv, Outcomes, [Next]_vars
  PROVE  Outcomes'
<1>1. ASSUME NEW s \in Source, NEW c \in Config, NEW p \in Policy,
             NEW force \in BOOLEAN, Admit(s, c, p, force)
      PROVE  Outcomes'
  <2>1. ASSUME NEW k \in DOMAIN task', task'[k].status = "dead"
        PROVE  /\ k \in DOMAIN task /\ task[k].status = "dead"
               /\ task'[k].epoch = task[k].epoch
    <3>1. k \in DOMAIN task
      BY <1>1, <2>1, AdmitWork
    <3>2. task'[k] = task[k] \/ Admitted(task[k], task'[k], s, c)
      BY <1>1, <3>1, AdmittedRows
    <3>. QED
      BY <2>1, <3>1, <3>2 DEF Admitted
  <2>2. UNCHANGED <<attempt, page, generation, review>>
    BY <1>1 DEF Admit
  <2>. QED
    BY <2>1, <2>2, NothingDecided
<1>2. ASSUME UNCHANGED <<task, attempt, page, generation, review>>
      PROVE  Outcomes'
  BY <1>2, NothingDecided
<1>3. ASSUME NEW s \in Seeded, UpsertFacts(s)
      PROVE  Outcomes'
  BY <1>2, <1>3 DEF UpsertFacts
<1>4. ASSUME NEW ids \in SUBSET TaskKey, NEW r \in Run, Claim(ids, r)
      PROVE  Outcomes'
  <2>1. \A k \in DOMAIN task : task'[k] = task[k] \/ task'[k].status = "running"
    <3>1. ASSUME NEW k \in ids, NEW j \in DOMAIN task, Candidate(ids, k),
                 Lease(k, r)
          PROVE  task'[j] = task[j] \/ task'[j].status = "running"
      <4>1. task[k] \in Task /\ k \in DOMAIN task
        BY <3>1, RowOf DEF Candidate, TypeOK
      <4>. QED
        BY <3>1, <4>1 DEF Lease, Task
    <3>. QED
      BY <1>4, <3>1 DEF Claim, Defer
  <2>2. TasksAreWorked /\ AttemptsAreKept /\ UNCHANGED <<page, generation, review>>
    BY <1>4, ClaimWork
  <2>3. IsFiniteSet(DOMAIN attempt') /\ Accepted' = Accepted
    <3>1. CASE UNCHANGED attempt
      BY <3>1 DEF Outcomes, Accepted
    <3>2. CASE \E a, row : /\ a \notin DOMAIN attempt
                           /\ attempt' = Put(attempt, a, row)
                           /\ row.status = "reserved"
      BY <3>2, NewAttempt DEF Outcomes
    <3>. QED
      BY <1>4, <3>1, <3>2, ClaimWork
  <2>. QED
    BY <2>1, <2>2, <2>3, NothingAccepted DEF TasksAreWorked, Worked
<1>5. ASSUME NEW a \in Issued, Heartbeat(a)
      PROVE  Outcomes'
  <2>1. a.task \in DOMAIN task /\ task[a.task] \in Task
    BY <1>5, HolderFacts DEF Heartbeat
  <2>2. \A k \in DOMAIN task : task'[k].status = task[k].status
    BY <1>5, <2>1 DEF Heartbeat, Task
  <2>. QED
    BY <1>5, <2>2, HeartbeatWork, NothingDecided DEF TasksAreWorked, Worked
<1>6. ASSUME NEW a \in Issued, NEW h \in ContentHash, Publish(a, h)
      PROVE  Outcomes'
  BY <1>6, PublishOutcomes
<1>7. ASSUME NEW a \in Issued,
             \/ \E divergent \in BOOLEAN : InvalidOutput(a, divergent)
             \/ \E retry_after \in RetryAfter : Retryable(a, retry_after)
             \/ Permanent(a)
      PROVE  Outcomes'
  <2>1. /\ TasksAreWorked /\ Live(a)
        /\ attempt' = [attempt EXCEPT ![a].status = "completed"]
        /\ DOMAIN review \subseteq DOMAIN review'
        /\ task'[a.task].status = "dead" =>
             DeadLetter(a.task) \in DOMAIN review'
        /\ UNCHANGED <<page, generation>>
    BY <1>7, FailureWork
  <2>2. \A k \in DOMAIN task : k # a.task => task'[k] = task[k]
    BY <1>7, FailureWork
  <2>3. /\ AttemptsAreKept /\ DOMAIN attempt' = DOMAIN attempt
        /\ Accepted' = Accepted
    <3>1. /\ AttemptsAreKept /\ DOMAIN attempt' = DOMAIN attempt
          /\ attempt'[a].status = "completed"
          /\ attempt[a].status = "reserved"
          /\ \A b \in DOMAIN attempt : b # a => attempt'[b] = attempt[b]
      BY <2>1, ClosedAttempt
    <3>. QED
      BY <3>1 DEF Accepted
  <2>. QED
    BY <2>1, <2>2, <2>3, NothingAccepted DEF Outcomes, TasksAreWorked, Worked
<1>8. CASE Recover
  <2>1. Accepted' = Accepted
    BY <1>8, RecoverWork DEF Accepted
  <2>. QED
    BY <1>8, <2>1, RecoverWork, NothingAccepted
       DEF Outcomes, TasksAreWorked, Worked
<1>9. ASSUME NEW k \in DOMAIN task, NEW epoch \in 1..task[k].epoch,
              QuarantinePreflight(k, epoch)
       PROVE  Outcomes'
  <2>1. IsFiniteSet(DOMAIN attempt') /\ Accepted' = Accepted
    <3>1. CASE UNCHANGED attempt
      BY <3>1 DEF Outcomes, Accepted
    <3>2. CASE \E a, row : /\ a \notin DOMAIN attempt
                           /\ attempt' = Put(attempt, a, row)
                           /\ row.status = "completed"
      BY <3>2, NewAttempt DEF Outcomes
    <3>. QED
      BY <1>9, <3>1, <3>2, QuarantinePreflightWork
  <2>. QED
    BY <1>9, <2>1, QuarantinePreflightWork, NothingAccepted
       DEF TasksAreWorked, Worked
<1>10. CASE Tick
  BY <1>10, TickWork, NothingDecided DEF TasksAreWorked, Worked
<1>11. CASE NewDay \/ UNCHANGED vars
  BY <1>2, <1>11 DEF NewDay, vars
<1>. QED
  BY <1>1, <1>3, <1>4, <1>5, <1>6, <1>7, <1>8, <1>9, <1>10, <1>11 DEF Next

LEMMA InitOutcomes == Init => Outcomes
<1>. SUFFICES ASSUME Init PROVE Outcomes
  OBVIOUS
<1>1. /\ DOMAIN attempt = {} /\ DOMAIN page = {} /\ DOMAIN task = {}
      /\ generation = 0
  BY DEF Init, EmptyTable
<1>2. Accepted = {}
  BY <1>1 DEF Accepted
<1>3. IsFiniteSet(DOMAIN attempt) /\ Cardinality(Accepted) = 0
  BY <1>1, <1>2, FS_EmptySet
<1>. QED
  BY <1>1, <1>3 DEF Outcomes, PagesAreBacked, DeadTasksAreEscalated

LEMMA OutcomesInvariant == Spec => []Outcomes
BY InitOutcomes, NextOutcomes, TypeCorrect, FencingInvariant, PTL DEF Spec

-----------------------------------------------------------------------------
(* The theorems about states.                                              *)

\* Knowledge lags the head and the head lags the facts, for any sources: no
\* path writes the facts of a revision and leaves the head behind a page.
THEOREM PlanesStayOrdered == Spec => []PlanesAreOrdered
BY PlanesInvariant, PTL DEF Planes

\* All tasks of a revision, whatever their pack and epoch, were admitted from
\* one snapshot, and the page of the head's revision has that snapshot's body.
THEOREM RevisionsHaveOneSnapshot == Spec => []OneSnapshotPerRevision
BY PlanesInvariant, PTL DEF Planes

\* A head names an existing task in its current epoch that wants what the head
\* wants; only a skip gives the head another hash than its task's.
THEOREM HeadsAlwaysNameTheirTask == Spec => []HeadsNameTheirTask
BY PlanesInvariant, PTL DEF Planes

\* Every page is the artifact of an accepted attempt on its own revision.
THEOREM PagesAreAlwaysBacked == Spec => []PagesAreBacked
BY OutcomesInvariant, PTL DEF Outcomes

\* A dead task has a dead letter, unless a preflight put it there.
THEOREM TheDeadAreEscalated == Spec => []DeadTasksAreEscalated
BY OutcomesInvariant, PTL DEF Outcomes

\* An epoch is accepted at most once, whatever its holders replay or deliver
\* late, and generations are allocated by acceptances only.
THEOREM EpochsAreAcceptedOnce == Spec => []OneAcceptancePerEpoch
<1>1. FencingInv /\ Outcomes => OneAcceptancePerEpoch
  BY DEF FencingInv, AcceptedOnce, Outcomes, Accepted, OneAcceptancePerEpoch
<1>. QED
  BY <1>1, FencingInvariant, OutcomesInvariant, PTL

-----------------------------------------------------------------------------
(* The theorems about steps that rest on those invariants.                 *)

\* A page is replaced by what the head wants, with a larger generation, by the
\* newest claim of its task: an older worker never gets through.
THEOREM PublicationsStayFenced == Spec => PublishIsFenced
<1>. DEFINE Fenced ==
       \A e \in DOMAIN page' :
         e \notin DOMAIN page \/ page'[e] # page[e] =>
           /\ e \in DOMAIN head /\ page'[e].hash = head[e].hash
           /\ e \in DOMAIN page => page'[e].gen > page[e].gen
           /\ \A a \in DOMAIN attempt :
                attempt'[a].status = "accepted"
                /\ attempt[a].status # "accepted"
                => /\ a.epoch = task[a.task].epoch
                   /\ a.no = task[a.task].attempts
<1>1. ASSUME TypeOK, FencingInv, Outcomes, NEW a \in Issued, NEW h,
             Publish(a, h)
      PROVE  Fenced
  <2>. DEFINE k == a.task
  <2>1. /\ Live(a) /\ attempt' = [attempt EXCEPT ![a].status = "accepted"]
        /\ h = attempt[a].hash /\ HeadWants(k)
        /\ page' = Put(page, k.entity, PageRow(k, h))
    BY <1>1 DEF Publish
  <2>2. /\ attempt[a].hash = task[k].hash
        /\ a.epoch = task[k].epoch /\ a.no = task[k].attempts
        /\ \A b \in DOMAIN attempt : b # a => attempt'[b] = attempt[b]
    BY <1>1, <2>1, ClosedAttempt
  <2>3. /\ page'[k.entity].hash = h /\ page'[k.entity].gen = generation + 1
        /\ DOMAIN page' = DOMAIN page \cup {k.entity}
        /\ \A e \in DOMAIN page : e # k.entity => page'[e] = page[e]
    BY <2>1 DEF Put, PageRow
  <2>4. /\ generation \in Nat
        /\ \A e \in DOMAIN page : page[e].gen \in Nat
                                /\ page[e].gen <= generation
    BY <1>1, RevisionTypes DEF TypeOK, Outcomes
  <2>. QED
    BY <2>1, <2>2, <2>3, <2>4 DEF HeadWants
<1>2. ASSUME UNCHANGED page
      PROVE  Fenced
  BY <1>2
<1>. HIDE DEF Fenced
<1>3. ASSUME TypeOK, FencingInv, Outcomes, Next
      PROVE  Fenced
  <2>1. \/ \E a \in Issued, h \in ContentHash : Publish(a, h)
        \/ UNCHANGED page
    <3>1. ASSUME NEW s \in Source, NEW c \in Config, NEW p \in Policy,
                 NEW force \in BOOLEAN, Admit(s, c, p, force)
          PROVE  UNCHANGED page
      BY <3>1 DEF Admit
    <3>2. ASSUME NEW s \in Seeded, UpsertFacts(s)
          PROVE  UNCHANGED page
      BY <3>2 DEF UpsertFacts
    <3>3. ASSUME NEW ids \in SUBSET TaskKey, NEW r \in Run, Claim(ids, r)
          PROVE  UNCHANGED page
      BY <1>3, <3>3, ClaimWork
    <3>4. ASSUME NEW a \in Issued,
                 \/ Heartbeat(a) \/ Permanent(a)
                 \/ \E divergent \in BOOLEAN : InvalidOutput(a, divergent)
                 \/ \E retry_after \in RetryAfter : Retryable(a, retry_after)
          PROVE  UNCHANGED page
      BY <3>4 DEF Heartbeat, Permanent, InvalidOutput, Retryable
    <3>5. CASE Recover \/ Tick \/ NewDay
      BY <3>5 DEF Recover, Tick, NewDay
    <3>6. ASSUME NEW k \in DOMAIN task, NEW epoch \in 1..task[k].epoch,
                 QuarantinePreflight(k, epoch)
          PROVE  UNCHANGED page
      BY <3>6 DEF QuarantinePreflight
    <3>. QED
      BY <1>3, <3>1, <3>2, <3>3, <3>4, <3>5, <3>6 DEF Next
  <2>. QED
    BY <1>1, <1>2, <1>3, <2>1
<1>4. TypeOK /\ FencingInv /\ Outcomes /\ [Next]_vars => [Fenced]_vars
  BY <1>3
<1>. USE DEF Fenced
<1>. QED
  BY <1>4, TypeCorrect, FencingInvariant, OutcomesInvariant, PTL
     DEF Spec, PublishIsFenced

\* Heads and facts never go back, and a revision keeps its snapshot, in every
\* order of admissions and imports.
THEOREM RevisionsNeverGoBack == Spec => RevisionsNeverRegress
<1>. DEFINE Onward ==
       /\ \A e \in DOMAIN head :
            \/ head'[e].rev > head[e].rev
            \/ head'[e].rev = head[e].rev /\ head'[e].snap = head[e].snap
       /\ \A e \in DOMAIN facts :
            facts'[e] = facts[e] \/ facts'[e].rev > facts[e].rev
<1>1. ASSUME UNCHANGED <<head, facts>>
      PROVE  Onward
  BY <1>1
<1>2. ASSUME TypeOK, NEW s \in Source, NEW c \in Config, NEW p \in Policy,
             NEW force \in BOOLEAN, Admit(s, c, p, force)
      PROVE  Onward
  <2>1. Admissible(s) /\ WriteFacts(s)
    BY <1>2 DEF Admit
  <2>2. \A e \in DOMAIN facts :
          facts'[e] = facts[e] \/ facts'[e].rev > facts[e].rev
    BY <2>1 DEF WriteFacts, Put
  <2>3. \/ UNCHANGED head
        \/ \E row : /\ head' = Put(head, s.entity, row)
                    /\ row.rev = s.rev /\ row.snap = Snap(s)
    <3>. DEFINE row(epoch) == [rev |-> s.rev, snap |-> Snap(s),
                               hash |-> Hash(s, c), task |-> KeyOf(s, c),
                               epoch |-> epoch]
    <3>1. \/ UNCHANGED head
          \/ head' = Put(head, s.entity, row(task'[KeyOf(s, c)].epoch))
      BY <1>2, AdmitWork
    <3>2. \A n : row(n).rev = s.rev /\ row(n).snap = Snap(s)
      OBVIOUS
    <3>. HIDE DEF row
    <3>. QED
      BY <3>1, <3>2
  <2>4. \A e \in DOMAIN head :
          \/ head'[e].rev > head[e].rev
          \/ head'[e].rev = head[e].rev /\ head'[e].snap = head[e].snap
    BY <2>1, <2>3 DEF Admissible, Put
  <2>. QED
    BY <2>2, <2>4
<1>3. ASSUME NEW s \in Seeded, UpsertFacts(s)
      PROVE  Onward
  BY <1>3 DEF UpsertFacts, Put
<1>. HIDE DEF Onward
<1>4. ASSUME TypeOK, FencingInv, [Next]_vars
      PROVE  Onward
  <2>1. ASSUME NEW ids \in SUBSET TaskKey, NEW r \in Run, Claim(ids, r)
        PROVE  Onward
    BY <1>1, <1>4, <2>1, ClaimWork
  <2>2. ASSUME NEW a \in Issued,
               \/ Heartbeat(a) \/ Permanent(a)
               \/ \E h \in ContentHash : Publish(a, h)
               \/ \E divergent \in BOOLEAN : InvalidOutput(a, divergent)
               \/ \E retry_after \in RetryAfter : Retryable(a, retry_after)
        PROVE  Onward
    BY <1>1, <2>2 DEF Heartbeat, Permanent, Publish, InvalidOutput, Retryable
  <2>3. CASE Recover \/ Tick \/ NewDay \/ UNCHANGED vars
    BY <1>1, <2>3 DEF Recover, Tick, NewDay, vars
  <2>4. ASSUME NEW k \in DOMAIN task, NEW epoch \in 1..task[k].epoch,
               QuarantinePreflight(k, epoch)
        PROVE  Onward
    BY <1>1, <2>4 DEF QuarantinePreflight
  <2>. QED
    BY <1>2, <1>3, <1>4, <2>1, <2>2, <2>3, <2>4 DEF Next
<1>5. TypeOK /\ FencingInv /\ [Next]_vars => [Onward]_vars
  BY <1>4
<1>. USE DEF Onward
<1>. QED
  BY <1>5, TypeCorrect, FencingInvariant, PTL DEF Spec, RevisionsNeverRegress

\* A claim is charged to its task, to its run and, once a limit exists for the
\* day, to the day, also under a policy that sets none; and it fits all three.
THEOREM ClaimsAreAlwaysCharged == Spec => ClaimsAreCharged
<1>. DEFINE Charged ==
       \A a \in DOMAIN attempt' \ DOMAIN attempt : a.no > 0 =>
         LET b == attempt'[a].reserved
             r == attempt'[a].run
             Before(table, key) ==
               IF key \in DOMAIN table THEN table[key].reserved ELSE 0
         IN  /\ task'[a.task].reserved = task[a.task].reserved + b
             /\ task'[a.task].reserved <= task'[a.task].budget
             /\ runs'[r].reserved = Before(runs, r) + b
             /\ runs'[r].reserved <= runs'[r].limit
             /\ day \in DOMAIN days' =>
                  /\ days'[day].reserved = Before(days, day) + b
                  /\ days'[day].reserved <= days'[day].limit
<1>1. ASSUME DOMAIN attempt' \subseteq DOMAIN attempt
      PROVE  Charged
  BY <1>1
<1>2. ASSUME TypeOK, FencingInv, NEW ids \in SUBSET TaskKey, NEW r \in Run,
             Claim(ids, r)
      PROVE  Charged
  <2>1. PICK k \in ids :
          /\ Candidate(ids, k)
          /\ Fits(task[k].reserved, task[k].policy.cost, task[k].budget)
          /\ \/ Affordable(r, task[k].policy) /\ Lease(k, r)
             \/ Defer(r, task[k].policy)
    BY <1>2 DEF Claim
  <2>2. CASE Defer(r, task[k].policy)
    BY <1>1, <2>2 DEF Defer
  <2>3. CASE Affordable(r, task[k].policy) /\ Lease(k, r)
    <3>. DEFINE t == task[k]
                p == task[k].policy
                a == [task |-> k, epoch |-> t.epoch, no |-> t.attempts + 1]
                row == [status |-> "reserved", hash |-> t.hash, run |-> r,
                        day |-> day, reserved |-> p.cost]
    <3>1. k \in DOMAIN task /\ t \in Task
      BY <1>2, <2>1, RowOf DEF Candidate, TypeOK
    <3>2. /\ attempt' = Put(attempt, a, row)
          /\ runs' = Reserve(OpenRun(r, p), r, p.cost)
          /\ days' = Reserve(OpenDay(p), day, p.cost)
      BY <2>3 DEF Lease
    <3>3. /\ task'[k].reserved = t.reserved + p.cost
          /\ task'[k].budget = t.budget
      BY <2>3, <3>1 DEF Lease, Task
    <3>4. t.reserved + p.cost <= t.budget
      BY <2>1 DEF Fits
    <3>5. /\ r \in DOMAIN OpenRun(r, p)
          /\ OpenRun(r, p)[r].reserved =
               IF r \in DOMAIN runs THEN runs[r].reserved ELSE 0
      BY DEF OpenRun, Put
    <3>6. /\ IsTable(OpenRun(r, p), Run, Ledger)
          /\ IsTable(OpenDay(p), Nat, Ledger)
      BY <1>2, <3>1, LedgerTypes DEF Task
    <3>7. /\ runs'[r].reserved = OpenRun(r, p)[r].reserved + p.cost
          /\ runs'[r].limit = OpenRun(r, p)[r].limit
      BY <3>2, <3>5, <3>6 DEF Reserve, IsTable, Ledger
    <3>8. OpenRun(r, p)[r].reserved + p.cost <= OpenRun(r, p)[r].limit
      BY <2>3 DEF Affordable, Fits
    <3>9. ASSUME day \in DOMAIN days'
          PROVE  /\ days'[day].reserved =
                      (IF day \in DOMAIN days THEN days[day].reserved ELSE 0)
                        + p.cost
                 /\ days'[day].reserved <= days'[day].limit
      <4>1. day \in DOMAIN OpenDay(p)
        BY <3>2, <3>9 DEF Reserve
      <4>2. OpenDay(p)[day].reserved =
              IF day \in DOMAIN days THEN days[day].reserved ELSE 0
        <5>1. day \in DOMAIN days => days[day] \in Ledger
          BY <1>2, RowOf DEF TypeOK
        <5>. QED
          BY <4>1, <5>1 DEF OpenDay, Put, Ledger
      <4>3. OpenDay(p)[day].reserved + p.cost <= OpenDay(p)[day].limit
        BY <2>3, <4>1 DEF Affordable, Fits
      <4>4. /\ days'[day].reserved = OpenDay(p)[day].reserved + p.cost
            /\ days'[day].limit = OpenDay(p)[day].limit
        BY <3>2, <3>6, <4>1 DEF Reserve, IsTable, Ledger
      <4>. QED
        BY <4>2, <4>3, <4>4
    <3>10. ASSUME NEW x \in DOMAIN attempt' \ DOMAIN attempt
           PROVE  x = a /\ x.task = k /\ attempt'[x] = row
      BY <3>2 DEF Put
    <3>11. row.reserved = p.cost /\ row.run = r
      OBVIOUS
    <3>. HIDE DEF a, row, p
    <3>. QED
      BY <3>3, <3>4, <3>5, <3>7, <3>8, <3>9, <3>10, <3>11
  <2>. QED
    BY <2>1, <2>2, <2>3
<1>3. ASSUME NEW k, NEW epoch, QuarantinePreflight(k, epoch)
      PROVE  Charged
  BY <1>3 DEF QuarantinePreflight, Put
<1>. HIDE DEF Charged
<1>4. ASSUME TypeOK, FencingInv, Next
      PROVE  Charged
  <2>1. ASSUME NEW s \in Source, NEW c \in Config, NEW p \in Policy,
               NEW force \in BOOLEAN, Admit(s, c, p, force)
        PROVE  Charged
    BY <1>1, <2>1 DEF Admit
  <2>2. ASSUME NEW s \in Seeded, UpsertFacts(s)
        PROVE  Charged
    BY <1>1, <2>2 DEF UpsertFacts
  <2>3. ASSUME NEW a \in Issued,
               \/ Heartbeat(a) \/ Permanent(a)
               \/ \E h \in ContentHash : Publish(a, h)
               \/ \E divergent \in BOOLEAN : InvalidOutput(a, divergent)
               \/ \E retry_after \in RetryAfter : Retryable(a, retry_after)
        PROVE  Charged
    BY <1>1, <2>3 DEF Heartbeat, Permanent, Publish, InvalidOutput, Retryable
  <2>4. CASE Recover \/ Tick \/ NewDay
    BY <1>1, <2>4 DEF Recover, Tick, NewDay
  <2>. QED
    BY <1>2, <1>3, <1>4, <2>1, <2>2, <2>3, <2>4 DEF Next
<1>5. TypeOK /\ FencingInv /\ [Next]_vars => [Charged]_vars
  BY <1>4
<1>. USE DEF Charged
<1>. QED
  BY <1>5, TypeCorrect, FencingInvariant, PTL DEF Spec, ClaimsAreCharged

-----------------------------------------------------------------------------
(* The ledgers.  A sum over attempts is the number of their tokens, so that *)
(* an attempt more is so many tokens more.                                 *)

UnitsOf(table, S) == UNION {{a} \X (1..table[a].reserved) : a \in S}
SumOf(table, S) == Cardinality(UnitsOf(table, S))

TaskAttempts(table, k) == {a \in DOMAIN table : a.task = k}
RunAttempts(table, r) == {a \in DOMAIN table : table[a].run = r}
DayAttempts(table, d) == {a \in DOMAIN table : table[a].day = d}

LEMMA UnitsSame ==
  ASSUME NEW t, NEW u, NEW S, \A a \in S : u[a].reserved = t[a].reserved
  PROVE  UnitsOf(u, S) = UnitsOf(t, S)
BY DEF UnitsOf

LEMMA UnitsNone ==
  ASSUME NEW t, NEW S, \A a \in S : t[a].reserved = 0
  PROVE  SumOf(t, S) = 0
<1>1. UnitsOf(t, S) = {}
  BY DEF UnitsOf
<1>. QED
  BY <1>1, FS_EmptySet DEF SumOf

LEMMA UnitsWithin ==
  ASSUME NEW t, NEW S, NEW T, S \subseteq T, IsFiniteSet(UnitsOf(t, T))
  PROVE  IsFiniteSet(UnitsOf(t, S)) /\ SumOf(t, S) \in Nat
<1>1. UnitsOf(t, S) \subseteq UnitsOf(t, T)
  BY DEF UnitsOf
<1>. QED
  BY <1>1, FS_Subset, FS_CardinalityType DEF SumOf

\* One attempt more, with n tokens.
LEMMA UnitsMore ==
  ASSUME NEW t, NEW u, NEW S, NEW a, a \notin S, NEW n \in Nat,
         \A b \in S : u[b].reserved = t[b].reserved, u[a].reserved = n,
         IsFiniteSet(UnitsOf(t, S))
  PROVE  /\ IsFiniteSet(UnitsOf(u, S \cup {a}))
         /\ SumOf(u, S \cup {a}) = SumOf(t, S) + n
<1>. DEFINE U == UnitsOf(t, S)
            R == {<<a, i>> : i \in 1..n}
            f == [i \in 1..n |-> <<a, i>>]
<1>1. f \in Bijection(1..n, R)
  BY DEF Bijection, Injection, Surjection, IsInjective
<1>2. IsFiniteSet(1..n) /\ Cardinality(1..n) = n
  BY FS_Interval
<1>3. IsFiniteSet(R) /\ Cardinality(R) = n
  BY <1>1, <1>2, FS_Bijection DEF ExistsBijection
<1>4. UnitsOf(u, S \cup {a}) = U \cup R
  <2>1. {a} \X (1..n) = R
    OBVIOUS
  <2>2. UnitsOf(u, S \cup {a}) = UnitsOf(u, S) \cup ({a} \X (1..n))
    BY DEF UnitsOf
  <2>. QED
    BY <2>1, <2>2, UnitsSame
<1>5. U \cap R = {}
  BY DEF UnitsOf
<1>. HIDE DEF U, R
<1>6. /\ IsFiniteSet(U \cup R)
      /\ Cardinality(U \cup R)
           = Cardinality(U) + Cardinality(R) - Cardinality(U \cap R)
  BY <1>3, FS_Union DEF U
<1>7. Cardinality(U) \in Nat /\ Cardinality(U \cap R) = 0
  BY <1>5, FS_EmptySet, FS_CardinalityType DEF U
<1>8. /\ SumOf(t, S) = Cardinality(U)
      /\ SumOf(u, S \cup {a}) = Cardinality(U \cup R)
  BY <1>4 DEF SumOf, U
<1>9. IsFiniteSet(UnitsOf(u, S \cup {a}))
  BY <1>4, <1>6
<1>10. Cardinality(U \cup R) = Cardinality(U) + n
  BY <1>3, <1>6, <1>7
<1>. QED
  BY <1>8, <1>9, <1>10

\* LedgersAgree, and that a run with a reservation has its row.
Ledgers ==
  /\ IsFiniteSet(UnitsOf(attempt, DOMAIN attempt))
  /\ \A a \in DOMAIN attempt :
       attempt[a].reserved # 0 => attempt[a].run \in DOMAIN runs
  /\ \A k \in DOMAIN task :
       task[k].reserved = SumOf(attempt, TaskAttempts(attempt, k))
  /\ \A r \in DOMAIN runs :
       runs[r].reserved = SumOf(attempt, RunAttempts(attempt, r))
  /\ \A d \in DOMAIN days :
       days[d].reserved <= SumOf(attempt, DayAttempts(attempt, d))

LEMMA LedgersImply == Ledgers => LedgersAgree
BY DEF Ledgers, LedgersAgree, SumReserved, SumOf, UnitsOf, TaskAttempts,
       RunAttempts, DayAttempts

\* A row is carried over, or new and empty.
Carried(old, new) ==
  \A k \in DOMAIN new :
    new[k].reserved = IF k \in DOMAIN old THEN old[k].reserved ELSE 0

\* A step that reserves nothing.
LEMMA LedgersStay ==
  ASSUME FencingInv, Ledgers, DOMAIN attempt' = DOMAIN attempt,
         \A a \in DOMAIN attempt :
           /\ attempt'[a].reserved = attempt[a].reserved
           /\ attempt'[a].run = attempt[a].run
           /\ attempt'[a].day = attempt[a].day,
         Carried(task, task'), Carried(runs, runs'), Carried(days, days'),
         DOMAIN runs \subseteq DOMAIN runs'
  PROVE  Ledgers'
<1>1. UnitsOf(attempt', DOMAIN attempt') = UnitsOf(attempt, DOMAIN attempt)
  BY UnitsSame
<1>2. ASSUME NEW S, S \subseteq DOMAIN attempt
      PROVE  SumOf(attempt', S) = SumOf(attempt, S) /\ SumOf(attempt, S) \in Nat
  <2>1. UnitsOf(attempt', S) = UnitsOf(attempt, S)
    BY <1>2, UnitsSame
  <2>. QED
    BY <1>2, <2>1, UnitsWithin DEF SumOf, Ledgers
<1>3. ASSUME NEW k
      PROVE  /\ TaskAttempts(attempt', k) = TaskAttempts(attempt, k)
             /\ RunAttempts(attempt', k) = RunAttempts(attempt, k)
             /\ DayAttempts(attempt', k) = DayAttempts(attempt, k)
             /\ TaskAttempts(attempt, k) \subseteq DOMAIN attempt
             /\ RunAttempts(attempt, k) \subseteq DOMAIN attempt
             /\ DayAttempts(attempt, k) \subseteq DOMAIN attempt
  BY DEF TaskAttempts, RunAttempts, DayAttempts
<1>4. ASSUME NEW k \in DOMAIN task'
      PROVE  task'[k].reserved = SumOf(attempt', TaskAttempts(attempt', k))
  <2>1. CASE k \in DOMAIN task
    BY <1>2, <1>3, <2>1 DEF Carried, Ledgers
  <2>2. CASE k \notin DOMAIN task
    <3>1. TaskAttempts(attempt, k) = {}
      BY <2>2 DEF TaskAttempts, FencingInv, Belongs
    <3>2. SumOf(attempt, TaskAttempts(attempt, k)) = 0
      BY <3>1, UnitsNone
    <3>. QED
      BY <1>2, <1>3, <2>2, <3>2 DEF Carried
  <2>. QED
    BY <2>1, <2>2
<1>5. ASSUME NEW r \in DOMAIN runs'
      PROVE  runs'[r].reserved = SumOf(attempt', RunAttempts(attempt', r))
  <2>1. CASE r \in DOMAIN runs
    BY <1>2, <1>3, <2>1 DEF Carried, Ledgers
  <2>2. CASE r \notin DOMAIN runs
    <3>1. \A a \in RunAttempts(attempt, r) : attempt[a].reserved = 0
      BY <2>2 DEF RunAttempts, Ledgers
    <3>2. SumOf(attempt, RunAttempts(attempt, r)) = 0
      BY <3>1, UnitsNone
    <3>. QED
      BY <1>2, <1>3, <2>2, <3>2 DEF Carried
  <2>. QED
    BY <2>1, <2>2
<1>6. ASSUME NEW d \in DOMAIN days'
      PROVE  days'[d].reserved <= SumOf(attempt', DayAttempts(attempt', d))
  BY <1>2, <1>3 DEF Carried, Ledgers
<1>. QED
  BY <1>1, <1>4, <1>5, <1>6 DEF Ledgers

\* What n tokens more make of a ledger's column.
Charged(old, new, key, n) ==
  \A k \in DOMAIN new :
    new[k].reserved = (IF k \in DOMAIN old THEN old[k].reserved ELSE 0)
                        + (IF k = key THEN n ELSE 0)

\* A new attempt that is charged to its task, run and day.
LEMMA LedgersGrow ==
  ASSUME Ledgers, NEW a, a \notin DOMAIN attempt,
         NEW row, attempt' = Put(attempt, a, row), row.reserved \in Nat,
         DOMAIN task' = DOMAIN task,
         Charged(task, task', a.task, row.reserved),
         Charged(runs, runs', row.run, row.reserved),
         \/ Charged(days, days', row.day, row.reserved)
         \/ UNCHANGED days,
         \A d \in DOMAIN days : days[d].reserved \in Nat,
         DOMAIN runs \subseteq DOMAIN runs',
         row.reserved # 0 => row.run \in DOMAIN runs'
  PROVE  Ledgers'
<1>. DEFINE n == row.reserved
            D == DOMAIN attempt
<1>1. /\ DOMAIN attempt' = D \cup {a} /\ attempt'[a] = row
      /\ \A b \in D : attempt'[b] = attempt[b]
  BY DEF Put
<1>2. ASSUME NEW S, S \subseteq D
      PROVE  /\ SumOf(attempt', S) = SumOf(attempt, S)
             /\ SumOf(attempt, S) \in Nat
             /\ IsFiniteSet(UnitsOf(attempt', S \cup {a}))
             /\ SumOf(attempt', S \cup {a}) = SumOf(attempt, S) + n
  <2>1. IsFiniteSet(UnitsOf(attempt, S)) /\ SumOf(attempt, S) \in Nat
    BY <1>2, UnitsWithin DEF Ledgers
  <2>2. UnitsOf(attempt', S) = UnitsOf(attempt, S)
    BY <1>1, <1>2, UnitsSame
  <2>3. a \notin S /\ \A b \in S : attempt'[b].reserved = attempt[b].reserved
    BY <1>1, <1>2
  <2>4. attempt'[a].reserved = n
    BY <1>1
  <2>. QED
    BY <2>1, <2>2, <2>3, <2>4, UnitsMore DEF SumOf
<1>3. ASSUME NEW k
      PROVE  /\ TaskAttempts(attempt', k) =
                  IF k = a.task THEN TaskAttempts(attempt, k) \cup {a}
                  ELSE TaskAttempts(attempt, k)
             /\ RunAttempts(attempt', k) =
                  IF k = row.run THEN RunAttempts(attempt, k) \cup {a}
                  ELSE RunAttempts(attempt, k)
             /\ DayAttempts(attempt', k) =
                  IF k = row.day THEN DayAttempts(attempt, k) \cup {a}
                  ELSE DayAttempts(attempt, k)
             /\ TaskAttempts(attempt, k) \subseteq D
             /\ RunAttempts(attempt, k) \subseteq D
             /\ DayAttempts(attempt, k) \subseteq D
  BY <1>1 DEF TaskAttempts, RunAttempts, DayAttempts
<1>. HIDE DEF D
<1>4. ASSUME NEW k \in DOMAIN task'
      PROVE  task'[k].reserved = SumOf(attempt', TaskAttempts(attempt', k))
  <2>1. task[k].reserved = SumOf(attempt, TaskAttempts(attempt, k))
    BY DEF Ledgers
  <2>2. CASE k = a.task
    BY <1>2, <1>3, <2>1, <2>2 DEF Charged
  <2>3. CASE k # a.task
    <3>1. SumOf(attempt', TaskAttempts(attempt', k))
            = SumOf(attempt, TaskAttempts(attempt, k))
      BY <1>2, <1>3, <2>3
    <3>2. SumOf(attempt, TaskAttempts(attempt, k)) \in Nat
      BY <1>2, <1>3
    <3>3. task'[k].reserved = task[k].reserved + 0
      BY <2>3 DEF Charged
    <3>. QED
      BY <2>1, <3>1, <3>2, <3>3
  <2>. QED
    BY <2>2, <2>3
<1>5. ASSUME NEW r \in DOMAIN runs'
      PROVE  runs'[r].reserved = SumOf(attempt', RunAttempts(attempt', r))
  <2>1. SumOf(attempt, RunAttempts(attempt, r))
          = IF r \in DOMAIN runs THEN runs[r].reserved ELSE 0
    <3>1. CASE r \in DOMAIN runs
      BY <3>1 DEF Ledgers
    <3>2. CASE r \notin DOMAIN runs
      <4>1. \A b \in RunAttempts(attempt, r) : attempt[b].reserved = 0
        BY <3>2 DEF RunAttempts, Ledgers
      <4>. QED
        BY <3>2, <4>1, UnitsNone
    <3>. QED
      BY <3>1, <3>2
  <2>. DEFINE before == SumOf(attempt, RunAttempts(attempt, r))
  <2>2. before \in Nat
    BY <1>2, <1>3
  <2>3. CASE r = row.run
    <3>1. SumOf(attempt', RunAttempts(attempt', r)) = before + n
      BY <1>2, <1>3, <2>3
    <3>2. runs'[r].reserved = before + n
      BY <2>1, <2>3 DEF Charged
    <3>. QED
      BY <3>1, <3>2
  <2>4. CASE r # row.run
    <3>1. SumOf(attempt', RunAttempts(attempt', r)) = before
      BY <1>2, <1>3, <2>4
    <3>2. runs'[r].reserved = before + 0
      BY <2>1, <2>4 DEF Charged
    <3>. QED
      BY <2>2, <3>1, <3>2
  <2>. QED
    BY <2>3, <2>4
<1>6. ASSUME NEW d \in DOMAIN days'
      PROVE  days'[d].reserved <= SumOf(attempt', DayAttempts(attempt', d))
  <2>1. d \in DOMAIN days =>
          days[d].reserved <= SumOf(attempt, DayAttempts(attempt, d))
    BY DEF Ledgers
  <2>2. d \in DOMAIN days => days[d].reserved \in Nat
    OBVIOUS
  <2>3. SumOf(attempt, DayAttempts(attempt, d)) \in Nat
    BY <1>2, <1>3
  <2>4. CASE d = row.day
    <3>1. SumOf(attempt', DayAttempts(attempt', d))
            = SumOf(attempt, DayAttempts(attempt, d)) + n
      BY <1>2, <1>3, <2>4
    <3>2. CASE UNCHANGED days
      BY <2>1, <2>2, <2>3, <3>1, <3>2
    <3>3. CASE Charged(days, days', row.day, n)
      BY <2>1, <2>2, <2>3, <2>4, <3>1, <3>3 DEF Charged
    <3>. QED
      BY <3>2, <3>3
  <2>5. CASE d # row.day
    <3>1. SumOf(attempt', DayAttempts(attempt', d))
            = SumOf(attempt, DayAttempts(attempt, d))
      BY <1>2, <1>3, <2>5
    <3>2. CASE UNCHANGED days
      BY <2>1, <2>2, <2>3, <3>1, <3>2
    <3>3. CASE Charged(days, days', row.day, n)
      BY <2>1, <2>2, <2>3, <2>5, <3>1, <3>3 DEF Charged
    <3>. QED
      BY <3>2, <3>3
  <2>. QED
    BY <2>4, <2>5
<1>7. IsFiniteSet(UnitsOf(attempt', DOMAIN attempt'))
  <2>1. D \subseteq D
    OBVIOUS
  <2>. QED
    BY <1>1, <1>2, <2>1
<1>8. ASSUME NEW b \in DOMAIN attempt', attempt'[b].reserved # 0
      PROVE  attempt'[b].run \in DOMAIN runs'
  <2>1. CASE b = a
    BY <1>1, <1>8, <2>1
  <2>2. CASE b \in D
    BY <1>1, <1>8, <2>2 DEF Ledgers, D
  <2>. QED
    BY <1>1, <2>1, <2>2
<1>. QED
  BY <1>4, <1>5, <1>6, <1>7, <1>8 DEF Ledgers

\* What ends or puts back a task, and what counts a failure, refunds nothing.
LEMMA NothingRefunded ==
  ASSUME NEW t \in Task
  PROVE  /\ \A status, result : Finish(t, status, result).reserved = t.reserved
         /\ \A wait : PutBack(t, wait).reserved = t.reserved
BY DEF Finish, PutBack, Task

LEMMA CountedReserves ==
  ASSUME NEW t \in Task
  PROVE  /\ [t EXCEPT !.retries = t.retries + 1].reserved = t.reserved
         /\ [t EXCEPT !.recompiles = t.recompiles + 1].reserved = t.reserved
BY DEF Task

\* Attempts that at most get an outcome.
Outcome(status) ==
  \E a : attempt' = [attempt EXCEPT ![a].status = status]

LEMMA OutcomeReserves ==
  ASSUME TypeOK, NEW status, Outcome(status)
  PROVE  /\ DOMAIN attempt' = DOMAIN attempt
         /\ \A a \in DOMAIN attempt :
              /\ attempt'[a].reserved = attempt[a].reserved
              /\ attempt'[a].run = attempt[a].run
              /\ attempt'[a].day = attempt[a].day
<1>1. \A a \in DOMAIN attempt : attempt[a] \in Attempt
  BY DEF TypeOK, IsTable
<1>. QED
  BY <1>1 DEF Outcome, Attempt

\* One row of the tasks changes, and not its reservation.
LEMMA RowCarried ==
  ASSUME NEW k, NEW u, task' = [task EXCEPT ![k] = u],
         k \in DOMAIN task => u.reserved = task[k].reserved
  PROVE  Carried(task, task')
BY DEF Carried

LEMMA SameCarried == \A t : Carried(t, t)
BY DEF Carried

\* An outcome, a heartbeat or a retirement: one row, at most one outcome.
LEMMA WorkLedgers ==
  ASSUME TypeOK, FencingInv, Ledgers, UNCHANGED <<runs, days>>,
         (\E status : Outcome(status)) \/ UNCHANGED attempt,
         Carried(task, task')
  PROVE  Ledgers'
<1>1. /\ DOMAIN attempt' = DOMAIN attempt
      /\ \A a \in DOMAIN attempt :
           /\ attempt'[a].reserved = attempt[a].reserved
           /\ attempt'[a].run = attempt[a].run
           /\ attempt'[a].day = attempt[a].day
  BY OutcomeReserves
<1>. QED
  BY <1>1, SameCarried, LedgersStay

LEMMA AdmitLedgers ==
  ASSUME TypeOK, FencingInv, Ledgers, NEW s \in Source, NEW c \in Config,
         NEW p \in Policy, NEW force \in BOOLEAN, Admit(s, c, p, force)
  PROVE  Ledgers'
<1>. DEFINE key == KeyOf(s, c)
<1>1. ASSUME key \in DOMAIN task', key \notin DOMAIN task
      PROVE  task'[key].reserved = 0
  <2>. DEFINE new == NewTask(s, c, p)
              skipped == [new EXCEPT !.status = "succeeded",
                                     !.result = "skipped"]
  <2>1. new.reserved = 0 /\ skipped.reserved = 0
    BY DEF NewTask
  <2>2. InsertTask(key, new) \/ InsertTask(key, skipped)
    BY <1>1 DEF Admit, Skip, Merge, Restart
  <2>. HIDE DEF new, skipped
  <2>. QED
    BY <2>1, <2>2 DEF InsertTask, Put
<1>2. ASSUME NEW k \in DOMAIN task
      PROVE  task'[k].reserved = task[k].reserved
  BY <1>2, AdmittedRows DEF Admitted
<1>3. DOMAIN task' \subseteq DOMAIN task \cup {key}
  BY AdmitWork
<1>4. Carried(task, task')
  BY <1>1, <1>2, <1>3 DEF Carried
<1>. QED
  BY <1>4, WorkLedgers DEF Admit

LEMMA ClaimLedgers ==
  ASSUME TypeOK, FencingInv, Ledgers, NEW ids \in SUBSET TaskKey,
         NEW r \in Run, Claim(ids, r)
  PROVE  Ledgers'
<1>1. PICK k \in ids :
        /\ Candidate(ids, k)
        /\ Lease(k, r) \/ Defer(r, task[k].policy)
  BY DEF Claim
<1>. DEFINE t == task[k]
            p == task[k].policy
            n == task[k].policy.cost
<1>2. k \in DOMAIN task /\ t \in Task /\ t.reserved \in Nat /\ n \in Nat
  <2>1. k \in DOMAIN task /\ t \in Task
    BY <1>1, RowOf DEF Candidate, TypeOK
  <2>. QED
    BY <2>1, PolicyAssumption DEF Task
<1>3. /\ \A x \in DOMAIN runs : runs[x] \in Ledger
      /\ \A d \in DOMAIN days : days[d] \in Ledger
  BY DEF TypeOK, IsTable
<1>4. /\ Carried(runs, OpenRun(r, p)) /\ r \in DOMAIN OpenRun(r, p)
      /\ DOMAIN runs \subseteq DOMAIN OpenRun(r, p)
  BY DEF Carried, OpenRun, Put
<1>5. Carried(days, OpenDay(p))
  BY <1>3 DEF Carried, OpenDay, Put, Ledger
<1>6. IsTable(OpenRun(r, p), Run, Ledger) /\ IsTable(OpenDay(p), Nat, Ledger)
  BY <1>2, LedgerTypes DEF Task
<1>7. CASE Defer(r, p)
  <2>1. /\ runs' = OpenRun(r, p)
        /\ days' = OpenDay(p) \/ days' = days
        /\ task' = task /\ attempt' = attempt
    BY <1>7 DEF Defer
  <2>2. Carried(runs, runs') /\ DOMAIN runs \subseteq DOMAIN runs'
    BY <1>4, <2>1
  <2>3. Carried(days, days')
    BY <1>5, <2>1, SameCarried
  <2>4. Carried(task, task')
    BY <2>1, SameCarried
  <2>5. /\ DOMAIN attempt' = DOMAIN attempt
        /\ \A a \in DOMAIN attempt :
             /\ attempt'[a].reserved = attempt[a].reserved
             /\ attempt'[a].run = attempt[a].run
             /\ attempt'[a].day = attempt[a].day
    BY <2>1
  <2>. QED
    BY <2>2, <2>3, <2>4, <2>5, LedgersStay
<1>8. CASE Lease(k, r)
  <2>. DEFINE a == [task |-> k, epoch |-> t.epoch, no |-> t.attempts + 1]
              row == [status |-> "reserved", hash |-> t.hash, run |-> r,
                      day |-> day, reserved |-> n]
  <2>1. /\ attempt' = Put(attempt, a, row)
        /\ runs' = Reserve(OpenRun(r, p), r, n)
        /\ days' = Reserve(OpenDay(p), day, n)
    BY <1>8 DEF Lease
  <2>2. a.task = k /\ row.reserved = n /\ row.run = r /\ row.day = day
    OBVIOUS
  <2>3. a \notin DOMAIN attempt
    BY <1>2 DEF FencingInv, Belongs, Task
  <2>4. DOMAIN task' = DOMAIN task /\ Charged(task, task', k, n)
    <3>1. \A j \in DOMAIN task : task[j] \in Task
      BY DEF TypeOK, IsTable
    <3>2. /\ DOMAIN task' = DOMAIN task /\ task'[k].reserved = t.reserved + n
          /\ \A j \in DOMAIN task : j # k => task'[j] = task[j]
      BY <1>2, <1>8 DEF Lease, Task
    <3>3. \A j \in DOMAIN task : task[j].reserved + 0 = task[j].reserved
      BY <3>1 DEF Task
    <3>. QED
      BY <3>2, <3>3 DEF Charged
  <2>5. Charged(runs, runs', r, n) /\ DOMAIN runs \subseteq DOMAIN runs'
          /\ r \in DOMAIN runs'
    <3>1. \A x \in DOMAIN OpenRun(r, p) : OpenRun(r, p)[x] \in Ledger
      BY <1>6 DEF IsTable
    <3>2. /\ DOMAIN runs' = DOMAIN OpenRun(r, p)
          /\ runs'[r].reserved = OpenRun(r, p)[r].reserved + n
          /\ \A x \in DOMAIN runs' : x # r => runs'[x] = OpenRun(r, p)[x]
      BY <1>4, <2>1, <3>1 DEF Reserve, Ledger
    <3>3. \A x \in DOMAIN runs' : OpenRun(r, p)[x].reserved + 0
                                    = OpenRun(r, p)[x].reserved
      BY <3>1, <3>2 DEF Ledger
    <3>. QED
      BY <1>4, <3>2, <3>3 DEF Charged, Carried
  <2>6. Charged(days, days', day, n)
    <3>1. \A x \in DOMAIN OpenDay(p) : OpenDay(p)[x] \in Ledger
      BY <1>6 DEF IsTable
    <3>2. /\ DOMAIN days' = DOMAIN OpenDay(p)
          /\ \A x \in DOMAIN days' : x # day => days'[x] = OpenDay(p)[x]
          /\ day \in DOMAIN days' =>
               days'[day].reserved = OpenDay(p)[day].reserved + n
      BY <2>1, <3>1 DEF Reserve, Ledger
    <3>3. \A x \in DOMAIN days' : OpenDay(p)[x].reserved + 0
                                    = OpenDay(p)[x].reserved
      BY <3>1, <3>2 DEF Ledger
    <3>. QED
      BY <1>5, <3>2, <3>3 DEF Charged, Carried
  <2>7. \A d \in DOMAIN days : days[d].reserved \in Nat
    BY <1>3 DEF Ledger
  <2>. HIDE DEF a, row, n, p
  <2>. QED
    BY <1>2, <2>1, <2>2, <2>3, <2>4, <2>5, <2>6, <2>7, LedgersGrow
<1>. QED
  BY <1>1, <1>7, <1>8

LEMMA OutcomeLedgers ==
  ASSUME TypeOK, FencingInv, Ledgers, NEW a \in Issued,
         \/ \E h \in ContentHash : Publish(a, h)
         \/ \E divergent \in BOOLEAN : InvalidOutput(a, divergent)
         \/ \E retry_after \in RetryAfter : Retryable(a, retry_after)
         \/ Permanent(a)
  PROVE  Ledgers'
<1>. DEFINE k == a.task
            retried == [task[k] EXCEPT !.retries = task[k].retries + 1]
            judged == [task[k] EXCEPT !.recompiles = task[k].recompiles + 1]
<1>1. Live(a)
  BY DEF Publish, InvalidOutput, Retryable, Permanent
<1>2. k \in DOMAIN task /\ task[k] \in Task
  BY <1>1, HolderFacts
<1>3. PICK u :
        /\ task' = [task EXCEPT ![k] = u]
        /\ \/ \E status, result : u \in {Finish(task[k], status, result),
                                         Finish(retried, status, result),
                                         Finish(judged, status, result)}
           \/ \E wait : u \in {PutBack(retried, wait), PutBack(judged, wait)}
  <2>1. CASE \E h \in ContentHash : Publish(a, h)
    <3>1. task' = [task EXCEPT ![k] =
                     Finish(task[k], "succeeded", "accepted")]
      BY <2>1 DEF Publish
    <3>. QED
      BY <3>1, Zenon
  <2>2. CASE \E divergent \in BOOLEAN : InvalidOutput(a, divergent)
    <3>1. \/ task' = [task EXCEPT ![k] = Finish(judged, "dead", "quarantined")]
          \/ task' = [task EXCEPT ![k] =
                        PutBack(judged, Backoff(judged.retries))]
      BY <2>2 DEF InvalidOutput
    <3>. QED
      BY <3>1, Zenon
  <2>3. CASE \E retry_after \in RetryAfter : Retryable(a, retry_after)
    <3>1. \/ task' = [task EXCEPT ![k] = Finish(retried, "dead", "failed")]
          \/ \E wait : task' = [task EXCEPT ![k] = PutBack(retried, wait)]
      BY <2>3 DEF Retryable
    <3>. QED
      BY <3>1, Zenon
  <2>4. CASE Permanent(a)
    <3>1. task' = [task EXCEPT ![k] = Finish(task[k], "failed", "failed")]
      BY <2>4 DEF Permanent
    <3>. QED
      BY <3>1, Zenon
  <2>. QED
    BY <2>1, <2>2, <2>3, <2>4
<1>4. u.reserved = task[k].reserved
  <2>1. /\ retried \in Task /\ retried.reserved = task[k].reserved
        /\ judged \in Task /\ judged.reserved = task[k].reserved
    BY <1>2, CountedTypes, CountedReserves
  <2>. HIDE DEF retried, judged
  <2>. QED
    BY <1>2, <1>3, <2>1, NothingRefunded
<1>5. Carried(task, task')
  BY <1>3, <1>4, RowCarried
<1>6. /\ \E status : Outcome(status)
      /\ UNCHANGED <<runs, days>>
  BY DEF Publish, InvalidOutput, Retryable, Permanent, Outcome
<1>. QED
  BY <1>5, <1>6, WorkLedgers

LEMMA RecoverLedgers ==
  ASSUME TypeOK, FencingInv, Ledgers, Recover
  PROVE  Ledgers'
<1>1. ASSUME NEW k \in DOMAIN task
      PROVE  RecoveredTask(k).reserved = task[k].reserved
  <2>1. task[k] \in Task
    BY RowOf DEF TypeOK
  <2>. DEFINE t == [task[k] EXCEPT !.retries = task[k].retries + 1]
  <2>2. t \in Task /\ t.reserved = task[k].reserved
    BY <2>1, CountedTypes, CountedReserves
  <2>3. RecoveredTask(k) \in {Finish(task[k], "succeeded", "superseded"),
                              Finish(t, "dead", "failed"),
                              PutBack(t, Backoff(t.retries))}
    BY DEF RecoveredTask
  <2>. HIDE DEF t
  <2>. QED
    BY <2>1, <2>2, <2>3, NothingRefunded
<1>2. Carried(task, task')
  BY <1>1 DEF Recover, Carried
<1>3. \A a \in DOMAIN attempt : attempt[a] \in Attempt
  BY DEF TypeOK, IsTable
<1>4. /\ DOMAIN attempt' = DOMAIN attempt
      /\ \A a \in DOMAIN attempt :
           /\ attempt'[a].reserved = attempt[a].reserved
           /\ attempt'[a].run = attempt[a].run
           /\ attempt'[a].day = attempt[a].day
  BY <1>3 DEF Recover, Attempt
<1>5. UNCHANGED <<runs, days>>
  BY DEF Recover
<1>. QED
  BY <1>2, <1>4, <1>5, SameCarried, LedgersStay

LEMMA QuarantineLedgers ==
  ASSUME TypeOK, FencingInv, Ledgers, NEW k \in DOMAIN task,
         NEW epoch \in 1..task[k].epoch, QuarantinePreflight(k, epoch)
  PROVE  Ledgers'
<1>. DEFINE a == [task |-> k, epoch |-> epoch, no |-> 0]
            row == [status |-> "completed", hash |-> task[k].hash,
                    run |-> Null, day |-> Null, reserved |-> 0]
<1>1. \A j \in DOMAIN task : task[j] \in Task
  BY DEF TypeOK, IsTable
<1>2. /\ \/ UNCHANGED task
         \/ task' = [task EXCEPT ![k] = Finish(task[k], "dead", "quarantined")]
      /\ UNCHANGED <<runs, days>>
  BY DEF QuarantinePreflight
<1>3. /\ DOMAIN task' = DOMAIN task
      /\ \A j \in DOMAIN task : task'[j].reserved = task[j].reserved
  BY <1>1, <1>2, NothingRefunded
<1>4. CASE UNCHANGED attempt
  BY <1>2, <1>3, <1>4, WorkLedgers DEF Carried
<1>5. CASE a \notin DOMAIN attempt /\ attempt' = Put(attempt, a, row)
  <2>1. a.task = k /\ row.reserved = 0 /\ row.run = Null
    OBVIOUS
  <2>2. Charged(task, task', a.task, 0)
    <3>1. \A j \in DOMAIN task : task[j].reserved + 0 = task[j].reserved
      BY <1>1 DEF Task
    <3>. QED
      BY <1>3, <3>1 DEF Charged
  <2>3. Charged(runs, runs', row.run, 0)
    <3>1. \A r \in DOMAIN runs : runs[r].reserved + 0 = runs[r].reserved
      BY DEF TypeOK, IsTable, Ledger
    <3>. QED
      BY <1>2, <3>1 DEF Charged
  <2>4. \A d \in DOMAIN days : days[d].reserved \in Nat
    BY DEF TypeOK, IsTable, Ledger
  <2>. HIDE DEF a, row
  <2>. QED
    BY <1>2, <1>3, <1>5, <2>1, <2>2, <2>3, <2>4, LedgersGrow
<1>. QED
  BY <1>4, <1>5 DEF QuarantinePreflight

LEMMA NextLedgers ==
  ASSUME TypeOK, FencingInv, Ledgers, [Next]_vars
  PROVE  Ledgers'
<1>1. ASSUME UNCHANGED <<task, attempt, runs, days>>
      PROVE  Ledgers'
  BY <1>1, SameCarried, WorkLedgers
<1>2. ASSUME NEW a \in Issued, Heartbeat(a)
      PROVE  Ledgers'
  <2>1. a.task \in DOMAIN task /\ task[a.task] \in Task
    BY <1>2, HolderFacts DEF Heartbeat
  <2>2. Carried(task, task')
    BY <1>2, <2>1 DEF Heartbeat, Task, Carried
  <2>. QED
    BY <1>2, <2>2, WorkLedgers DEF Heartbeat
<1>3. ASSUME Tick
      PROVE  Ledgers'
  <2>1. \A k \in DOMAIN task : task[k] \in Task
    BY DEF TypeOK, IsTable
  <2>2. Carried(task, task')
    BY <1>3, <2>1 DEF Tick, Task, Carried
  <2>. QED
    BY <1>3, <2>2, WorkLedgers DEF Tick
<1>4. ASSUME NEW s \in Seeded, UpsertFacts(s)
      PROVE  Ledgers'
  BY <1>1, <1>4 DEF UpsertFacts
<1>5. CASE NewDay \/ UNCHANGED vars
  BY <1>1, <1>5 DEF NewDay, vars
<1>. QED
  BY <1>2, <1>3, <1>4, <1>5, AdmitLedgers, ClaimLedgers, OutcomeLedgers,
     RecoverLedgers, QuarantineLedgers DEF Next

LEMMA InitLedgers == Init => Ledgers
<1>. SUFFICES ASSUME Init PROVE Ledgers
  OBVIOUS
<1>1. /\ DOMAIN attempt = {} /\ DOMAIN task = {} /\ DOMAIN runs = {}
      /\ DOMAIN days = {}
  BY DEF Init, EmptyTable
<1>2. UnitsOf(attempt, DOMAIN attempt) = {}
  BY <1>1 DEF UnitsOf
<1>. QED
  BY <1>1, <1>2, FS_EmptySet DEF Ledgers

\* Nothing is refunded or charged twice: after any interleaving of claims,
\* retries, recoveries, skips and new epochs, what a task and a run have
\* reserved is what their attempts reserved, and a day has no more than that.
THEOREM LedgersAlwaysAgree == Spec => []LedgersAgree
<1>1. TypeOK /\ FencingInv /\ Ledgers /\ [Next]_vars => Ledgers'
  BY NextLedgers
<1>. QED
  BY <1>1, InitLedgers, LedgersImply, TypeCorrect, FencingInvariant, PTL
     DEF Spec
=============================================================================
