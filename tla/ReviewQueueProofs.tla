-------------------------- MODULE ReviewQueueProofs --------------------------
(***************************************************************************)
(* Decisions of reviewers, for every value of the constants.  An approval  *)
(* that brings a task back is an action of its own on the compile tables,  *)
(* so that the invariants of CompileStore are shown to survive it first;   *)
(* what a decision may do is then read off from them.                      *)
(***************************************************************************)
EXTENDS ReviewQueue, CompileStoreHistory

\* A task's hash is that of its entity under a configuration of its pack.
HashesFitTheirKeys ==
  \A k \in DOMAIN task :
    /\ task[k].hash.entity = k.entity
    /\ task[k].hash.config \in Config
    /\ task[k].hash.config.pack = k.pack

Subjects == Proposal \cup Sample \cup Notice

Conversions(k) == {x \in DOMAIN queue \ Subjects : x.of = k}

\* ConflictsAreConverted, also for tasks that do not exist.
Converted ==
  \A k \in TaskKey :
    /\ (Conflict(k) \in DOMAIN review /\ review[Conflict(k)] = "approved")
         = (Conversions(k) # {})
    /\ \A x \in Conversions(k) :
         queue[x] = [status |-> "approved", task |-> k]

\* What of the compile tables a decision relies on.
Tables == TypeOK /\ FencingInv /\ Planes /\ HashesFitTheirKeys

-----------------------------------------------------------------------------
(* The compile tables under a revival.                                     *)

\* The row a revival writes, and the head it sets.
LEMMA RevivalFacts ==
  ASSUME Tables, NEW k \in DOMAIN task, HeadStillHas(k), Readmit(k)
  PROVE  /\ task[k] \in Task
         /\ \E u \in Task :
              /\ task' = [task EXCEPT ![k] = u]
              /\ u.id = task[k].id /\ u.epoch = task[k].epoch + 1
              /\ u.status = "pending" /\ WellFormed(u)
              /\ u.snap = task[k].snap /\ u.hash = task[k].hash
              /\ u.reserved = task[k].reserved
         /\ \E row :
              /\ head' = Put(head, k.entity, row)
              /\ row = [rev |-> k.rev, snap |-> task[k].snap,
                        hash |-> task[k].hash, task |-> k,
                        epoch |-> task[k].epoch + 1]
         /\ k.entity \in DOMAIN head /\ head[k.entity].rev = k.rev
         /\ head[k.entity].snap = task[k].snap
         /\ UNCHANGED <<facts, next_id, attempt, page, generation, runs, days,
                        day>>
<1>. DEFINE c == task[k].hash.config
            p == task[k].policy
<1>1. PICK s \in Source :
        /\ s.entity = k.entity /\ s.rev = k.rev /\ Snap(s) = task[k].snap
        /\ Restart(s, c, p)
        /\ UNCHANGED <<facts, attempt, page, generation, runs, days, day>>
  BY DEF Readmit
<1>2. task[k] \in Task /\ k \in TaskKey
  BY RowOf DEF Tables, TypeOK
<1>3. /\ c \in Config /\ p \in Policy /\ task[k].epoch \in Nat \ {0}
      /\ task[k].id \in Nat \ {0} /\ task[k].reserved \in Nat
  BY <1>2 DEF Task, Tables, HashesFitTheirKeys
<1>4. KeyOf(s, c) = k
  BY <1>1, <1>2 DEF KeyOf, TaskKey, Tables, HashesFitTheirKeys
<1>5. Hash(s, c) = task[k].hash
  <2>1. task[k].hash.body = task[k].snap.body
    BY DEF Tables, Planes, OneSnapshotPerRevision
  <2>2. task[k].hash.entity = k.entity
    BY DEF Tables, HashesFitTheirKeys
  <2>3. \E x \in Source, y \in Config : task[k].hash = Hash(x, y)
    BY <1>2 DEF Task, ContentHash
  <2>. QED
    BY <1>1, <2>1, <2>2, <2>3 DEF Hash, Snap
<1>. DEFINE new == NewTask(s, c, p)
            u == [new EXCEPT !.id = task[k].id, !.epoch = task[k].epoch + 1,
                             !.reserved = task[k].reserved]
<1>6. task' = [task EXCEPT ![k] = u] /\ UNCHANGED next_id
  BY <1>1, <1>4 DEF Restart
<1>7. /\ u \in Task /\ u.id = task[k].id /\ u.epoch = task[k].epoch + 1
      /\ u.status = "pending" /\ u.snap = Snap(s) /\ u.hash = Hash(s, c)
      /\ u.reserved = task[k].reserved /\ WellFormed(u)
  <2>1. new \in Task
    BY <1>3, NewTaskType DEF Tables
  <2>2. u \in Task
    <3>1. task[k].epoch + 1 \in Nat \ {0}
      BY <1>3
    <3>. HIDE DEF new
    <3>. QED
      BY <1>3, <2>1, <3>1, TaskEdits
  <2>3. new.status = "pending" /\ WellFormed(new)
    BY <1>3, NewTaskFields
  <2>. QED
    BY <2>2, <2>3 DEF NewTask, WellFormed
<1>8. SetHead(s, c, k, task[k].epoch + 1)
  BY <1>1, <1>4 DEF Restart
<1>9. head' = Put(head, k.entity, [rev |-> k.rev, snap |-> task[k].snap,
                                   hash |-> task[k].hash, task |-> k,
                                   epoch |-> task[k].epoch + 1])
  BY <1>1, <1>5, <1>8 DEF SetHead
<1>. HIDE DEF u, new
<1>. QED
  BY <1>1, <1>2, <1>5, <1>6, <1>7, <1>9 DEF HeadStillHas

LEMMA RevivalKeepsTables ==
  ASSUME Tables, NEW k \in DOMAIN task, HeadStillHas(k), Readmit(k),
         IsTable(review', ReviewKey, {"pending", "approved", "ignored"})
  PROVE  Tables'
<1>1. PICK u \in Task :
        /\ task' = [task EXCEPT ![k] = u]
        /\ u.epoch = task[k].epoch + 1 /\ u.status = "pending"
        /\ WellFormed(u) /\ u.snap = task[k].snap /\ u.hash = task[k].hash
  BY RevivalFacts
<1>2. PICK row :
        /\ head' = Put(head, k.entity, row)
        /\ row = [rev |-> k.rev, snap |-> task[k].snap,
                  hash |-> task[k].hash, task |-> k,
                  epoch |-> task[k].epoch + 1]
  BY RevivalFacts
<1>3. /\ task[k] \in Task /\ k.entity \in DOMAIN head
      /\ head[k.entity].rev = k.rev /\ head[k.entity].snap = task[k].snap
      /\ UNCHANGED <<facts, next_id, attempt, page, generation, runs, days,
                     day>>
  BY RevivalFacts
<1>4. k \in TaskKey
  BY RowOf DEF Tables, TypeOK
<1>5. /\ DOMAIN task' = DOMAIN task /\ task'[k] = u
      /\ \A j \in DOMAIN task : j # k => task'[j] = task[j]
  BY <1>1
<1>6. /\ DOMAIN head' = DOMAIN head /\ head'[k.entity] = row
      /\ \A e \in DOMAIN head : e # k.entity => head'[e] = head[e]
  BY <1>2, <1>3 DEF Put
<1>7. TypeOK'
  <2>1. IsTable(task', TaskKey, Task)
    BY <1>1, UpdateTable DEF Tables, TypeOK
  <2>. DEFINE Row == [rev : Revision, snap : Snapshot, hash : ContentHash,
                      task : TaskKey, epoch : Nat \ {0}]
  <2>2. row \in Row
    BY <1>2, <1>3, <1>4 DEF Task, TaskKey
  <2>3. k.entity \in Entity /\ IsTable(head, Entity, Row)
    BY <1>4 DEF TaskKey, Tables, TypeOK
  <2>. HIDE DEF Row
  <2>4. IsTable(head', Entity, Row)
    BY <1>2, <2>2, <2>3, PutTable
  <2>. QED
    BY <1>3, <2>1, <2>4 DEF Tables, TypeOK, Row
<1>8. FencingInv'
  <2>1. u.status # "running"
    BY <1>1
  <2>. QED
    BY <1>1, <1>3, <2>1, Renew DEF Tables
<1>9. Planes'
  <2>1. row.rev = k.rev /\ row.snap = task[k].snap /\ row.hash = task[k].hash
        /\ row.task = k /\ row.epoch = task[k].epoch + 1
    BY <1>2
  <2>2. PlanesAreOrdered' /\ TasksFollowHeads'
    BY <1>3, <1>5, <1>6, <2>1
       DEF Tables, Planes, PlanesAreOrdered, TasksFollowHeads
  <2>3. OneSnapshotPerRevision'
    BY <1>1, <1>3, <1>5, <1>6, <2>1 DEF Tables, Planes, OneSnapshotPerRevision
  <2>4. HeadsNameTheirTask'
    BY <1>1, <1>5, <1>6, <2>1 DEF Tables, Planes, HeadsNameTheirTask
  <2>. QED
    BY <2>2, <2>3, <2>4 DEF Planes
<1>10. HashesFitTheirKeys'
  BY <1>1, <1>5 DEF Tables, HashesFitTheirKeys
<1>. QED
  BY <1>7, <1>8, <1>9, <1>10 DEF Tables

-----------------------------------------------------------------------------
(* The compile tables under everything else.                               *)

\* HashesFitTheirKeys under a step of CompileStore.
LEMMA NextHashes ==
  ASSUME TypeOK, FencingInv, HashesFitTheirKeys, [Next]_vars
  PROVE  HashesFitTheirKeys'
<1>1. CASE TasksAreWorked
  BY <1>1 DEF TasksAreWorked, Worked, HashesFitTheirKeys
<1>2. ASSUME NEW s \in Source, NEW c \in Config, NEW p \in Policy,
             NEW force \in BOOLEAN, Admit(s, c, p, force)
      PROVE  HashesFitTheirKeys'
  <2>. DEFINE key == KeyOf(s, c)
  <2>1. /\ Hash(s, c).entity = key.entity /\ Hash(s, c).config = c
        /\ key.pack = c.pack
    BY DEF Hash, KeyOf
  <2>2. /\ DOMAIN task' \subseteq DOMAIN task \cup {key}
        /\ \A k \in DOMAIN task : k # key => task'[k] = task[k]
    BY <1>2, AdmitWork
  <2>3. key \in DOMAIN task' =>
          \/ task'[key].hash = Hash(s, c)
          \/ key \in DOMAIN task /\ task'[key].hash = task[key].hash
    BY <1>2, AdmitWork DEF Admitted
  <2>. QED
    BY <2>1, <2>2, <2>3 DEF HashesFitTheirKeys
<1>. QED
  BY <1>1, <1>2, StepWork

\* Every step is a step of CompileStore or none, or decides one of its rows.
LEMMA StepKinds ==
  ASSUME [ReviewNext]_reviews
  PROVE  \/ [Next]_vars
         \/ \E k \in DOMAIN task : ApproveDeadLetter(k) \/ ApproveConflict(k)
         \/ \E r \in DOMAIN review : IgnoreTaskRow(r)
<1>1. ASSUME NEW x \in DOMAIN queue,
             ApproveProposal(x) \/ ApproveNotice(x) \/ IgnoreRow(x)
      PROVE  [Next]_vars
  <2>1. CASE ApproveProposal(x)
    <3>1. x.source \in Source /\ x.config \in Config /\ x.policy \in Policy
      BY <2>1, ReviewAssumption DEF ApproveProposal
    <3>. QED
      BY <2>1, <3>1 DEF ApproveProposal, Next
  <2>2. CASE ApproveNotice(x) \/ IgnoreRow(x)
    BY <2>2 DEF ApproveNotice, IgnoreRow
  <2>. QED
    BY <1>1, <2>1, <2>2
<1>2. ASSUME NEW X, Suggest(X)
      PROVE  [Next]_vars
  BY <1>2 DEF Suggest
<1>3. CASE UNCHANGED reviews
  BY <1>3 DEF reviews
<1>. QED
  BY <1>1, <1>2, <1>3 DEF ReviewNext, Decide

LEMMA NextTables ==
  ASSUME Tables, [ReviewNext]_reviews
  PROVE  Tables'
<1>1. CASE [Next]_vars
  BY <1>1, NextType, NextFencing, NextPlanes, NextHashes DEF Tables
<1>2. ASSUME NEW k \in DOMAIN task, ApproveDeadLetter(k) \/ ApproveConflict(k)
      PROVE  Tables'
  <2>1. PICK r : /\ r \in DOMAIN review
                 /\ review' = [review EXCEPT ![r] = "approved"]
    BY <1>2 DEF ApproveDeadLetter, ApproveConflict, Waits
  <2>2. IsTable(review', ReviewKey, {"pending", "approved", "ignored"})
    BY <2>1, UpdateTable DEF Tables, TypeOK
  <2>3. HeadStillHas(k) /\ Readmit(k)
    BY <1>2 DEF ApproveDeadLetter, ApproveConflict
  <2>. QED
    BY <2>2, <2>3, RevivalKeepsTables
<1>3. ASSUME NEW r \in DOMAIN review, IgnoreTaskRow(r)
      PROVE  Tables'
  <2>1. /\ UNCHANGED <<facts, head, task, next_id, attempt, page, generation,
                       runs, days, day>>
        /\ review' = [review EXCEPT ![r] = "ignored"]
    BY <1>3 DEF IgnoreTaskRow
  <2>2. IsTable(review', ReviewKey, {"pending", "approved", "ignored"})
    BY <2>1, UpdateTable DEF Tables, TypeOK
  <2>3. TypeOK'
    BY <2>1, <2>2 DEF Tables, TypeOK
  <2>4. FencingInv'
    BY <2>1, Touch DEF Tables, Alike
  <2>5. Planes'
    BY <2>1 DEF Tables, Planes, PlanesAreOrdered, OneSnapshotPerRevision,
                HeadsNameTheirTask, TasksFollowHeads
  <2>. QED
    BY <2>1, <2>3, <2>4, <2>5 DEF Tables, HashesFitTheirKeys
<1>. QED
  BY <1>1, <1>2, <1>3, StepKinds

LEMMA InitTables == ReviewInit => Tables
BY InitType, InitFencing, InitPlanes
   DEF ReviewInit, Tables, Init, EmptyTable, HashesFitTheirKeys

LEMMA TablesInvariant == ReviewSpec => []Tables
BY InitTables, NextTables, PTL DEF ReviewSpec

-----------------------------------------------------------------------------
(* Decisions.                                                              *)

\* The store itself never decides a row: it only inserts pending ones.
LEMMA StoreDecidesNothing ==
  ASSUME TypeOK, FencingInv, [Next]_vars
  PROVE  /\ \A r \in DOMAIN review :
              r \in DOMAIN review' /\ review'[r] = review[r]
         /\ \A r \in DOMAIN review' \ DOMAIN review : review'[r] = "pending"
<1>1. ASSUME NEW s \in Source, NEW c \in Config, NEW p \in Policy,
             NEW force \in BOOLEAN, Admit(s, c, p, force)
      PROVE  UNCHANGED review
  BY <1>1 DEF Admit
<1>2. ASSUME NEW s \in Seeded, UpsertFacts(s)
      PROVE  UNCHANGED review
  BY <1>2 DEF UpsertFacts
<1>3. ASSUME NEW ids \in SUBSET TaskKey, NEW r \in Run, Claim(ids, r)
      PROVE  UNCHANGED review
  BY <1>3, ClaimWork
<1>4. ASSUME NEW a \in Issued, NEW divergent \in BOOLEAN,
             InvalidOutput(a, divergent)
      PROVE  UNCHANGED review \/ \E keys : Enqueue(keys)
  BY <1>4, Zenon DEF InvalidOutput
<1>5. ASSUME NEW a \in Issued, NEW retry_after \in RetryAfter,
             Retryable(a, retry_after)
      PROVE  UNCHANGED review \/ \E keys : Enqueue(keys)
  BY <1>5, Zenon DEF Retryable
<1>6. ASSUME NEW a \in Issued,
             \/ Heartbeat(a) \/ Permanent(a)
             \/ \E h \in ContentHash : Publish(a, h)
      PROVE  UNCHANGED review
  BY <1>6 DEF Heartbeat, Permanent, Publish
<1>7. ASSUME Recover
      PROVE  UNCHANGED review \/ \E keys : Enqueue(keys)
  BY <1>7, Zenon DEF Recover
<1>8. ASSUME NEW k \in DOMAIN task, NEW epoch \in 1..task[k].epoch,
             QuarantinePreflight(k, epoch)
      PROVE  UNCHANGED review
  BY <1>8 DEF QuarantinePreflight
<1>9. ASSUME Tick \/ NewDay \/ UNCHANGED vars
      PROVE  UNCHANGED review
  BY <1>9 DEF Tick, NewDay, vars
<1>10. UNCHANGED review \/ \E keys : Enqueue(keys)
  BY <1>1, <1>2, <1>3, <1>4, <1>5, <1>6, <1>7, <1>8, <1>9 DEF Next
<1>. QED
  BY <1>10 DEF Enqueue

\* What a step may do to one row of the analyzer's part of the queue.
LEMMA QueueSteps ==
  ASSUME [ReviewNext]_reviews
  PROVE  /\ \A x \in DOMAIN queue : queue[x].status # "pending" =>
              x \in DOMAIN queue' /\ queue'[x] = queue[x]
         /\ DOMAIN queue \subseteq DOMAIN queue'
<1>1. ASSUME NEW x \in DOMAIN queue,
             ApproveProposal(x) \/ ApproveNotice(x) \/ IgnoreRow(x)
      PROVE  Pending(x) /\ \E row : queue' = [queue EXCEPT ![x] = row]
  <2>1. CASE IgnoreRow(x)
    BY <2>1 DEF IgnoreRow
  <2>2. CASE ApproveProposal(x) \/ ApproveNotice(x)
    BY <2>2 DEF ApproveProposal, ApproveNotice, Approved
  <2>. QED
    BY <1>1, <2>1, <2>2
<1>2. ASSUME NEW k \in DOMAIN task, ApproveConflict(k)
      PROVE  /\ Conversion(k) \in DOMAIN queue => Pending(Conversion(k))
             /\ \E row : queue' = Put(queue, Conversion(k), row)
  BY <1>2 DEF ApproveConflict
<1>3. ASSUME NEW X, Suggest(X)
      PROVE  /\ DOMAIN queue' = DOMAIN queue \cup X
             /\ \A x \in DOMAIN queue : queue'[x] = queue[x]
  BY <1>3 DEF Suggest
<1>4. ASSUME \/ Next /\ UNCHANGED queue
             \/ UNCHANGED reviews
             \/ \E k \in DOMAIN task : ApproveDeadLetter(k)
             \/ \E r \in DOMAIN review : IgnoreTaskRow(r)
      PROVE  UNCHANGED queue
  BY <1>4 DEF ApproveDeadLetter, IgnoreTaskRow, reviews
<1>. QED
  BY <1>1, <1>2, <1>3, <1>4 DEF ReviewNext, Decide, Pending, Put

\* A decision is made once: neither a second reviewer, nor the analyzer that
\* proposes the same again, nor a task that dies again reopens it.
THEOREM DecisionsStayFinal == ReviewSpec => DecisionsAreFinal
<1>1. ASSUME Tables, [ReviewNext]_reviews, NEW r \in DOMAIN review
      PROVE  /\ r \in DOMAIN review'
             /\ review[r] # "pending" => review'[r] = review[r]
  <2>1. CASE [Next]_vars
    BY <1>1, <2>1, StoreDecidesNothing DEF Tables
  <2>2. ASSUME NEW k \in DOMAIN task, ApproveDeadLetter(k) \/ ApproveConflict(k)
        PROVE  /\ r \in DOMAIN review'
               /\ review[r] # "pending" => review'[r] = review[r]
    BY <2>2 DEF ApproveDeadLetter, ApproveConflict, Waits
  <2>3. ASSUME NEW q \in DOMAIN review, IgnoreTaskRow(q)
        PROVE  /\ r \in DOMAIN review'
               /\ review[r] # "pending" => review'[r] = review[r]
    BY <2>3 DEF IgnoreTaskRow, Waits
  <2>. QED
    BY <1>1, <2>1, <2>2, <2>3, StepKinds
<1>2. Tables /\ [ReviewNext]_reviews =>
        [/\ \A x \in DOMAIN queue : queue[x].status # "pending" =>
              x \in DOMAIN queue' /\ queue'[x] = queue[x]
         /\ \A r \in DOMAIN review :
              r \in DOMAIN review' /\
                (review[r] # "pending" => review'[r] = review[r])]_reviews
  BY <1>1, QueueSteps
<1>. QED
  BY <1>2, TablesInvariant, PTL DEF ReviewSpec, DecisionsAreFinal

\* Converted is kept by what decides no conflict and touches no conversion.
LEMMA ConversionsStay ==
  ASSUME Converted,
         DOMAIN queue' \ Subjects = DOMAIN queue \ Subjects,
         \A x \in DOMAIN queue \ Subjects :
           queue[x].status = "approved" => queue'[x] = queue[x],
         \A k \in TaskKey :
           (Conflict(k) \in DOMAIN review' /\ review'[Conflict(k)] = "approved")
             = (Conflict(k) \in DOMAIN review
                 /\ review[Conflict(k)] = "approved")
  PROVE  Converted'
<1>1. \A k \in TaskKey : Conversions(k)' = Conversions(k)
  BY DEF Conversions, Subjects
<1>2. \A k \in TaskKey : \A x \in Conversions(k) : queue'[x] = queue[x]
  BY DEF Converted, Conversions
<1>. QED
  BY <1>1, <1>2 DEF Converted, Conflict

LEMMA NextConverted ==
  ASSUME Tables, Converted, [ReviewNext]_reviews
  PROVE  Converted'
<1>. DEFINE Decided(k) == /\ Conflict(k) \in DOMAIN review
                          /\ review[Conflict(k)] = "approved"
<1>1. ASSUME UNCHANGED queue, [Next]_vars
      PROVE  Converted'
  <2>1. \A k \in TaskKey : Decided(k)' = Decided(k)
    BY <1>1, StoreDecidesNothing DEF Tables, Conflict
  <2>. QED
    BY <1>1, <2>1, ConversionsStay DEF Conflict
<1>2. ASSUME NEW X \in SUBSET Subjects, Suggest(X)
      PROVE  Converted'
  <2>1. /\ DOMAIN queue' \ Subjects = DOMAIN queue \ Subjects
        /\ \A x \in DOMAIN queue : queue'[x] = queue[x]
        /\ UNCHANGED review
    BY <1>2 DEF Suggest, vars
  <2>. QED
    BY <2>1, ConversionsStay DEF Conflict
<1>3. ASSUME NEW x \in DOMAIN queue,
             ApproveProposal(x) \/ ApproveNotice(x) \/ IgnoreRow(x)
      PROVE  Converted'
  <2>1. /\ Pending(x) /\ UNCHANGED review
        /\ \E row : queue' = [queue EXCEPT ![x] = row]
    <3>1. CASE IgnoreRow(x)
      BY <3>1 DEF IgnoreRow, vars
    <3>2. CASE ApproveProposal(x)
      BY <3>2 DEF ApproveProposal, Approved, Admit
    <3>3. CASE ApproveNotice(x)
      BY <3>3 DEF ApproveNotice, Approved, vars
    <3>. QED
      BY <1>3, <3>1, <3>2, <3>3
  <2>. QED
    BY <2>1, ConversionsStay DEF Conflict, Pending
<1>4. ASSUME NEW k \in DOMAIN task, ApproveConflict(k)
      PROVE  Converted'
  <2>1. /\ Waits(Conflict(k))
        /\ review' = [review EXCEPT ![Conflict(k)] = "approved"]
        /\ queue' = Put(queue, Conversion(k),
                        [status |-> "approved", task |-> k])
    BY <1>4 DEF ApproveConflict
  <2>2. /\ k \in TaskKey /\ Conversion(k) \notin Subjects
        /\ Conversion(k).of = k
    <3>1. k \in TaskKey /\ task[k] \in Task
      BY RowOf DEF Tables, TypeOK
    <3>2. task[k].snap \in Snapshot /\ task[k].policy \in Policy
      BY <3>1 DEF Task
    <3>. QED
      BY <3>1, <3>2, ReviewAssumption DEF Conversion, Subjects
  <2>3. Conversions(k) = {}
    BY <2>1, <2>2 DEF Converted, Waits
  <2>4. /\ DOMAIN queue' = DOMAIN queue \cup {Conversion(k)}
        /\ queue'[Conversion(k)] = [status |-> "approved", task |-> k]
        /\ \A x \in DOMAIN queue :
             x # Conversion(k) => queue'[x] = queue[x]
    BY <2>1 DEF Put
  <2>5. Conversions(k)' = {Conversion(k)} /\ Decided(k)'
    BY <2>1, <2>2, <2>3, <2>4 DEF Conversions, Subjects, Waits, Conflict
  <2>6. ASSUME NEW j \in TaskKey, j # k
        PROVE  /\ Conversions(j)' = Conversions(j)
               /\ Decided(j)' = Decided(j)
               /\ \A x \in Conversions(j) : queue'[x] = queue[x]
    <3>1. Conflict(j) # Conflict(k)
      BY <2>6 DEF Conflict
    <3>2. Decided(j)' = Decided(j)
      BY <2>1, <3>1 DEF Conflict
    <3>3. Conversions(j)' = Conversions(j)
      BY <2>2, <2>4, <2>6 DEF Conversions, Subjects
    <3>4. \A x \in Conversions(j) : x \in DOMAIN queue /\ x # Conversion(k)
      BY <2>2, <2>6 DEF Conversions
    <3>. QED
      BY <2>4, <3>2, <3>3, <3>4
  <2>. QED
    BY <2>4, <2>5, <2>6 DEF Converted
<1>5. ASSUME NEW k \in DOMAIN task, ApproveDeadLetter(k)
      PROVE  Converted'
  <2>1. \A j \in TaskKey : Conflict(j) # DeadLetter(k)
    BY DEF Conflict, DeadLetter
  <2>2. /\ review' = [review EXCEPT ![DeadLetter(k)] = "approved"]
        /\ UNCHANGED queue
    BY <1>5 DEF ApproveDeadLetter
  <2>. QED
    BY <2>1, <2>2, ConversionsStay DEF Conflict
<1>6. ASSUME NEW r \in DOMAIN review, IgnoreTaskRow(r)
      PROVE  Converted'
  <2>1. /\ review' = [review EXCEPT ![r] = "ignored"]
        /\ review[r] = "pending" /\ UNCHANGED queue
    BY <1>6 DEF IgnoreTaskRow, Waits
  <2>. QED
    BY <2>1, ConversionsStay DEF Conflict
<1>. QED
  BY <1>1, <1>2, <1>3, <1>4, <1>5, <1>6
     DEF ReviewNext, Decide, reviews, Subjects

LEMMA InitConverted == ReviewInit => Converted
BY DEF ReviewInit, Init, EmptyTable, Converted, Conversions

\* A conflict is approved only together with its conversion, and a conversion
\* never waits for a decision of its own.
THEOREM ConflictsAreAlwaysConverted == ReviewSpec => []ConflictsAreConverted
<1>1. Tables /\ Converted => ConflictsAreConverted
  <2>. SUFFICES ASSUME Tables, Converted
                PROVE  ConflictsAreConverted
    OBVIOUS
  <2>1. DOMAIN task \subseteq TaskKey
    BY RowOf DEF Tables, TypeOK
  <2>. QED
    BY <2>1 DEF Converted, ConflictsAreConverted, Conversions, Subjects
<1>. QED
  BY <1>1, InitConverted, NextConverted, TablesInvariant, PTL DEF ReviewSpec

\* Who approves a row of the queue, or a row about a task.
LEMMA OnlyApprovalsApprove ==
  ASSUME Tables, [ReviewNext]_reviews, NEW k \in TaskKey, NewlyApproved(k)
  PROVE  \/ \E x \in DOMAIN queue :
              ApproveProposal(x) /\ k = KeyOf(x.source, x.config)
         \/ k \in DOMAIN task /\ (ApproveDeadLetter(k) \/ ApproveConflict(k))
<1>1. ~([Next]_vars /\ UNCHANGED queue)
  BY StoreDecidesNothing DEF Tables, NewlyApproved
<1>2. ASSUME NEW X \in SUBSET Subjects, Suggest(X)
      PROVE  FALSE
  <2>1. UNCHANGED review
    BY <1>2 DEF Suggest, vars
  <2>2. \A x \in DOMAIN queue' :
          IF x \in DOMAIN queue THEN queue'[x] = queue[x]
                                ELSE queue'[x].status = "pending"
    BY <1>2 DEF Suggest
  <2>. QED
    BY <2>1, <2>2 DEF NewlyApproved
<1>3. ASSUME NEW x \in DOMAIN queue, ApproveNotice(x) \/ IgnoreRow(x)
      PROVE  FALSE
  <2>1. UNCHANGED review
    BY <1>3 DEF ApproveNotice, IgnoreRow, vars
  <2>2. CASE ApproveNotice(x)
    BY <2>1, <2>2 DEF ApproveNotice, Approved, NewlyApproved
  <2>3. CASE IgnoreRow(x)
    <3>1. queue' = [queue EXCEPT ![x].status = "ignored"]
      BY <2>3 DEF IgnoreRow
    <3>2. \A y \in DOMAIN queue : queue'[y].status = "approved" =>
            queue[y].status = "approved"
      BY <3>1
    <3>. QED
      BY <2>1, <3>1, <3>2 DEF NewlyApproved
  <2>. QED
    BY <1>3, <2>2, <2>3
<1>4. ASSUME NEW x \in DOMAIN queue, ApproveProposal(x)
      PROVE  k = KeyOf(x.source, x.config)
  BY <1>4 DEF ApproveProposal, Admit, Approved, NewlyApproved
<1>5. ASSUME NEW j \in DOMAIN task, ApproveDeadLetter(j)
      PROVE  k = j
  BY <1>5 DEF ApproveDeadLetter, DeadLetter, NewlyApproved
<1>6. ASSUME NEW j \in DOMAIN task, ApproveConflict(j)
      PROVE  k = j
  BY <1>6 DEF ApproveConflict, Conflict, Put, NewlyApproved
<1>7. ASSUME NEW r \in DOMAIN review, IgnoreTaskRow(r)
      PROVE  FALSE
  BY <1>7 DEF IgnoreTaskRow, NewlyApproved
<1>. QED
  BY <1>1, <1>2, <1>3, <1>4, <1>5, <1>6, <1>7
     DEF ReviewNext, Decide, reviews, Subjects

\* An approval is never recorded for work that nobody will do: its task is
\* open, the head names it in that epoch and wants what it will produce.
THEOREM ApprovalsAreAlwaysWork == ReviewSpec => ApprovalsAreWork
<1>1. ASSUME Tables, [ReviewNext]_reviews, NEW k \in TaskKey,
             NewlyApproved(k)
      PROVE  /\ k \in DOMAIN task' /\ task'[k].status \in {"pending", "running"}
             /\ head'[k.entity].task = k
             /\ head'[k.entity].epoch = task'[k].epoch
             /\ head'[k.entity].hash = task'[k].hash
  <2>1. ASSUME NEW x \in DOMAIN queue, ApproveProposal(x),
               k = KeyOf(x.source, x.config)
        PROVE  /\ k \in DOMAIN task'
               /\ task'[k].status \in {"pending", "running"}
               /\ \E snap, epoch :
                    /\ head' = Put(head, k.entity,
                         [rev |-> k.rev, snap |-> snap,
                          hash |-> task'[k].hash, task |-> k,
                          epoch |-> epoch])
                    /\ epoch = task'[k].epoch
    <3>. DEFINE s == x.source
                c == x.config
                p == x.policy
                new == NewTask(s, c, p)
    <3>1. /\ Admit(s, c, p, FALSE) /\ Queues(s, c)
          /\ s \in Source /\ c \in Config /\ p \in Policy
      BY <2>1, ReviewAssumption DEF ApproveProposal
    <3>2. /\ new.status = "pending" /\ new.epoch = 1
          /\ new.hash = Hash(s, c)
      BY DEF NewTask
    <3>3. k.entity = s.entity /\ k.rev = s.rev
      BY <2>1 DEF KeyOf
    <3>. HIDE DEF new
    <3>4. CASE Merge(s, c, p) /\ k \in DOMAIN task
                 /\ task[k].hash = Hash(s, c) /\ ~UpToDate(s, c, FALSE)
      <4>1. /\ task' = [task EXCEPT ![k].snap = Snap(s), ![k].policy = p]
            /\ SetHead(s, c, k, task[k].epoch)
            /\ task[k].status \in {"pending", "running"}
        BY <2>1, <3>1, <3>4 DEF Merge, Queues
      <4>2. /\ task'[k].status = task[k].status
            /\ task'[k].epoch = task[k].epoch
            /\ task'[k].hash = Hash(s, c) /\ k \in DOMAIN task'
        <5>1. task[k] \in Task
          BY <1>1, <3>4, RowOf DEF Tables, TypeOK
        <5>. QED
          BY <3>4, <4>1, <5>1 DEF Task
      <4>. QED
        BY <3>3, <4>1, <4>2 DEF SetHead
    <3>5. CASE Restart(s, c, p) /\ k \in DOMAIN task
      <4>1. /\ task' = [task EXCEPT ![k] =
                 [new EXCEPT !.id = task[k].id, !.epoch = task[k].epoch + 1,
                             !.reserved = task[k].reserved]]
            /\ SetHead(s, c, k, task[k].epoch + 1)
        BY <2>1, <3>5 DEF Restart, new
      <4>2. /\ task'[k].status = "pending"
            /\ task'[k].epoch = task[k].epoch + 1
            /\ task'[k].hash = Hash(s, c) /\ k \in DOMAIN task'
        BY <3>2, <3>5, <4>1 DEF new, NewTask
      <4>. QED
        BY <3>3, <4>1, <4>2 DEF SetHead
    <3>6. CASE InsertTask(k, new) /\ SetHead(s, c, k, 1)
      <4>1. /\ task'[k].status = "pending" /\ task'[k].epoch = 1
            /\ task'[k].hash = Hash(s, c) /\ k \in DOMAIN task'
        BY <3>2, <3>6 DEF InsertTask, Put, new, NewTask
      <4>. QED
        BY <3>3, <3>6, <4>1 DEF SetHead
    <3>. QED
      BY <2>1, <3>1, <3>4, <3>5, <3>6 DEF Admit, Queues, new
  <2>2. ASSUME k \in DOMAIN task, ApproveDeadLetter(k) \/ ApproveConflict(k)
        PROVE  /\ k \in DOMAIN task'
               /\ task'[k].status \in {"pending", "running"}
               /\ \E snap, epoch :
                    /\ head' = Put(head, k.entity,
                         [rev |-> k.rev, snap |-> snap,
                          hash |-> task'[k].hash, task |-> k,
                          epoch |-> epoch])
                    /\ epoch = task'[k].epoch
    <3>1. HeadStillHas(k) /\ Readmit(k)
      BY <2>2 DEF ApproveDeadLetter, ApproveConflict
    <3>2. PICK u \in Task :
            /\ task' = [task EXCEPT ![k] = u]
            /\ u.epoch = task[k].epoch + 1 /\ u.status = "pending"
            /\ u.hash = task[k].hash
      BY <1>1, <2>2, <3>1, RevivalFacts
    <3>3. head' = Put(head, k.entity,
                      [rev |-> k.rev, snap |-> task[k].snap,
                       hash |-> task[k].hash, task |-> k,
                       epoch |-> task[k].epoch + 1])
      BY <1>1, <2>2, <3>1, RevivalFacts
    <3>. QED
      BY <2>2, <3>2, <3>3
  <2>. QED
    BY <1>1, <2>1, <2>2, OnlyApprovalsApprove DEF Put
<1>2. Tables /\ [ReviewNext]_reviews =>
        [\A k \in TaskKey : NewlyApproved(k) =>
           /\ k \in DOMAIN task' /\ task'[k].status \in {"pending", "running"}
           /\ head'[k.entity].task = k
           /\ head'[k.entity].epoch = task'[k].epoch
           /\ head'[k.entity].hash = task'[k].hash]_reviews
  BY <1>1
<1>. QED
  BY <1>2, TablesInvariant, PTL DEF ReviewSpec, ApprovalsAreWork

\* A task that is brought back keeps what it spent and what it was about, and
\* no approval of an old task takes the facts or the head's revision back.
\* Whoever still holds it is fenced out: its epoch is over.
THEOREM RevivalsAreAlwaysFenced == ReviewSpec => RevivalsAreFenced
<1>. DEFINE Fenced(k) ==
              /\ facts' = facts /\ head'[k.entity].rev = head[k.entity].rev
              /\ task'[k].id = task[k].id
              /\ task'[k].snap = task[k].snap /\ task'[k].hash = task[k].hash
              /\ task'[k].reserved = task[k].reserved
              /\ \A a \in DOMAIN attempt :
                   a.task = k => a.epoch < task'[k].epoch
<1>1. ASSUME Tables, [ReviewNext]_reviews, NEW r \in DOMAIN review',
             review'[r] = "approved", r \in DOMAIN review,
             review[r] = "pending"
      PROVE  Fenced(r.task)
  <2>. DEFINE k == r.task
  <2>1. r \in ReviewKey /\ k \in TaskKey
    BY <1>1 DEF Tables, TypeOK, IsTable, ReviewKey
  <2>2. NewlyApproved(k)
    BY <1>1 DEF NewlyApproved
  <2>3. ~\E x \in DOMAIN queue : ApproveProposal(x)
    BY <1>1 DEF ApproveProposal, Admit
  <2>. HIDE DEF k
  <2>4. k \in DOMAIN task /\ HeadStillHas(k) /\ Readmit(k)
    BY <1>1, <2>1, <2>2, <2>3, OnlyApprovalsApprove
       DEF ApproveDeadLetter, ApproveConflict
  <2>5. PICK u \in Task :
          /\ task' = [task EXCEPT ![k] = u]
          /\ u.id = task[k].id /\ u.epoch = task[k].epoch + 1
          /\ u.snap = task[k].snap /\ u.hash = task[k].hash
          /\ u.reserved = task[k].reserved
    BY <1>1, <2>4, RevivalFacts
  <2>6. /\ facts' = facts /\ head'[k.entity].rev = head[k.entity].rev
        /\ task[k] \in Task
    <3>1. /\ task[k] \in Task /\ facts' = facts
          /\ head[k.entity].rev = k.rev
      BY <1>1, <2>4, RevivalFacts
    <3>2. PICK row : head' = Put(head, k.entity, row) /\ row.rev = k.rev
      <4>1. PICK row :
              /\ head' = Put(head, k.entity, row)
              /\ row = [rev |-> k.rev, snap |-> task[k].snap,
                        hash |-> task[k].hash, task |-> k,
                        epoch |-> task[k].epoch + 1]
        BY <1>1, <2>4, RevivalFacts
      <4>. QED
        BY <4>1
    <3>. QED
      BY <3>1, <3>2 DEF Put
  <2>7. ASSUME NEW a \in DOMAIN attempt, a.task = k
        PROVE  a.epoch < task'[k].epoch
    <3>1. a \in AttemptId /\ a.epoch <= task[k].epoch
      BY <1>1, <2>7 DEF Tables, FencingInv, Belongs, TypeOK, IsTable
    <3>. QED
      BY <2>4, <2>5, <2>6, <3>1 DEF AttemptId, Task
  <2>. QED
    BY <2>4, <2>5, <2>6, <2>7 DEF k
<1>2. Tables /\ [ReviewNext]_reviews =>
        [\A r \in DOMAIN review' :
           review'[r] = "approved" /\ (r \in DOMAIN review
                                       /\ review[r] = "pending")
           => Fenced(r.task)]_reviews
  BY <1>1
<1>. QED
  BY <1>2, TablesInvariant, PTL DEF ReviewSpec, RevivalsAreFenced
=============================================================================
