----------------------------- MODULE ReviewQueue -----------------------------
(***************************************************************************)
(* The review queue (kernel/feedback_store.rs): what the analyzer proposes *)
(* and what a reviewer decides, over the compile tables.  CompileStore has *)
(* the rows about tasks, since the store itself inserts them: dead letters *)
(* and consistency conflicts.  The other rows are here: proposals to       *)
(* compile a source (supplemental_compile), conversions of a conflict into *)
(* such a proposal, and notices, which no decision acts upon               *)
(* (query_template, compatibility_conflict).                               *)
(*                                                                         *)
(* Approval admits its task inside its own transaction, so that a decision *)
(* and its effect are one action; a refused approval changes nothing.      *)
(***************************************************************************)
EXTENDS CompileStore

CONSTANTS
  Proposal,  \* complete supplemental subjects: [source, config, policy]
  Sample,    \* supplemental subjects that only describe queries or a page
  Notice     \* subjects of query_template and compatibility_conflict rows

ASSUME ReviewAssumption ==
  /\ \A x \in Proposal :
       x.source \in Source /\ x.config \in Config /\ x.policy \in Policy
  /\ Proposal \cap Sample = {} /\ Proposal \cap Notice = {}
  /\ Sample \cap Notice = {}
  /\ \A k \in TaskKey, snap \in Snapshot, policy \in Policy :
       [of |-> k, snap |-> snap, policy |-> policy]
         \notin Proposal \cup Sample \cup Notice

VARIABLE
  queue  \* the other rows: subject -> [status, compile_task_id]

reviews == <<vars, queue>>

-----------------------------------------------------------------------------
(* Proposals.                                                              *)

\* supplemental_subject_from_task: the subject a conflict is converted to.
Conversion(k) == [of |-> k, snap |-> task[k].snap, policy |-> task[k].policy]

Pending(x) == x \in DOMAIN queue /\ queue[x].status = "pending"

\* insert_review_suggestions: one transaction, ON CONFLICT DO NOTHING.
Suggest(X) ==
  /\ queue' = [x \in DOMAIN queue \cup X |->
                 IF x \in DOMAIN queue THEN queue[x]
                 ELSE [status |-> "pending", task |-> Null]]
  /\ UNCHANGED vars

Approved(x, k) == queue' = [queue EXCEPT ![x] = [status |-> "approved",
                                                 task |-> k]]

-----------------------------------------------------------------------------
(* approve_review.                                                         *)

\* When admit_compile_on_conn answers Queued: not for a page that is up to
\* date, nor for a terminal row with the same hash.
FaultyQueues(s, c) == TRUE
Queues(s, c) ==
  LET key == KeyOf(s, c)
  IN  /\ ~UpToDate(s, c, FALSE)
      /\ key \in DOMAIN task /\ task[key].hash = Hash(s, c) =>
           task[key].status \in {"pending", "running"}

\* ... supplemental_compile: a subject that names no source is refused.
ApproveProposal(x) ==
  /\ x \in Proposal /\ Pending(x)
  /\ Queues(x.source, x.config)
  /\ Admit(x.source, x.config, x.policy, FALSE)
  /\ Approved(x, KeyOf(x.source, x.config))

\* ... query_template, compatibility_conflict: audit only.
ApproveNotice(x) ==
  /\ x \in Notice /\ Pending(x)
  /\ Approved(x, Null)
  /\ UNCHANGED vars

\* guard_head_matches_task: revision and snapshot, not the desired hash.
HeadStillHas(k) ==
  /\ k.entity \in DOMAIN head
  /\ head[k.entity].rev = k.rev
  /\ head[k.entity].snap = task[k].snap

\* rebuild_prepared_from_task and the forced admission: the source, context
\* and policy are those archived in the row; admission finds the row by its
\* triple and starts its next epoch.
FaultyReadmit(k) ==
  /\ task' = [task EXCEPT ![k] = [PutBack(@, 0) EXCEPT !.result = "none",
                                                      !.retries = 0]]
  /\ UNCHANGED <<facts, head, next_id, attempt, page, generation, runs, days,
                 day>>
Readmit(k) ==
  \E s \in Source :
    /\ s.entity = k.entity /\ s.rev = k.rev /\ Snap(s) = task[k].snap
    /\ Admissible(s)
    /\ Restart(s, task[k].hash.config, task[k].policy)
    /\ UNCHANGED <<facts, attempt, page, generation, runs, days, day>>

Waits(r) == r \in DOMAIN review /\ review[r] = "pending"

\* ... compile_dead_letter.
ApproveDeadLetter(k) ==
  /\ Waits(DeadLetter(k))
  /\ task[k].status = "dead"
  /\ HeadStillHas(k)
  /\ Readmit(k)
  /\ review' = [review EXCEPT ![DeadLetter(k)] = "approved"]
  /\ UNCHANGED queue

\* ... consistency_conflict, whatever became of the task: it is admitted
\* again, and the conversion is inserted, or found pending, and approved.
FaultyApproveConflict(k) ==
  /\ Waits(Conflict(k)) /\ HeadStillHas(k)
  /\ Readmit(k)
  /\ queue' = Put(queue, Conversion(k), [status |-> "pending", task |-> k])
  /\ review' = [review EXCEPT ![Conflict(k)] = "approved"]
ApproveConflict(k) ==
  /\ Waits(Conflict(k))
  /\ HeadStillHas(k)
  /\ Readmit(k)
  /\ Conversion(k) \in DOMAIN queue => Pending(Conversion(k))
  /\ queue' = Put(queue, Conversion(k), [status |-> "approved", task |-> k])
  /\ review' = [review EXCEPT ![Conflict(k)] = "approved"]

-----------------------------------------------------------------------------
(* ignore_review: any pending row, and nothing else.                       *)

FaultyIgnoreRow(x) ==
  /\ x \in DOMAIN queue
  /\ queue' = [queue EXCEPT ![x].status = "ignored"]
  /\ UNCHANGED vars
IgnoreRow(x) ==
  /\ Pending(x)
  /\ queue' = [queue EXCEPT ![x].status = "ignored"]
  /\ UNCHANGED vars

IgnoreTaskRow(r) ==
  /\ Waits(r)
  /\ review' = [review EXCEPT ![r] = "ignored"]
  /\ UNCHANGED <<facts, head, task, next_id, attempt, page, generation, runs,
                 days, day, queue>>

-----------------------------------------------------------------------------
ReviewInit == Init /\ queue = EmptyTable

Decide ==
  \/ \E x \in DOMAIN queue :
       ApproveProposal(x) \/ ApproveNotice(x) \/ IgnoreRow(x)
  \/ \E k \in DOMAIN task : ApproveDeadLetter(k) \/ ApproveConflict(k)
  \/ \E r \in DOMAIN review : IgnoreTaskRow(r)

ReviewNext ==
  \/ Next /\ UNCHANGED queue
  \/ \E X \in SUBSET (Proposal \cup Sample \cup Notice) : Suggest(X)
  \/ Decide

ReviewSpec == ReviewInit /\ [][ReviewNext]_reviews

-----------------------------------------------------------------------------
(* What a decision may do, and what undoes it.                             *)

\* A decision is made once: neither a second reviewer, nor the analyzer that
\* proposes the same again, nor a task that dies again reopens it.
DecisionsAreFinal ==
  [][/\ \A x \in DOMAIN queue : queue[x].status # "pending" =>
          x \in DOMAIN queue' /\ queue'[x] = queue[x]
     /\ \A r \in DOMAIN review :
          r \in DOMAIN review' /\
            (review[r] # "pending" => review'[r] = review[r])]_reviews

NewlyApproved(k) ==
  \/ \E x \in DOMAIN queue' \ Notice :
       /\ queue'[x].status = "approved" /\ queue'[x].task = k
       /\ x \in DOMAIN queue => queue[x].status # "approved"
  \/ \E r \in DOMAIN review' :
       /\ r.task = k /\ review'[r] = "approved"
       /\ r \in DOMAIN review => review[r] # "approved"

\* An approval is never recorded for work that nobody will do: its task is
\* open, the head names it in that epoch and wants what it will produce.
ApprovalsAreWork ==
  [][\A k \in TaskKey : NewlyApproved(k) =>
       /\ k \in DOMAIN task' /\ task'[k].status \in {"pending", "running"}
       /\ head'[k.entity].task = k
       /\ head'[k.entity].epoch = task'[k].epoch
       /\ head'[k.entity].hash = task'[k].hash]_reviews

\* A task that is brought back keeps what it spent and what it was about, and
\* no approval of an old task takes the facts or the head's revision back.
\* Whoever still holds it is fenced out: its epoch is over.
RevivalsAreFenced ==
  [][\A r \in DOMAIN review' :
       review'[r] = "approved" /\ (r \in DOMAIN review /\ review[r] = "pending")
       => LET k == r.task
          IN  /\ facts' = facts /\ head'[k.entity].rev = head[k.entity].rev
              /\ task'[k].id = task[k].id
              /\ task'[k].snap = task[k].snap /\ task'[k].hash = task[k].hash
              /\ task'[k].reserved = task[k].reserved
              /\ \A a \in DOMAIN attempt :
                   a.task = k => a.epoch < task'[k].epoch]_reviews

\* A conflict is approved only together with its conversion, and a conversion
\* never waits for a decision of its own.
ConflictsAreConverted ==
  LET Of(k) == {x \in DOMAIN queue \ (Proposal \cup Sample \cup Notice) :
                  x.of = k}
  IN  /\ \A k \in DOMAIN task :
           (Conflict(k) \in DOMAIN review /\ review[Conflict(k)] = "approved")
             = (Of(k) # {})
      /\ \A k \in DOMAIN task : \A x \in Of(k) :
           queue[x] = [status |-> "approved", task |-> k]
=============================================================================
