--------------------------- MODULE CompileWorkers ---------------------------
(***************************************************************************)
(* Who calls the compile tables, and in what order: the server's resident  *)
(* worker with its lease reaper (server/worker.rs), the gRPC admission     *)
(* handler beside it (server/services/compile.rs), and CLI runs            *)
(* (compile/executor.rs: run_real), all over one database.  A process      *)
(* holds one lease at a time; while the model is asked, a heartbeat task   *)
(* (compile/lease.rs) renews it.                                           *)
(*                                                                         *)
(* Every step is one await point of the code: between two steps the clock  *)
(* and every other process may move.  A process may also fail (a database  *)
(* or internal error leaves process_lease with `?`), be stopped, or crash. *)
(***************************************************************************)
EXTENDS CompileStore

CONSTANTS
  Server,       \* resident workers
  Cli,          \* CLI runs; a run is its own run_id
  Pass,         \* run_id of the workers' passes, whose budget never binds
  Own,          \* per process: the config, policy and force it works with
  Offers,       \* what a CLI run may find at its source
  Posted,       \* the sources that arrive through Compile.Admit
  BatchSize,    \* RunOptions.batch_size
  Concurrency,  \* how many due tasks a worker lists
  MaxWait,      \* MAX_BACKOFF_WAIT_SECONDS
  LeaseSeconds, \* CompilePolicy.lease_seconds; the tables have LeaseWindow
  Prompt,       \* TRUE: a heartbeat is never late
  MaxHalts,     \* bound: stops and crashes
  MaxErrors     \* bound: database errors that meet a reaper or a heartbeat

Process == Server \cup Cli

\* What a model's answer is to process_lease: a page that passes, one that
\* does not, or one of the two failures.
Verdict == {"good", "bad", "retryable", "permanent"}

\* config.rules stands for what content_hash takes from the worker itself:
\* its policy and its source schema.
ASSUME WorkersAssumption ==
  /\ Server \cap Cli = {} /\ Run = Cli \cup {Pass} /\ Pass \notin Cli
  /\ \A p \in Process :
       /\ Own[p].config \in Config /\ Own[p].policy \in Policy
       /\ Own[p].force \in BOOLEAN
  /\ Offers \subseteq SUBSET Source /\ Posted \subseteq Source
  /\ BatchSize \in Nat \ {0} /\ Concurrency \in Nat \ {0} /\ MaxWait \in Nat
  /\ LeaseSeconds \in Nat \ {0}
  /\ Null \notin Verdict
  /\ Prompt \in BOOLEAN /\ MaxHalts \in Nat /\ MaxErrors \in Nat

VARIABLES
  at,       \* where each process is
  holds,    \* the lease it has in hand, or Null
  answer,   \* what the model answered, or Null
  beat,     \* seconds to the next heartbeat, or Null
  picked,   \* task ids a worker listed and has not claimed yet
  run,      \* the state of each CLI run
  reaping,  \* whether a worker's reaper task is alive
  halts,    \* stops and crashes so far
  errors    \* errors of reapers and heartbeats so far

procs == <<at, holds, answer, beat, picked, run, reaping, halts, errors>>
all == <<vars, procs>>

Become(p, place) == at' = [at EXCEPT ![p] = place]

-----------------------------------------------------------------------------
(* Leases in hand.                                                         *)

\* lease_heartbeat_interval: half of lease_seconds, at least one second.
FaultyBeatEvery == LeaseSeconds
BeatEvery == IF LeaseSeconds \div 2 > 1 THEN LeaseSeconds \div 2 ELSE 1

Claimable(ids) ==
  \E k \in ids :
    Candidate(ids, k) /\ Fits(task[k].reserved, task[k].policy.cost,
                              task[k].budget)

\* claim_compile, also when it returns Ok(None) and writes nothing.
TryClaim(ids, r) ==
  \/ Claim(ids, r)
  \/ ~Claimable(ids) /\ UNCHANGED vars

Leased == DOMAIN attempt' # DOMAIN attempt
NewLease == CHOOSE a \in DOMAIN attempt' : a \notin DOMAIN attempt

\* start_heartbeat, then the model is asked.
Begin(p) ==
  /\ Become(p, "compile")
  /\ holds' = [holds EXCEPT ![p] = NewLease]
  /\ beat' = [beat EXCEPT ![p] = BeatEvery]

LetGo(p) ==
  /\ holds' = [holds EXCEPT ![p] = Null]
  /\ answer' = [answer EXCEPT ![p] = Null]
  /\ beat' = [beat EXCEPT ![p] = Null]

FaultyBeat(p) ==
  LET k == holds[p].task
  IN  /\ at[p] = "compile" /\ beat[p] = 0
      /\ task' = [task EXCEPT ![k].expires = LeaseWindow]
      /\ beat' = [beat EXCEPT ![p] = BeatEvery]
      /\ UNCHANGED <<facts, head, next_id, attempt, page, generation, runs,
                     days, day, review>>
      /\ UNCHANGED <<at, holds, answer, picked, run, reaping, halts, errors>>
\* LeaseHeartbeat: one renewal per interval; a stale one, or an error, is the
\* last.
Beat(p) ==
  /\ at[p] = "compile" /\ beat[p] = 0
  /\ \/ /\ Heartbeat(holds[p])
        /\ beat' = [beat EXCEPT ![p] = BeatEvery]
        /\ UNCHANGED errors
     \/ /\ \/ ~Live(holds[p]) /\ UNCHANGED errors
           \/ errors < MaxErrors /\ errors' = errors + 1
        /\ beat' = [beat EXCEPT ![p] = Null]
        /\ UNCHANGED vars
  /\ UNCHANGED <<at, holds, answer, picked, run, reaping, halts>>

\* The model answers and the candidate is scored; the heartbeat is joined.
Answer(p) ==
  /\ at[p] = "compile"
  /\ Become(p, "report")
  /\ \E v \in Verdict : answer' = [answer EXCEPT ![p] = v]
  /\ beat' = [beat EXCEPT ![p] = Null]
  /\ UNCHANGED <<vars, holds, picked, run, reaping, halts, errors>>

-----------------------------------------------------------------------------
(* A CLI run.                                                              *)

Counter == {"scanned", "skipped", "failed", "quarantined", "deferred",
            "accepted"}

NewRun(offers) ==
  [todo |-> offers, seen |-> {}, room |-> BatchSize, queued |-> {},
   retry_at |-> EmptyTable, wake |-> 0, waits |-> MaxWait,
   stats |-> [n \in Counter |-> 0], circuit_open |-> FALSE]

Count(r, n) == [r EXCEPT !.stats[n] = @ + 1]

SetRun(c, r) == run' = [run EXCEPT ![c] = r]

\* The scheduling loop goes on while tasks are queued; then the next batch is
\* fetched, if there is one.
Resume(c, r) ==
  IF r.queued # {} THEN Become(c, "claim") /\ SetRun(c, r)
  ELSE IF r.todo # {}
    THEN /\ Become(c, "admit")
         /\ SetRun(c, [r EXCEPT !.room = BatchSize,
                                    !.retry_at = EmptyTable])
    ELSE Become(c, "done") /\ SetRun(c, r)

RecoverAny ==
  \/ Recover
  \/ (\A k \in DOMAIN task : ~Expired(k)) /\ UNCHANGED vars

\* run_real: one recovery, and no reaper unless one was wired.
StartRun(c) ==
  /\ at[c] = "new"
  /\ RecoverAny
  /\ \E offers \in Offers : SetRun(c, NewRun(offers))
  /\ Become(c, "admit")
  /\ UNCHANGED <<holds, answer, beat, picked, reaping, halts, errors>>

\* Admission::Skipped: an older revision, an accepted page that is up to date,
\* or a task that has ended with the same hash.
Outdated(s) == s.entity \in DOMAIN head /\ s.rev < head[s.entity].rev

Settled(s, o) ==
  \/ UpToDate(s, o.config, o.force)
  \/ LET key == KeyOf(s, o.config)
     IN  /\ key \in DOMAIN task /\ ~o.force
         /\ task[key].hash = Hash(s, o.config)
         /\ task[key].status \notin {"pending", "running"}

\* One scanned record: a duplicate, a preflight refusal, or an admission.
Offered(c) ==
  /\ at[c] = "admit" /\ run[c].room > 0
  /\ \E s \in run[c].todo :
       LET o == Own[c]
           new == s.entity \notin run[c].seen
           r == Count([run[c] EXCEPT !.todo = @ \ {s}, !.room = @ - 1,
                                     !.seen = @ \cup {s.entity}], "scanned")
       IN  \/ ~new /\ SetRun(c, Count(r, "skipped")) /\ UNCHANGED vars
           \/ /\ new /\ s.body \in Oversized
              /\ SetRun(c, Count(r, "quarantined")) /\ UNCHANGED vars
           \/ /\ new /\ s.body \notin Oversized /\ ~Admissible(s)
              /\ SetRun(c, Count(r, IF Outdated(s) THEN "skipped"
                                        ELSE "failed"))
              /\ UNCHANGED vars
           \/ /\ new /\ s.body \notin Oversized
              /\ Admit(s, o.config, o.policy, o.force)
              /\ SetRun(c, IF Settled(s, o) THEN Count(r, "skipped")
                               ELSE [r EXCEPT !.queued =
                                       @ \cup {KeyOf(s, o.config)}])
  /\ UNCHANGED <<at, holds, answer, beat, picked, reaping, halts, errors>>

BatchEnds(c) ==
  /\ at[c] = "admit" /\ (run[c].room = 0 \/ run[c].todo = {})
  /\ Resume(c, run[c])
  /\ UNCHANGED <<vars, holds, answer, beat, picked, reaping, halts, errors>>

FaultyWithout(queued, k) == queued
Without(queued, k) == queued \ {k}

ClaimQueued(c) ==
  /\ at[c] = "claim"
  /\ TryClaim(run[c].queued, c)
  /\ \/ /\ Leased /\ Begin(c)
        /\ SetRun(c, [run[c] EXCEPT !.queued =
                            Without(@, NewLease.task)])
     \/ ~Leased /\ Become(c, "decide") /\ UNCHANGED <<holds, beat, run>>
  /\ UNCHANGED <<answer, picked, reaping, halts, errors>>

\* When to try again, as far as this run's own failures tell.
Earliest(r) ==
  LET known == {r.retry_at[k] : k \in r.queued \cap DOMAIN r.retry_at}
  IN  IF known = {} THEN 0
      ELSE CHOOSE t \in known : \A u \in known : t <= u

FaultyNap(earliest, waits) == earliest
Nap(earliest, waits) == Lesser(earliest, waits)

FaultyOpenCircuit(c, r) == Become(c, "claim") /\ UNCHANGED run
OpenCircuit(c, r) ==
  /\ Become(c, "done")
  /\ SetRun(c, [r EXCEPT !.circuit_open = TRUE, !.queued = {},
                             !.stats.deferred = @ + Cardinality(r.queued)])

\* Nothing was claimed.  The clock is read again: the run sleeps until one of
\* its own tasks is due, or stops for good.
Decide(c) ==
  /\ at[c] = "decide"
  /\ LET r == run[c]
         nap == Nap(Earliest(r), r.waits)
     IN  IF Earliest(r) > 0 /\ r.waits > 0
           THEN /\ Become(c, "sleep")
                /\ SetRun(c, [r EXCEPT !.wake = nap, !.waits = @ - nap])
           ELSE OpenCircuit(c, r)
  /\ UNCHANGED <<vars, holds, answer, beat, picked, reaping, halts, errors>>

Wake(c) ==
  /\ at[c] = "sleep" /\ run[c].wake = 0
  /\ Become(c, "claim")
  /\ UNCHANGED <<vars, holds, answer, beat, picked, run, reaping, halts,
                 errors>>

-----------------------------------------------------------------------------
(* The resident worker.                                                    *)

\* spawn: one recovery, whose error is only logged, and a fresh reaper.
StartServer(w) ==
  /\ at[w] = "down"
  /\ RecoverAny \/ UNCHANGED vars
  /\ Become(w, "poll")
  /\ reaping' = [reaping EXCEPT ![w] = TRUE]
  /\ UNCHANGED <<holds, answer, beat, picked, run, halts, errors>>

\* list_due_compile_task_ids: the first due tasks, whosever they are.
FirstDue ==
  LET due == {k \in DOMAIN task : Due(k)}
  IN  {k \in due : Cardinality({j \in due \ {k} : Precedes(j, k)})
                     < Concurrency}

List(w) ==
  /\ at[w] = "poll" /\ FirstDue # {}
  /\ picked' = [picked EXCEPT ![w] = FirstDue]
  /\ Become(w, "claim")
  /\ UNCHANGED <<vars, holds, answer, beat, run, reaping, halts, errors>>

ClaimPicked(w) ==
  /\ at[w] = "claim"
  /\ TryClaim(picked[w], Pass)
  /\ picked' = [picked EXCEPT ![w] = {}]
  /\ \/ Leased /\ Begin(w)
     \/ ~Leased /\ Become(w, "poll") /\ UNCHANGED <<holds, beat>>
  /\ UNCHANGED <<answer, run, reaping, halts, errors>>

\* Compile.Admit: admit_batch, record by record, without a preflight.
PostedIn(w) ==
  /\ at[w] # "down"
  /\ \E s \in Posted, force \in BOOLEAN :
       Admit(s, Own[w].config, Own[w].policy, force)
  /\ UNCHANGED procs

Reap(w) == reaping[w] /\ Recover /\ UNCHANGED procs

\* run_until_cancelled ends at the first error of a recovery.
ReaperFails(w) ==
  /\ reaping[w] /\ errors < MaxErrors
  /\ reaping' = [reaping EXCEPT ![w] = FALSE]
  /\ errors' = errors + 1
  /\ UNCHANGED <<vars, at, holds, answer, beat, picked, run, halts>>

\* The token is looked at between two passes only; the reaper drains once.
Stop(w) ==
  /\ at[w] = "poll" /\ halts < MaxHalts
  /\ Become(w, "down")
  /\ halts' = halts + 1
  /\ IF reaping[w] THEN RecoverAny ELSE UNCHANGED vars
  /\ reaping' = [reaping EXCEPT ![w] = FALSE]
  /\ UNCHANGED <<holds, answer, beat, picked, run, errors>>

-----------------------------------------------------------------------------
(* Reporting, for workers and runs alike.                                  *)

\* process_lease returns Finalized; a run counts it.
Finalized(p, n) ==
  IF p \in Server THEN Become(p, "poll") /\ UNCHANGED run
  ELSE Resume(p, Count(run[p], n))

\* ... or RetryAt: a run queues the task again, a worker's next pass finds it.
RetryLater(p, k) ==
  IF p \in Server THEN Become(p, "poll") /\ UNCHANGED run
  ELSE Resume(p, [run[p] EXCEPT
         !.queued = @ \cup {k},
         !.retry_at = Put(@, k, task'[k].next)])

\* ... or an error: a run ends, a worker logs it; the lease stays as it is.
Errs(p) ==
  /\ Become(p, IF p \in Server THEN "poll" ELSE "failed")
  /\ UNCHANGED run

\* normalize_page: the hash of the leased source and context under the
\* worker's own policy and schema.
PageHash(p) ==
  [attempt[holds[p]].hash EXCEPT !.config.rules = Own[p].config.rules]

FaultyReportPageStale(p) ==
  LET a == holds[p]
  IN  \/ Publish(a, PageHash(p)) /\ Finalized(p, "accepted")
      \/ /\ ~(Live(a) /\ HeadWants(a.task) /\ PageHash(p) = attempt[a].hash)
         /\ Finalized(p, "deferred") /\ UNCHANGED vars
ReportPage(p) ==
  LET a == holds[p]
  IN  \/ Publish(a, PageHash(p)) /\ Finalized(p, "accepted")
      \/ /\ ~(Live(a) /\ HeadWants(a.task))
         /\ Finalized(p, "deferred") /\ UNCHANGED vars
      \/ /\ Live(a) /\ HeadWants(a.task) /\ PageHash(p) # attempt[a].hash
         /\ Errs(p) /\ UNCHANGED vars

\* fail_lease; a stale failure comes back as Failed.
ReportFailure(p) ==
  LET a == holds[p]
      k == a.task
  IN  \/ /\ \/ /\ answer[p] = "bad"
               /\ \E divergent \in BOOLEAN : InvalidOutput(a, divergent)
            \/ /\ answer[p] = "retryable"
               /\ \E retry_after \in RetryAfter : Retryable(a, retry_after)
            \/ answer[p] = "permanent" /\ Permanent(a)
         /\ \/ task'[k].status = "pending" /\ RetryLater(p, k)
            \/ /\ task'[k].status # "pending"
               /\ Finalized(p, IF task'[k].result = "quarantined"
                                 THEN "quarantined" ELSE "failed")
      \/ ~Live(a) /\ Finalized(p, "failed") /\ UNCHANGED vars

Report(p) ==
  /\ at[p] = "report"
  /\ \/ answer[p] = "good" /\ ReportPage(p)
     \/ answer[p] # "good" /\ ReportFailure(p)
  /\ LetGo(p)
  /\ UNCHANGED <<picked, reaping, halts, errors>>

\* A database or internal error while the lease is in hand.
Fail(p) ==
  /\ at[p] \in {"compile", "report"}
  /\ Errs(p) /\ LetGo(p)
  /\ UNCHANGED <<vars, picked, reaping, halts, errors>>

Crash(p) ==
  /\ at[p] \notin {"new", "down", "done", "failed"} /\ halts < MaxHalts
  /\ Become(p, IF p \in Server THEN "down" ELSE "failed")
  /\ LetGo(p)
  /\ picked' = [picked EXCEPT ![p] = {}]
  /\ reaping' = [reaping EXCEPT ![p] = FALSE]
  /\ halts' = halts + 1
  /\ UNCHANGED <<vars, run, errors>>

\* A second passes for the database, the sleepers and the heartbeats.
Second ==
  /\ Prompt => \A p \in Process : beat[p] # 0
  /\ Tick
  /\ beat' = [p \in Process |->
               IF beat[p] \in {Null, 0} THEN beat[p] ELSE beat[p] - 1]
  /\ run' = [c \in Cli |->
       [run[c] EXCEPT
          !.wake = IF @ > 0 THEN @ - 1 ELSE 0,
          !.retry_at = [k \in DOMAIN @ |-> IF @[k] > 0 THEN @[k] - 1 ELSE 0]]]
  /\ UNCHANGED <<at, holds, answer, picked, reaping, halts, errors>>

-----------------------------------------------------------------------------
WorkersInit ==
  /\ Init
  /\ at = [p \in Process |-> IF p \in Server THEN "down" ELSE "new"]
  /\ holds = [p \in Process |-> Null] /\ answer = holds /\ beat = holds
  /\ picked = [p \in Process |-> {}]
  /\ run = [c \in Cli |-> NewRun({})]
  /\ reaping = [p \in Process |-> FALSE] /\ halts = 0 /\ errors = 0

WorkersNext ==
  \/ \E c \in Cli : \/ StartRun(c) \/ Offered(c) \/ BatchEnds(c)
                    \/ ClaimQueued(c) \/ Decide(c) \/ Wake(c)
  \/ \E w \in Server : \/ StartServer(w) \/ List(w) \/ ClaimPicked(w)
                       \/ PostedIn(w) \/ Reap(w) \/ ReaperFails(w)
                       \/ Stop(w)
  \/ \E p \in Process : \/ Beat(p) \/ Answer(p) \/ Report(p) \/ Fail(p)
                        \/ Crash(p)
  \/ Second

WorkersSpec == WorkersInit /\ [][WorkersNext]_all

\* Time goes on, every process takes its next step, models answer, a stopped
\* server is started again; nothing obliges anyone to fail, stop or crash.
FairWorkersSpec ==
  /\ WorkersSpec
  /\ WF_all(Second)
  /\ \A c \in Cli : WF_all(\/ Offered(c) \/ BatchEnds(c) \/ ClaimQueued(c)
                            \/ Decide(c) \/ Wake(c))
  /\ \A w \in Server : /\ WF_all(StartServer(w) \/ List(w) \/ ClaimPicked(w))
                        /\ WF_all(Reap(w))
  /\ \A p \in Process : WF_all(Answer(p) \/ Report(p)) /\ WF_all(Beat(p))

-----------------------------------------------------------------------------
\* Every process, lease in hand and run has the shape its type gives it.
WorkersTypeOK ==
  /\ TypeOK
  /\ at \in [Process -> {"new", "down", "poll", "admit", "claim", "compile",
                         "report", "decide", "sleep", "done", "failed"}]
  /\ \A p \in Process :
       /\ at[p] \in {"compile", "report"} <=> holds[p] # Null
       /\ holds[p] # Null => holds[p] \in DOMAIN attempt
       /\ beat[p] # Null => beat[p] \in 0..BeatEvery /\ at[p] = "compile"
       /\ answer[p] # Null <=> at[p] = "report"
       /\ picked[p] \subseteq DOMAIN task
  /\ \A c \in Cli :
       /\ run[c].queued \subseteq DOMAIN task
       /\ run[c].waits \in 0..MaxWait /\ run[c].wake \in 0..MaxWait
       /\ run[c].room \in 0..BatchSize
       /\ run[c].stats \in [Counter -> Nat]
  /\ reaping \in [Process -> BOOLEAN]
  /\ halts \in 0..MaxHalts /\ errors \in 0..MaxErrors

\* Between them the processes do nothing to the tables that CompileStore does
\* not allow: whatever it shows of all callers holds of these.
StoreIsKept == Spec

\* Each scanned entity receives one final classification, however often it
\* is compiled again: none is lost and none is counted twice.
StatsAddUp ==
  \A c \in Cli : at[c] # "failed" =>
    LET s == run[c].stats
        open == Cardinality(run[c].queued)
                  + (IF at[c] \in {"compile", "report"} THEN 1 ELSE 0)
    IN  s.scanned = s.skipped + s.failed + s.quarantined + s.deferred
                      + s.accepted + open

\* A run that goes on after a report has given its lease up: nobody else has
\* to wait for it to run out, unless the head wants something else by now.
RunsReleaseTheirLeases ==
  [][\A c \in Cli :
       at[c] = "report" /\ at'[c] \notin {"report", "failed"} =>
         LET a == holds[c]
         IN  \/ task'[a.task].token # a
             \/ task'[a.task].expires <= 0
             \/ Superseded(a.task)]_all

\* With heartbeats on time and without errors no two processes ask the model
\* for one epoch of a task at the same time, however long the model takes.
OneCompiler ==
  \A p, q \in Process :
    at[p] = "compile" /\ at[q] = "compile" /\ p # q =>
      \/ holds[p].task # holds[q].task
      \/ holds[p].epoch # holds[q].epoch

\* Every queued task is decided: failures that nobody reports count too, for
\* each lease that has to be recovered costs a retry.
EveryTaskIsDecided ==
  \A k \in TaskKey :
    (k \in DOMAIN task /\ Open(k)) ~> (k \in DOMAIN task /\ ~Open(k))

\* A CLI run ends, whatever the models answer and whoever takes its tasks.
RunsEnd ==
  \A c \in Cli : (at[c] # "new") ~> (at[c] \in {"done", "failed"})
=============================================================================
