------------------------ MODULE CompileWorkersProofs ------------------------
(***************************************************************************)
(* The composition of CompileWorkers: whatever the processes do, crash or  *)
(* leave undone, the tables only take steps that CompileStore allows.      *)
(* Hence what is proved of CompileStore for the most general callers holds *)
(* of the workers, the runs, their heartbeats and their reapers.           *)
(*                                                                         *)
(* A step of CompileStore may only be presented with a lease that was      *)
(* issued and with task ids, so the proof needs to know that the memory of *)
(* a process never holds anything else (Memory).                           *)
(***************************************************************************)
EXTENDS CompileWorkers, CompileStoreHistory, WellFoundedInduction

Place == {"new", "down", "poll", "admit", "claim", "compile", "report",
          "decide", "sleep", "done", "failed"}

RunField == {"todo", "seen", "room", "queued", "retry_at", "wake", "waits",
             "stats", "circuit_open"}

RunOK(r) ==
  /\ DOMAIN r = RunField
  /\ r.todo \subseteq Source
  /\ r.queued \subseteq TaskKey

Memory ==
  /\ at \in [Process -> Place]
  /\ DOMAIN holds = Process
  /\ \A p \in Process : at[p] \in {"compile", "report"} => holds[p] \in Issued
  /\ picked \in [Process -> SUBSET TaskKey]
  /\ DOMAIN run = Cli
  /\ \A c \in Cli : RunOK(run[c])

StoreStep == Next \/ UNCHANGED vars

-----------------------------------------------------------------------------
(* The parts the actions are made of.                                      *)

LEMMA RecoverAnySteps == ASSUME RecoverAny PROVE StoreStep
BY DEF RecoverAny, StoreStep, Next

LEMMA TryClaimSteps ==
  ASSUME NEW ids \in SUBSET TaskKey, NEW r \in Run, TryClaim(ids, r)
  PROVE  StoreStep
BY DEF TryClaim, StoreStep, Next

\* The run ids: one per CLI run, and the one of the workers' passes.
LEMMA RunIds == Pass \in Run /\ Cli \subseteq Run
BY WorkersAssumption

LEMMA OwnParts ==
  ASSUME NEW p \in Process
  PROVE  /\ Own[p].config \in Config
         /\ Own[p].policy \in Policy
         /\ Own[p].force \in BOOLEAN
BY WorkersAssumption

-----------------------------------------------------------------------------
(* Every step of a process is a step of the tables, or none.               *)

LEMMA ReportSteps ==
  ASSUME TypeOK, Memory, NEW p \in Process, Report(p)
  PROVE  StoreStep
<1>1. holds[p] \in Issued
  BY DEF Report, Memory
<1>2. CASE answer[p] = "good" /\ ReportPage(p)
  <2>1. CASE Publish(holds[p], PageHash(p))
    <3>1. attempt[holds[p]] \in Attempt
      BY <1>1, IssuedType, RowOf DEF TypeOK
    <3>2. PageHash(p) \in ContentHash
      BY <2>1, <3>1 DEF Publish, Attempt
    <3>. QED
      BY <1>1, <2>1, <3>2 DEF StoreStep, Next
  <2>2. CASE UNCHANGED vars
    BY <2>2 DEF StoreStep
  <2>. QED
    BY <1>2, <2>1, <2>2 DEF ReportPage
<1>3. CASE answer[p] # "good" /\ ReportFailure(p)
  <2>1. ASSUME NEW divergent \in BOOLEAN, InvalidOutput(holds[p], divergent)
        PROVE  StoreStep
    BY <1>1, <2>1 DEF StoreStep, Next
  <2>2. ASSUME NEW retry_after \in RetryAfter,
               Retryable(holds[p], retry_after)
        PROVE  StoreStep
    BY <1>1, <2>2 DEF StoreStep, Next
  <2>3. CASE Permanent(holds[p])
    BY <1>1, <2>3 DEF StoreStep, Next
  <2>4. CASE UNCHANGED vars
    BY <2>4 DEF StoreStep
  <2>. QED
    BY <1>3, <2>1, <2>2, <2>3, <2>4 DEF ReportFailure
<1>. QED
  BY <1>2, <1>3 DEF Report

LEMMA OfferedSteps ==
  ASSUME Memory, NEW c \in Cli, Offered(c)
  PROVE  StoreStep
<1>1. run[c].todo \subseteq Source
  BY DEF Memory, RunOK
<1>2. PICK s \in run[c].todo :
        \/ Admit(s, Own[c].config, Own[c].policy, Own[c].force)
        \/ UNCHANGED vars
  BY DEF Offered
<1>. QED
  BY <1>1, <1>2, OwnParts DEF StoreStep, Next, Process

LEMMA WorkersStep ==
  ASSUME TypeOK, Memory, [WorkersNext]_all
  PROVE  [Next]_vars
<1>1. ASSUME NEW c \in Cli,
             \/ StartRun(c) \/ Offered(c) \/ BatchEnds(c)
             \/ ClaimQueued(c) \/ Decide(c) \/ Wake(c)
      PROVE  StoreStep
  <2>1. CASE StartRun(c)
    BY <2>1, RecoverAnySteps DEF StartRun
  <2>2. CASE Offered(c)
    BY <2>2, OfferedSteps
  <2>3. CASE BatchEnds(c) \/ Decide(c) \/ Wake(c)
    BY <2>3 DEF BatchEnds, Decide, Wake, StoreStep
  <2>4. CASE ClaimQueued(c)
    <3>1. run[c].queued \in SUBSET TaskKey
      BY DEF Memory, RunOK
    <3>. QED
      BY <2>4, <3>1, RunIds, TryClaimSteps DEF ClaimQueued
  <2>. QED
    BY <1>1, <2>1, <2>2, <2>3, <2>4
<1>2. ASSUME NEW w \in Server,
             \/ StartServer(w) \/ List(w) \/ ClaimPicked(w) \/ PostedIn(w)
             \/ Reap(w) \/ ReaperFails(w) \/ Stop(w)
      PROVE  StoreStep
  <2>1. CASE StartServer(w) \/ Stop(w)
    BY <2>1, RecoverAnySteps DEF StartServer, Stop, StoreStep
  <2>2. CASE List(w) \/ ReaperFails(w)
    BY <2>2 DEF List, ReaperFails, StoreStep
  <2>3. CASE ClaimPicked(w)
    <3>1. picked[w] \in SUBSET TaskKey
      BY DEF Memory, Process
    <3>. QED
      BY <2>3, <3>1, RunIds, TryClaimSteps DEF ClaimPicked
  <2>4. CASE PostedIn(w)
    <3>1. Posted \subseteq Source /\ w \in Process
      BY WorkersAssumption DEF Process
    <3>. QED
      BY <2>4, <3>1, OwnParts DEF PostedIn, StoreStep, Next
  <2>5. CASE Reap(w)
    BY <2>5 DEF Reap, StoreStep, Next
  <2>. QED
    BY <1>2, <2>1, <2>2, <2>3, <2>4, <2>5
<1>3. ASSUME NEW p \in Process,
             Beat(p) \/ Answer(p) \/ Report(p) \/ Fail(p) \/ Crash(p)
      PROVE  StoreStep
  <2>1. CASE Beat(p)
    <3>1. holds[p] \in Issued
      BY <2>1 DEF Beat, Memory
    <3>. QED
      BY <2>1, <3>1 DEF Beat, StoreStep, Next
  <2>2. CASE Answer(p) \/ Fail(p) \/ Crash(p)
    BY <2>2 DEF Answer, Fail, Crash, StoreStep
  <2>3. CASE Report(p)
    BY <2>3, ReportSteps
  <2>. QED
    BY <1>3, <2>1, <2>2, <2>3
<1>4. ASSUME Second PROVE StoreStep
  BY <1>4 DEF Second, StoreStep, Next
<1>5. ASSUME UNCHANGED all PROVE StoreStep
  BY <1>5 DEF all, StoreStep
<1>6. ASSUME WorkersNext PROVE StoreStep
  BY <1>1, <1>2, <1>3, <1>4, <1>6 DEF WorkersNext
<1>. QED
  BY <1>5, <1>6 DEF StoreStep

-----------------------------------------------------------------------------
(* The memory of the processes.                                            *)

\* No action deletes an attempt.
LEMMA AttemptsStay ==
  ASSUME StoreStep
  PROVE  Issued \subseteq Issued'
<1>. SUFFICES DOMAIN attempt \subseteq DOMAIN attempt'
  BY DEF Issued
<1>1. ASSUME NEW s \in Source, NEW c \in Config, NEW p \in Policy,
             NEW force \in BOOLEAN, Admit(s, c, p, force)
      PROVE  attempt' = attempt
  BY <1>1 DEF Admit
<1>2. ASSUME NEW s \in Seeded, UpsertFacts(s) PROVE attempt' = attempt
  BY <1>2 DEF UpsertFacts
<1>3. ASSUME NEW ids \in SUBSET TaskKey, NEW r \in Run, Claim(ids, r)
      PROVE  DOMAIN attempt \subseteq DOMAIN attempt'
  BY <1>3 DEF Claim, Lease, Defer, Put
<1>4. ASSUME NEW a \in Issued, Heartbeat(a) PROVE attempt' = attempt
  BY <1>4 DEF Heartbeat
<1>5. ASSUME NEW a \in Issued, NEW h \in ContentHash, Publish(a, h)
      PROVE  DOMAIN attempt \subseteq DOMAIN attempt'
  BY <1>5 DEF Publish
<1>6. ASSUME NEW a \in Issued, NEW divergent \in BOOLEAN,
             InvalidOutput(a, divergent)
      PROVE  DOMAIN attempt \subseteq DOMAIN attempt'
  BY <1>6 DEF InvalidOutput
<1>7. ASSUME NEW a \in Issued, NEW retry_after \in RetryAfter,
             Retryable(a, retry_after)
      PROVE  DOMAIN attempt \subseteq DOMAIN attempt'
  BY <1>7 DEF Retryable
<1>8. ASSUME NEW a \in Issued, Permanent(a)
      PROVE  DOMAIN attempt \subseteq DOMAIN attempt'
  BY <1>8 DEF Permanent
<1>9. ASSUME Recover PROVE DOMAIN attempt \subseteq DOMAIN attempt'
  BY <1>9 DEF Recover
<1>10. ASSUME NEW k \in DOMAIN task, NEW epoch \in 1..task[k].epoch,
              QuarantinePreflight(k, epoch)
       PROVE  DOMAIN attempt \subseteq DOMAIN attempt'
  BY <1>10 DEF QuarantinePreflight, Put
<1>11. ASSUME Tick \/ NewDay \/ UNCHANGED vars PROVE attempt' = attempt
  BY <1>11 DEF Tick, NewDay, vars
<1>. QED
  BY <1>1, <1>2, <1>3, <1>4, <1>5, <1>6, <1>7, <1>8, <1>9, <1>10, <1>11
  DEF StoreStep, Next

\* What a claim hands out is a lease that has just been issued.
LEMMA NewLeaseIsIssued ==
  ASSUME TypeOK, NEW ids \in SUBSET TaskKey, NEW r, TryClaim(ids, r), Leased
  PROVE  NewLease \in Issued'
<1>1. PICK k \in ids : Candidate(ids, k) /\ Lease(k, r)
  BY DEF TryClaim, Leased, Claim, Defer, vars
<1>. DEFINE a == [task |-> k, epoch |-> task[k].epoch,
                  no |-> task[k].attempts + 1]
<1>2. task[k] \in Task
  BY <1>1, RowOf DEF Candidate, TypeOK
<1>3. DOMAIN attempt' = DOMAIN attempt \cup {a}
  BY <1>1 DEF Lease, Put
<1>4. NewLease = a /\ a \in DOMAIN attempt'
  BY <1>3 DEF NewLease, Leased
<1>. QED
  BY <1>2, <1>4 DEF Issued, Task

\* Which process is where, and with what in hand.
Hands ==
  /\ at \in [Process -> Place]
  /\ DOMAIN holds = Process
  /\ \A p \in Process : at[p] \in {"compile", "report"} => holds[p] \in Issued

\* What the processes have in mind to claim.
Minds ==
  /\ picked \in [Process -> SUBSET TaskKey]
  /\ DOMAIN run = Cli
  /\ \A c \in Cli : RunOK(run[c])

LEMMA MemoryParts == Memory <=> Hands /\ Minds
BY DEF Memory, Hands, Minds

\* A process that moves on holds an issued lease, or is where it needs none.
LEMMA Moves ==
  ASSUME Hands, Issued \subseteq Issued',
         NEW p \in Process, NEW x \in Place, Become(p, x),
         DOMAIN holds' = Process,
         \A q \in Process \ {p} : holds'[q] = holds[q],
         x \in {"compile", "report"} => holds'[p] \in Issued'
  PROVE  Hands'
BY DEF Hands, Become

\* ... and nobody else is affected.
LEMMA Stays ==
  ASSUME Hands, Issued \subseteq Issued', UNCHANGED <<at, holds>>
  PROVE  Hands'
BY DEF Hands

LEMMA SetRunMinds ==
  ASSUME Minds, NEW c \in Cli, NEW r, RunOK(r), SetRun(c, r),
         UNCHANGED picked
  PROVE  Minds'
BY DEF Minds, SetRun, RunOK

LEMMA SameMinds == ASSUME Minds, UNCHANGED <<picked, run>> PROVE Minds'
BY DEF Minds, RunOK

LEMMA ResumeWhere ==
  ASSUME NEW c \in Cli, NEW r, RunOK(r), Resume(c, r)
  PROVE  /\ \E x \in {"claim", "admit", "done"} : Become(c, x)
         /\ \/ SetRun(c, r)
            \/ SetRun(c, [r EXCEPT !.room = BatchSize,
                                   !.retry_at = EmptyTable])
BY DEF Resume

LEMMA ResumeMinds ==
  ASSUME Minds, NEW c \in Cli, NEW r, RunOK(r), Resume(c, r),
         UNCHANGED picked
  PROVE  Minds'
<1>1. RunOK([r EXCEPT !.room = BatchSize, !.retry_at = EmptyTable])
  BY DEF RunOK, RunField
<1>. QED
  BY <1>1, ResumeWhere, SetRunMinds

-----------------------------------------------------------------------------
(* ... action by action.                                                   *)

LEMMA ReportMemory ==
  ASSUME TypeOK, Hands, Minds, Issued \subseteq Issued', NEW p \in Process, Report(p)
  PROVE  Hands' /\ Minds'
<1>1. CASE p \in Server
  <2>1. (Become(p, "poll") /\ UNCHANGED run) \/ Errs(p)
    BY <1>1 DEF Report, ReportPage, ReportFailure, Finalized, RetryLater
  <2>. QED
    BY <1>1, <2>1, Moves, SameMinds DEF Errs, Report, LetGo, Hands, Place
<1>2. CASE p \notin Server
  <2>1. p \in Cli /\ RunOK(run[p])
    BY <1>2 DEF Process, Minds
  <2>2. ASSUME NEW n, Resume(p, Count(run[p], n)) PROVE Hands' /\ Minds'
    <3>1. RunOK(Count(run[p], n))
      BY <2>1 DEF RunOK, RunField, Count
    <3>. QED
      BY <2>1, <2>2, <3>1, ResumeWhere, ResumeMinds, Moves
      DEF Report, LetGo, Hands, Place
  <2>3. ASSUME NEW k \in TaskKey, RetryLater(p, k) PROVE Hands' /\ Minds'
    <3>. DEFINE r == [run[p] EXCEPT
                        !.queued = @ \cup {k},
                        !.retry_at = Put(@, k, task'[k].next)]
    <3>1. RunOK(r)
      BY <2>1 DEF RunOK, RunField
    <3>2. Resume(p, r)
      BY <1>2, <2>3 DEF RetryLater
    <3>. HIDE DEF r
    <3>. QED
      BY <2>1, <3>1, <3>2, ResumeWhere, ResumeMinds, Moves
      DEF Report, LetGo, Hands, Place
  <2>4. ASSUME Errs(p) PROVE Hands' /\ Minds'
    BY <2>4, Moves, SameMinds DEF Errs, Report, LetGo, Hands, Place
  <2>5. holds[p].task \in TaskKey
    BY IssuedType DEF Report, Hands
  <2>. QED
    BY <1>2, <2>2, <2>3, <2>4, <2>5
    DEF Report, ReportPage, ReportFailure, Finalized
<1>. QED
  BY <1>1, <1>2

LEMMA ClaimMemory ==
  ASSUME TypeOK, Hands, Minds, Issued \subseteq Issued', NEW p \in Process
  PROVE  /\ p \in Cli /\ ClaimQueued(p) => Hands' /\ Minds'
         /\ p \in Server /\ ClaimPicked(p) => Hands' /\ Minds'
<1>1. ASSUME NEW ids \in SUBSET TaskKey, NEW r, TryClaim(ids, r), Leased,
             Begin(p)
      PROVE  Hands'
  <2>1. NewLease \in Issued'
    BY <1>1, NewLeaseIsIssued
  <2>2. DOMAIN holds' = Process /\ holds'[p] = NewLease
    BY <1>1 DEF Begin, Hands
  <2>3. \A q \in Process \ {p} : holds'[q] = holds[q]
    BY <1>1 DEF Begin, Hands
  <2>. QED
    BY <1>1, <2>1, <2>2, <2>3, Moves DEF Begin, Place
<1>2. ASSUME p \in Cli, ClaimQueued(p) PROVE Hands' /\ Minds'
  <2>1. run[p].queued \in SUBSET TaskKey /\ RunOK(run[p])
    BY <1>2 DEF Minds, RunOK
  <2>2. CASE Leased /\ Begin(p)
    <3>1. RunOK([run[p] EXCEPT !.queued = Without(@, NewLease.task)])
      BY <2>1 DEF RunOK, RunField, Without
    <3>2. SetRun(p, [run[p] EXCEPT !.queued = Without(@, NewLease.task)])
            \/ UNCHANGED run
      BY <1>2 DEF ClaimQueued
    <3>. QED
      BY <1>1, <1>2, <2>1, <2>2, <3>1, <3>2, SetRunMinds, SameMinds
      DEF ClaimQueued
  <2>3. CASE Become(p, "decide") /\ UNCHANGED <<holds, beat, run>>
    BY <1>2, <2>3, Moves, SameMinds DEF ClaimQueued, Hands, Place
  <2>. QED
    BY <1>2, <2>2, <2>3 DEF ClaimQueued
<1>3. ASSUME p \in Server, ClaimPicked(p) PROVE Hands' /\ Minds'
  <2>1. picked[p] \in SUBSET TaskKey
    BY DEF Minds
  <2>2. Minds'
    BY <1>3 DEF ClaimPicked, Minds, RunOK
  <2>3. CASE Leased /\ Begin(p)
    BY <1>1, <1>3, <2>1, <2>2, <2>3 DEF ClaimPicked
  <2>4. CASE Become(p, "poll") /\ UNCHANGED <<holds, beat>>
    BY <1>3, <2>2, <2>4, Moves DEF Hands, Place
  <2>. QED
    BY <1>3, <2>3, <2>4 DEF ClaimPicked
<1>. QED
  BY <1>2, <1>3

LEMMA CliMemory ==
  ASSUME TypeOK, Hands, Minds, Issued \subseteq Issued', NEW c \in Cli,
         \/ StartRun(c) \/ Offered(c) \/ BatchEnds(c) \/ ClaimQueued(c)
         \/ Decide(c) \/ Wake(c)
  PROVE  Hands' /\ Minds'
<1>. c \in Process /\ RunOK(run[c])
  BY DEF Process, Minds
<1>1. CASE StartRun(c)
  <2>1. PICK offers \in Offers : SetRun(c, NewRun(offers))
    BY <1>1 DEF StartRun
  <2>2. RunOK(NewRun(offers))
    BY <2>1, WorkersAssumption DEF RunOK, RunField, NewRun
  <2>3. Minds'
    BY <1>1, <2>1, <2>2, SetRunMinds DEF StartRun
  <2>. QED
    BY <1>1, <2>3, Moves DEF StartRun, Hands, Place
<1>2. CASE Offered(c)
  <2>. DEFINE r(s) == Count([run[c] EXCEPT !.todo = @ \ {s}, !.room = @ - 1,
                               !.seen = @ \cup {s.entity}], "scanned")
              more(s) == [r(s) EXCEPT
                            !.queued = @ \cup {KeyOf(s, Own[c].config)}]
  <2>1. PICK s \in run[c].todo :
          \/ \E n : SetRun(c, Count(r(s), n))
          \/ SetRun(c, more(s))
    BY <1>2 DEF Offered
  <2>2. KeyOf(s, Own[c].config) \in TaskKey
    <3>1. s \in Source
      BY DEF RunOK
    <3>. QED
      BY <3>1, OwnParts, SourceParts DEF KeyOf, TaskKey
  <2>3. RunOK(r(s))
    BY DEF RunOK, RunField, Count
  <2>4. \A n : RunOK(Count(r(s), n))
    BY <2>3 DEF RunOK, RunField, Count
  <2>5. RunOK(more(s))
    BY <2>2, <2>3 DEF RunOK, RunField
  <2>. HIDE DEF r, more
  <2>6. Minds'
    BY <1>2, <2>1, <2>4, <2>5, SetRunMinds DEF Offered
  <2>. QED
    BY <1>2, <2>6, Stays DEF Offered
<1>3. CASE BatchEnds(c)
  BY <1>3, ResumeWhere, ResumeMinds, Moves DEF BatchEnds, Hands, Place
<1>4. CASE ClaimQueued(c)
  BY <1>4, ClaimMemory
<1>5. CASE Decide(c)
  <2>1. CASE OpenCircuit(c, run[c])
    <3>. DEFINE r == [run[c] EXCEPT
                        !.circuit_open = TRUE, !.queued = {},
                        !.stats.deferred = @ + Cardinality(run[c].queued)]
    <3>1. RunOK(r)
      BY DEF RunOK, RunField
    <3>2. SetRun(c, r) /\ Become(c, "done")
      BY <2>1 DEF OpenCircuit
    <3>. HIDE DEF r
    <3>. QED
      BY <1>5, <3>1, <3>2, SetRunMinds, Moves DEF Decide, Hands, Place
  <2>2. CASE Become(c, "sleep")
    <3>. DEFINE nap == Nap(Earliest(run[c]), run[c].waits)
                r == [run[c] EXCEPT !.wake = nap, !.waits = @ - nap]
    <3>1. RunOK(r)
      BY DEF RunOK, RunField
    <3>2. SetRun(c, r) \/ OpenCircuit(c, run[c])
      BY <1>5 DEF Decide
    <3>. HIDE DEF r
    <3>. QED
      BY <1>5, <2>1, <2>2, <3>1, <3>2, SetRunMinds, Moves
      DEF Decide, Hands, Place
  <2>. QED
    BY <1>5, <2>1, <2>2 DEF Decide
<1>6. CASE Wake(c)
  BY <1>6, SameMinds, Moves DEF Wake, Hands, Place
<1>. QED
  BY <1>1, <1>2, <1>3, <1>4, <1>5, <1>6

LEMMA ServerMemory ==
  ASSUME TypeOK, Hands, Minds, Issued \subseteq Issued', NEW w \in Server,
         \/ StartServer(w) \/ List(w) \/ ClaimPicked(w) \/ PostedIn(w)
         \/ Reap(w) \/ ReaperFails(w) \/ Stop(w)
  PROVE  Hands' /\ Minds'
<1>. w \in Process
  BY DEF Process
<1>1. CASE StartServer(w)
  BY <1>1, SameMinds, Moves DEF StartServer, Hands, Place
<1>2. CASE List(w)
  <2>1. FirstDue \subseteq TaskKey
    BY RowOf DEF FirstDue, TypeOK
  <2>2. Minds'
    BY <1>2, <2>1 DEF List, Minds, RunOK
  <2>. QED
    BY <1>2, <2>2, Moves DEF List, Hands, Place
<1>3. CASE ClaimPicked(w)
  BY <1>3, ClaimMemory
<1>4. CASE PostedIn(w) \/ Reap(w)
  BY <1>4, SameMinds, Stays DEF PostedIn, Reap, procs
<1>5. CASE ReaperFails(w)
  BY <1>5, SameMinds, Stays DEF ReaperFails
<1>6. CASE Stop(w)
  BY <1>6, SameMinds, Moves DEF Stop, Hands, Place
<1>. QED
  BY <1>1, <1>2, <1>3, <1>4, <1>5, <1>6

LEMMA ProcessMemory ==
  ASSUME TypeOK, Hands, Minds, Issued \subseteq Issued', NEW p \in Process,
         Beat(p) \/ Answer(p) \/ Report(p) \/ Fail(p) \/ Crash(p)
  PROVE  Hands' /\ Minds'
<1>1. CASE Beat(p)
  BY <1>1, SameMinds, Stays DEF Beat
<1>2. CASE Answer(p)
  BY <1>2, SameMinds, Moves DEF Answer, Hands, Place
<1>3. CASE Report(p)
  BY <1>3, ReportMemory
<1>4. CASE Fail(p)
  BY <1>4, SameMinds, Moves DEF Fail, Errs, LetGo, Hands, Place
<1>5. CASE Crash(p)
  <2>1. Minds'
    BY <1>5 DEF Crash, Minds, RunOK
  <2>2. \E x \in {"down", "failed"} : Become(p, x)
    BY <1>5 DEF Crash
  <2>. QED
    BY <1>5, <2>1, <2>2, Moves DEF Crash, LetGo, Hands, Place
<1>. QED
  BY <1>1, <1>2, <1>3, <1>4, <1>5

LEMMA SecondMemory ==
  ASSUME Hands, Minds, Issued \subseteq Issued', Second
  PROVE  Hands' /\ Minds'
<1>1. Hands'
  BY Stays DEF Second
<1>2. ASSUME NEW c \in Cli PROVE RunOK(run'[c])
  <2>1. /\ DOMAIN run'[c] = DOMAIN run[c]
        /\ \A f \in RunField \ {"wake", "retry_at"} : run'[c][f] = run[c][f]
    BY <1>2 DEF Second, Minds, RunOK
  <2>. QED
    BY <1>2, <2>1 DEF Minds, RunOK, RunField
<1>3. DOMAIN run' = Cli /\ picked' = picked
  BY DEF Second
<1>. QED
  BY <1>1, <1>2, <1>3 DEF Minds

LEMMA NextMemory ==
  ASSUME TypeOK, Memory, [WorkersNext]_all
  PROVE  Memory'
<1>1. Hands /\ Minds
  BY MemoryParts
<1>2. Issued \subseteq Issued'
  BY WorkersStep, AttemptsStay DEF StoreStep
<1>3. ASSUME UNCHANGED all PROVE Hands' /\ Minds'
  BY <1>1, <1>2, <1>3, Stays, SameMinds DEF all, procs
<1>4. ASSUME WorkersNext PROVE Hands' /\ Minds'
  BY <1>1, <1>2, <1>4, CliMemory, ServerMemory, ProcessMemory, SecondMemory
  DEF WorkersNext
<1>. QED
  BY <1>3, <1>4 DEF Memory, Hands, Minds

LEMMA InitMemory == WorkersInit => Memory
<1>. SUFFICES ASSUME WorkersInit PROVE Memory
  OBVIOUS
<1>1. RunOK(NewRun({}))
  BY DEF RunOK, RunField, NewRun
<1>. QED
  BY <1>1 DEF WorkersInit, Memory, Place

-----------------------------------------------------------------------------
\* Whatever the processes do, fail to do or leave behind, the tables take only
\* the steps CompileStore describes, whose callers may do anything.
THEOREM ProcessesKeepTheStore == WorkersSpec => StoreIsKept
<1>1. WorkersInit => Init /\ TypeOK /\ Memory
  BY InitType, InitMemory DEF WorkersInit
<1>2. TypeOK /\ Memory /\ [WorkersNext]_all => (TypeOK /\ Memory)'
  BY WorkersStep, NextType, NextMemory
<1>3. TypeOK /\ Memory /\ [WorkersNext]_all => [Next]_vars
  BY WorkersStep
<1>. QED
  BY <1>1, <1>2, <1>3, PTL DEF WorkersSpec, StoreIsKept, Spec

\* Among real workers and runs too, a lease is owned by the attempt whose
\* token its task names, and by no other.
THEOREM WorkersOwnTheirLeases == WorkersSpec => []LeaseOwnership
BY ProcessesKeepTheStore, LeasesAreOwned, PTL DEF StoreIsKept

\* ... and no open task is left without a retry, however many processes die.
THEOREM WorkersStrandNoTask == WorkersSpec => []OpenTasksHaveRetriesLeft
BY ProcessesKeepTheStore, NoTaskIsStranded, PTL DEF StoreIsKept

\* ... and what the tables remember holds among them too: no process reopens a
\* terminal task, rewrites an outcome, publishes over a newer claim, spends what
\* no ledger holds or leaves the planes of an entity out of order.
THEOREM WorkersKeepHistory ==
  WorkersSpec => /\ TerminalUntilNewEpoch /\ OutcomesAreFinal
                 /\ PublishIsFenced /\ RevisionsNeverRegress
                 /\ ClaimsAreCharged
                 /\ []PlanesAreOrdered /\ []HeadsNameTheirTask
                 /\ []OneAcceptancePerEpoch /\ []LedgersAgree
BY ProcessesKeepTheStore, TerminalTasksStayTerminal, OutcomesStayFinal,
   PublicationsStayFenced, RevisionsNeverGoBack, ClaimsAreAlwaysCharged,
   PlanesStayOrdered, HeadsAlwaysNameTheirTask, EpochsAreAcceptedOnce,
   LedgersAlwaysAgree, PTL
   DEF StoreIsKept

-----------------------------------------------------------------------------
(* What a run counts.  A record is balanced when every scanned entity but  *)
(* `open` of them is counted as something or queued.                        *)

StatsOK(r) ==
  /\ r.stats \in [Counter -> Nat]
  /\ IsFiniteSet(r.queued)

Balanced(r, open) ==
  r.stats.scanned = r.stats.skipped + r.stats.failed + r.stats.quarantined
                      + r.stats.deferred + r.stats.accepted
                      + (Cardinality(r.queued) + open)

\* Only the counters and the queue matter.
LEMMA SameBalance ==
  ASSUME NEW r, NEW q, q.stats = r.stats, q.queued = r.queued,
         NEW n, StatsOK(r), Balanced(r, n)
  PROVE  StatsOK(q) /\ Balanced(q, n)
BY DEF StatsOK, Balanced

LEMMA CountFields ==
  ASSUME NEW r, DOMAIN r = RunField, StatsOK(r), NEW n \in Counter
  PROVE  /\ DOMAIN Count(r, n) = RunField
         /\ Count(r, n).queued = r.queued
         /\ \A f \in RunField \ {"stats"} : Count(r, n)[f] = r[f]
         /\ Count(r, n).stats \in [Counter -> Nat]
         /\ Count(r, n).stats[n] = r.stats[n] + 1
         /\ \A m \in Counter \ {n} : Count(r, n).stats[m] = r.stats[m]
         /\ StatsOK(Count(r, n))
BY DEF Count, RunField, StatsOK

\* The one that is open is counted as what it became.
LEMMA CountClosed ==
  ASSUME NEW r, DOMAIN r = RunField, StatsOK(r), Balanced(r, 1),
         NEW n \in Counter \ {"scanned"}
  PROVE  Balanced(Count(r, n), 0)
<1>. DEFINE s == r.stats
            u == Count(r, n).stats
<1>1. /\ \A m \in Counter : s[m] \in Nat
      /\ u[n] = s[n] + 1 /\ \A m \in Counter \ {n} : u[m] = s[m]
      /\ Count(r, n).queued = r.queued
  BY CountFields DEF StatsOK
<1>2. /\ s.scanned \in Nat /\ s.skipped \in Nat /\ s.failed \in Nat
      /\ s.quarantined \in Nat /\ s.deferred \in Nat /\ s.accepted \in Nat
  BY <1>1 DEF Counter
<1>3. Cardinality(r.queued) \in Nat
  BY FS_CardinalityType DEF StatsOK
<1>4. /\ u.scanned = s.scanned
      /\ u.skipped = IF n = "skipped" THEN s.skipped + 1 ELSE s.skipped
      /\ u.failed = IF n = "failed" THEN s.failed + 1 ELSE s.failed
      /\ u.quarantined =
           IF n = "quarantined" THEN s.quarantined + 1 ELSE s.quarantined
      /\ u.deferred = IF n = "deferred" THEN s.deferred + 1 ELSE s.deferred
      /\ u.accepted = IF n = "accepted" THEN s.accepted + 1 ELSE s.accepted
  BY <1>1 DEF Counter
<1>5. s.scanned = s.skipped + s.failed + s.quarantined + s.deferred
                    + s.accepted + (Cardinality(r.queued) + 1)
  BY DEF Balanced
<1>6. n \in {"skipped", "failed", "quarantined", "deferred", "accepted"}
  BY DEF Counter
<1>. HIDE DEF s, u
<1>7. u.scanned = u.skipped + u.failed + u.quarantined + u.deferred
                    + u.accepted + (Cardinality(r.queued) + 0)
  BY <1>2, <1>3, <1>4, <1>5, <1>6
<1>. QED
  BY <1>1, <1>7 DEF Balanced, u

\* A record more is scanned, and open.
LEMMA CountScanned ==
  ASSUME NEW r, DOMAIN r = RunField, StatsOK(r), Balanced(r, 0)
  PROVE  Balanced(Count(r, "scanned"), 1)
<1>. DEFINE s == r.stats
            u == Count(r, "scanned").stats
<1>1. /\ \A m \in Counter : s[m] \in Nat
      /\ u.scanned = s.scanned + 1
      /\ \A m \in Counter \ {"scanned"} : u[m] = s[m]
      /\ Count(r, "scanned").queued = r.queued
  BY CountFields DEF StatsOK, Counter
<1>2. /\ s.scanned \in Nat /\ s.skipped \in Nat /\ s.failed \in Nat
      /\ s.quarantined \in Nat /\ s.deferred \in Nat /\ s.accepted \in Nat
  BY <1>1 DEF Counter
<1>3. Cardinality(r.queued) \in Nat
  BY FS_CardinalityType DEF StatsOK
<1>4. /\ u.skipped = s.skipped /\ u.failed = s.failed
      /\ u.quarantined = s.quarantined /\ u.deferred = s.deferred
      /\ u.accepted = s.accepted
  BY <1>1 DEF Counter
<1>5. s.scanned = s.skipped + s.failed + s.quarantined + s.deferred
                    + s.accepted + (Cardinality(r.queued) + 0)
  BY DEF Balanced
<1>6. u.scanned = s.scanned + 1
  BY <1>1
<1>. HIDE DEF s, u
<1>7. u.scanned = u.skipped + u.failed + u.quarantined + u.deferred
                    + u.accepted + (Cardinality(r.queued) + 1)
  BY <1>2, <1>3, <1>4, <1>5, <1>6
<1>. QED
  BY <1>1, <1>7 DEF Balanced, u

\* The one that is open is queued.
LEMMA QueueOpen ==
  ASSUME NEW r, StatsOK(r), Balanced(r, 1), NEW k, k \notin r.queued,
         NEW q, q.stats = r.stats, q.queued = r.queued \cup {k}
  PROVE  StatsOK(q) /\ Balanced(q, 0)
<1>1. /\ IsFiniteSet(r.queued \cup {k})
      /\ Cardinality(r.queued \cup {k}) = Cardinality(r.queued) + 1
      /\ Cardinality(r.queued) \in Nat
  BY FS_AddElement, FS_CardinalityType DEF StatsOK
<1>2. Cardinality(q.queued) + 0 = Cardinality(r.queued) + 1
  BY <1>1
<1>. QED
  BY <1>1, <1>2 DEF StatsOK, Balanced

\* One is taken from the queue, and open.
LEMMA TakeQueued ==
  ASSUME NEW r, StatsOK(r), Balanced(r, 0), NEW k \in r.queued,
         NEW q, q.stats = r.stats, q.queued = r.queued \ {k}
  PROVE  StatsOK(q) /\ Balanced(q, 1)
<1>1. /\ IsFiniteSet(r.queued \ {k})
      /\ Cardinality(r.queued \ {k}) = Cardinality(r.queued) - 1
      /\ Cardinality(r.queued) \in Nat
  BY FS_RemoveElement, FS_CardinalityType DEF StatsOK
<1>2. Cardinality(q.queued) + 1 = Cardinality(r.queued) + 0
  BY <1>1
<1>. QED
  BY <1>1, <1>2 DEF StatsOK, Balanced

\* What is left in the queue is given up.
LEMMA DeferQueued ==
  ASSUME NEW r, DOMAIN r = RunField, StatsOK(r), Balanced(r, 0),
         NEW q, q.queued = {},
         q.stats = [r.stats EXCEPT !.deferred =
                      r.stats.deferred + Cardinality(r.queued)]
  PROVE  StatsOK(q) /\ Balanced(q, 0)
<1>. DEFINE s == r.stats
            u == q.stats
<1>1. Cardinality(r.queued) \in Nat
  BY FS_CardinalityType DEF StatsOK
<1>2. /\ s.scanned \in Nat /\ s.skipped \in Nat /\ s.failed \in Nat
      /\ s.quarantined \in Nat /\ s.deferred \in Nat /\ s.accepted \in Nat
  BY DEF StatsOK, Counter
<1>3. /\ u.scanned = s.scanned /\ u.skipped = s.skipped
      /\ u.failed = s.failed /\ u.quarantined = s.quarantined
      /\ u.deferred = s.deferred + Cardinality(r.queued)
      /\ u.accepted = s.accepted
      /\ u \in [Counter -> Nat]
  BY <1>1, <1>2 DEF StatsOK, Counter
<1>4. IsFiniteSet({}) /\ Cardinality({}) = 0
  BY FS_EmptySet
<1>5. s.scanned = s.skipped + s.failed + s.quarantined + s.deferred
                    + s.accepted + (Cardinality(r.queued) + 0)
  BY DEF Balanced
<1>. HIDE DEF s, u
<1>6. u.scanned = u.skipped + u.failed + u.quarantined + u.deferred
                    + u.accepted + (0 + 0)
  BY <1>1, <1>2, <1>3, <1>5
<1>. QED
  BY <1>3, <1>4, <1>6 DEF StatsOK, Balanced, u
-----------------------------------------------------------------------------
(* What the processes know of themselves: whoever is with the model or     *)
(* about to report has a lease in hand, and nobody else has one, a         *)
(* heartbeat or an answer.                                                 *)

Ranges ==
  /\ DOMAIN beat = Process /\ DOMAIN answer = Process
  /\ reaping \in [Process -> BOOLEAN]
  /\ halts \in 0..MaxHalts /\ errors \in 0..MaxErrors

Fit(p) ==
  /\ holds[p] # Null => at[p] \in {"compile", "report"}
  /\ beat[p] # Null => beat[p] \in 0..BeatEvery /\ at[p] = "compile"
  /\ answer[p] # Null <=> at[p] = "report"
  /\ picked[p] \subseteq DOMAIN task

AllFit == Ranges /\ \A p \in Process : Fit(p)

\* Rows and leases stay, and no lease is NULL.
Grown ==
  /\ DOMAIN task \subseteq DOMAIN task'
  /\ Issued \subseteq Issued'
  /\ Null \notin Issued /\ Null \notin Issued'

LEMMA TablesGrow ==
  ASSUME TypeOK, FencingInv, Memory, [WorkersNext]_all, TypeOK'
  PROVE  Grown
<1>1. [Next]_vars
  BY WorkersStep
<1>2. Issued \subseteq Issued'
  BY <1>1, AttemptsStay DEF StoreStep
<1>3. DOMAIN task \subseteq DOMAIN task'
  BY <1>1, StepWork, AdmittedRows DEF TasksAreWorked
<1>4. Null \notin Issued /\ Null \notin Issued'
  BY TokenAssumption DEF TypeOK, IsTable, Issued
<1>. QED
  BY <1>2, <1>3, <1>4 DEF Grown

\* A step of p alone.
Others(p) ==
  \A q \in Process \ {p} :
    /\ at'[q] = at[q] /\ holds'[q] = holds[q] /\ answer'[q] = answer[q]
    /\ beat'[q] = beat[q] /\ picked'[q] = picked[q]

LEMMA OthersStayFit ==
  ASSUME AllFit, Grown, NEW p \in Process, Others(p), Fit(p)', Ranges'
  PROVE  AllFit'
<1>1. ASSUME NEW q \in Process \ {p} PROVE Fit(q)'
  BY DEF AllFit, Others, Fit, Grown
<1>. QED
  BY <1>1 DEF AllFit

\* Nothing of p but its place changes, and it has nothing in hand.
LEMMA IdleFit ==
  ASSUME Memory, AllFit, Grown, NEW p \in Process, NEW x \in Place,
         x \notin {"compile", "report"},
         at[p] \notin {"compile", "report"}, Become(p, x),
         UNCHANGED <<holds, answer, beat, picked>>, Ranges'
  PROVE  AllFit'
<1>1. Others(p)
  BY DEF Others, Become, Memory
<1>2. at'[p] = x
  BY DEF Become, Memory
<1>3. Fit(p)'
  BY <1>2 DEF Fit, AllFit, Grown
<1>. QED
  BY <1>1, <1>3, OthersStayFit

LEMMA SameFit ==
  ASSUME AllFit, Grown, UNCHANGED <<at, holds, answer, beat, picked>>, Ranges'
  PROVE  AllFit'
BY DEF AllFit, Fit, Grown

LEMMA RangesStay ==
  ASSUME Ranges, UNCHANGED <<beat, answer, reaping, halts, errors>>
  PROVE  Ranges'
BY DEF Ranges

\* Whoever lets go of its lease has nothing in hand.
LEMMA LetGoFit ==
  ASSUME Memory, AllFit, Grown, NEW p \in Process, NEW x \in Place,
         x \notin {"compile", "report"}, Become(p, x), LetGo(p),
         \/ UNCHANGED picked
         \/ picked' = [picked EXCEPT ![p] = {}],
         reaping' \in [Process -> BOOLEAN], halts' \in 0..MaxHalts,
         errors' \in 0..MaxErrors
  PROVE  AllFit'
<1>1. /\ DOMAIN answer = Process /\ DOMAIN beat = Process
      /\ DOMAIN holds = Process /\ DOMAIN picked = Process
      /\ DOMAIN at = Process
  BY DEF Memory, AllFit, Ranges
<1>2. Others(p)
  BY <1>1 DEF Others, Become, LetGo
<1>3. /\ at'[p] = x /\ holds'[p] = Null /\ answer'[p] = Null
      /\ beat'[p] = Null /\ picked'[p] \subseteq picked[p]
  BY <1>1 DEF Become, LetGo
<1>4. Fit(p)'
  BY <1>3 DEF Fit, AllFit, Grown
<1>5. Ranges'
  BY <1>1 DEF LetGo, Ranges
<1>. QED
  BY <1>2, <1>4, <1>5, OthersStayFit

\* Whoever begins has a lease, a heartbeat and no answer yet.
LEMMA BeginFit ==
  ASSUME Memory, AllFit, Grown, NEW p \in Process, Begin(p),
         at[p] = "claim", UNCHANGED <<answer, reaping, halts, errors>>,
         \/ UNCHANGED picked
         \/ picked' = [picked EXCEPT ![p] = {}]
  PROVE  AllFit'
<1>1. /\ DOMAIN beat = Process /\ DOMAIN holds = Process
      /\ DOMAIN picked = Process /\ DOMAIN at = Process
  BY DEF Memory, AllFit, Ranges
<1>2. Others(p)
  BY <1>1 DEF Others, Become, Begin
<1>3. /\ at'[p] = "compile" /\ beat'[p] = BeatEvery
      /\ picked'[p] \subseteq picked[p]
  BY <1>1 DEF Become, Begin
<1>4. BeatEvery \in Nat
  BY WorkersAssumption DEF BeatEvery
<1>5. BeatEvery \in 0..BeatEvery
  BY <1>4
<1>6. Fit(p)'
  BY <1>3, <1>5 DEF Fit, AllFit, Grown
<1>7. Ranges'
  BY <1>1 DEF Begin, AllFit, Ranges
<1>. QED
  BY <1>2, <1>6, <1>7, OthersStayFit

-----------------------------------------------------------------------------
(* ... action by action.                                                   *)

LEMMA CliFit ==
  ASSUME Memory, AllFit, Grown, NEW c \in Cli,
         \/ StartRun(c) \/ Offered(c) \/ BatchEnds(c) \/ ClaimQueued(c)
         \/ Decide(c) \/ Wake(c)
  PROVE  AllFit'
<1>. c \in Process /\ RunOK(run[c])
  BY DEF Process, Memory
<1>1. CASE StartRun(c)
  BY <1>1, RangesStay, IdleFit DEF StartRun, AllFit, Place
<1>2. CASE Offered(c)
  BY <1>2, RangesStay, SameFit DEF Offered, AllFit
<1>3. CASE BatchEnds(c)
  <2>1. PICK x \in {"claim", "admit", "done"} : Become(c, x)
    BY <1>3, ResumeWhere DEF BatchEnds
  <2>. QED
    BY <1>3, <2>1, RangesStay, IdleFit DEF BatchEnds, AllFit, Place
<1>4. CASE ClaimQueued(c)
  <2>1. CASE Begin(c)
    BY <1>4, <2>1, BeginFit DEF ClaimQueued
  <2>2. CASE Become(c, "decide") /\ UNCHANGED <<holds, beat>>
    BY <1>4, <2>2, RangesStay, IdleFit DEF ClaimQueued, AllFit, Place
  <2>. QED
    BY <1>4, <2>1, <2>2 DEF ClaimQueued
<1>5. CASE Decide(c)
  <2>1. PICK x \in {"sleep", "done"} : Become(c, x)
    BY <1>5 DEF Decide, OpenCircuit
  <2>. QED
    BY <1>5, <2>1, RangesStay, IdleFit DEF Decide, AllFit, Place
<1>6. CASE Wake(c)
  BY <1>6, RangesStay, IdleFit DEF Wake, AllFit, Place
<1>. QED
  BY <1>1, <1>2, <1>3, <1>4, <1>5, <1>6

LEMMA ServerFit ==
  ASSUME Memory, AllFit, Grown, NEW w \in Server,
         \/ StartServer(w) \/ List(w) \/ ClaimPicked(w) \/ PostedIn(w)
         \/ Reap(w) \/ ReaperFails(w) \/ Stop(w)
  PROVE  AllFit'
<1>. w \in Process /\ Ranges /\ DOMAIN picked = Process
  BY DEF Process, AllFit, Memory
<1>1. CASE StartServer(w)
  <2>1. Ranges'
    BY <1>1 DEF StartServer, Ranges
  <2>. QED
    BY <1>1, <2>1, IdleFit DEF StartServer, Place
<1>2. CASE List(w)
  <2>1. Others(w)
    BY <1>2 DEF List, Others, Become, Memory
  <2>2. /\ at'[w] = "claim" /\ picked'[w] = FirstDue
        /\ UNCHANGED <<holds, answer, beat>>
    BY <1>2 DEF List, Become, Memory
  <2>3. FirstDue \subseteq DOMAIN task /\ at[w] = "poll"
    BY <1>2 DEF FirstDue, List
  <2>4. Fit(w)'
    BY <2>2, <2>3 DEF Fit, AllFit, Grown
  <2>5. Ranges'
    BY <1>2, RangesStay DEF List
  <2>. QED
    BY <2>1, <2>4, <2>5, OthersStayFit
<1>3. CASE ClaimPicked(w)
  <2>1. CASE Begin(w)
    BY <1>3, <2>1, BeginFit DEF ClaimPicked
  <2>2. CASE Become(w, "poll") /\ UNCHANGED <<holds, beat>>
    <3>1. Others(w)
      BY <1>3, <2>2 DEF ClaimPicked, Others, Become, Memory
    <3>2. /\ at'[w] = "poll" /\ picked'[w] = {} /\ at[w] = "claim"
          /\ UNCHANGED <<holds, answer, beat>>
      BY <1>3, <2>2 DEF ClaimPicked, Become, Memory
    <3>3. Fit(w)'
      BY <3>2 DEF Fit, AllFit, Grown
    <3>4. Ranges'
      BY <1>3, <2>2, RangesStay DEF ClaimPicked
    <3>. QED
      BY <3>1, <3>3, <3>4, OthersStayFit
  <2>. QED
    BY <1>3, <2>1, <2>2 DEF ClaimPicked
<1>4. CASE PostedIn(w) \/ Reap(w)
  BY <1>4, RangesStay, SameFit DEF PostedIn, Reap, procs
<1>5. CASE ReaperFails(w)
  <2>1. errors + 1 \in 0..MaxErrors
    BY <1>5, WorkersAssumption DEF ReaperFails, Ranges
  <2>2. Ranges'
    BY <1>5, <2>1 DEF ReaperFails, Ranges
  <2>. QED
    BY <1>5, <2>2, SameFit DEF ReaperFails
<1>6. CASE Stop(w)
  <2>1. halts + 1 \in 0..MaxHalts
    BY <1>6, WorkersAssumption DEF Stop, Ranges
  <2>2. Ranges'
    BY <1>6, <2>1 DEF Stop, Ranges
  <2>. QED
    BY <1>6, <2>2, IdleFit DEF Stop, Place
<1>. QED
  BY <1>1, <1>2, <1>3, <1>4, <1>5, <1>6

LEMMA ReportPlace ==
  ASSUME Memory, NEW p \in Process, Report(p)
  PROVE  \E x \in {"poll", "claim", "admit", "done", "failed"} : Become(p, x)
<1>1. CASE p \in Server
  BY <1>1 DEF Report, ReportPage, ReportFailure, Finalized, RetryLater, Errs
<1>2. CASE p \notin Server
  BY <1>2 DEF Report, ReportPage, ReportFailure, Finalized, RetryLater, Errs,
              Resume
<1>. QED
  BY <1>1, <1>2

LEMMA ProcessFit ==
  ASSUME Memory, AllFit, Grown, NEW p \in Process,
         Beat(p) \/ Answer(p) \/ Report(p) \/ Fail(p) \/ Crash(p)
  PROVE  AllFit'
<1>. Ranges /\ DOMAIN picked = Process /\ DOMAIN at = Process
  BY DEF AllFit, Memory
<1>1. CASE Beat(p)
  <2>1. errors' \in 0..MaxErrors
    BY <1>1, WorkersAssumption DEF Beat, Ranges
  <2>2. Ranges'
    BY <1>1, <2>1 DEF Beat, Ranges
  <2>3. Others(p)
    BY <1>1 DEF Beat, Others, Ranges
  <2>4. BeatEvery \in 0..BeatEvery
    BY WorkersAssumption DEF BeatEvery
  <2>5. /\ at'[p] = "compile" /\ beat'[p] \in {BeatEvery, Null}
        /\ UNCHANGED <<at, holds, answer, picked>>
    BY <1>1 DEF Beat, Ranges
  <2>6. Fit(p)'
    BY <2>4, <2>5 DEF Fit, AllFit, Grown
  <2>. QED
    BY <2>2, <2>3, <2>6, OthersStayFit
<1>2. CASE Answer(p)
  <2>1. Ranges'
    BY <1>2 DEF Answer, Ranges
  <2>2. Others(p)
    BY <1>2 DEF Answer, Others, Become, Ranges
  <2>3. /\ at'[p] = "report" /\ beat'[p] = Null /\ answer'[p] \in Verdict
        /\ UNCHANGED <<holds, picked>>
    BY <1>2 DEF Answer, Become, Ranges
  <2>4. answer'[p] # Null
    BY <2>3, WorkersAssumption
  <2>5. Fit(p)'
    BY <2>3, <2>4 DEF Fit, AllFit, Grown
  <2>. QED
    BY <2>1, <2>2, <2>5, OthersStayFit
<1>3. CASE Report(p)
  <2>1. PICK x \in {"poll", "claim", "admit", "done", "failed"} : Become(p, x)
    BY <1>3, ReportPlace
  <2>. QED
    BY <1>3, <2>1, LetGoFit DEF Report, Place, Ranges
<1>4. CASE Fail(p)
  BY <1>4, LetGoFit DEF Fail, Errs, Place, Ranges
<1>5. CASE Crash(p)
  <2>1. halts + 1 \in 0..MaxHalts
    BY <1>5, WorkersAssumption DEF Crash, Ranges
  <2>2. PICK x \in {"down", "failed"} : Become(p, x)
    BY <1>5 DEF Crash
  <2>3. /\ reaping' \in [Process -> BOOLEAN] /\ halts' \in 0..MaxHalts
        /\ errors' \in 0..MaxErrors
    BY <1>5, <2>1 DEF Crash, Ranges
  <2>. QED
    BY <1>5, <2>2, <2>3, LetGoFit DEF Crash, Place
<1>. QED
  BY <1>1, <1>2, <1>3, <1>4, <1>5

LEMMA SecondFit ==
  ASSUME Memory, AllFit, Grown, Second
  PROVE  AllFit'
<1>1. Ranges'
  BY DEF Second, AllFit, Ranges
<1>2. ASSUME NEW p \in Process PROVE Fit(p)'
  <2>1. beat'[p] = IF beat[p] \in {Null, 0} THEN beat[p] ELSE beat[p] - 1
    BY DEF Second
  <2>2. UNCHANGED <<at, holds, answer, picked>>
    BY DEF Second
  <2>3. BeatEvery \in Nat
    BY WorkersAssumption DEF BeatEvery
  <2>4. beat'[p] # Null => beat[p] # Null
    BY <2>1
  <2>5. beat[p] \in 0..BeatEvery /\ beat[p] # 0 =>
          beat[p] - 1 \in 0..BeatEvery
    BY <2>3
  <2>. QED
    BY <2>1, <2>2, <2>4, <2>5 DEF Fit, AllFit, Grown
<1>. QED
  BY <1>1, <1>2 DEF AllFit

LEMMA NextFit ==
  ASSUME Memory, AllFit, Grown, [WorkersNext]_all
  PROVE  AllFit'
<1>1. ASSUME UNCHANGED all PROVE AllFit'
  BY <1>1, RangesStay, SameFit DEF all, procs, AllFit
<1>. QED
  BY <1>1, CliFit, ServerFit, ProcessFit, SecondFit DEF WorkersNext

LEMMA InitFit == WorkersInit => AllFit
BY WorkersAssumption DEF WorkersInit, AllFit, Ranges, Fit
-----------------------------------------------------------------------------
\* A process acts alone: a step of one leaves the places, the leases and the
\* plans of the others as they are.
LEMMA CliAlone ==
  ASSUME Memory, AllFit, NEW c \in Cli,
         \/ StartRun(c) \/ Offered(c) \/ BatchEnds(c) \/ ClaimQueued(c)
         \/ Decide(c) \/ Wake(c)
  PROVE  Others(c) /\ \A d \in Cli \ {c} : run'[d] = run[d]
<1>1. /\ DOMAIN at = Process /\ DOMAIN holds = Process /\ DOMAIN run = Cli
      /\ DOMAIN beat = Process
  BY DEF Memory, AllFit, Ranges
<1>2. CASE StartRun(c) \/ Offered(c) \/ Decide(c) \/ Wake(c)
  BY <1>1, <1>2 DEF StartRun, Offered, Decide, Wake, OpenCircuit, Others,
                    Become, SetRun
<1>3. CASE BatchEnds(c)
  BY <1>1, <1>3 DEF BatchEnds, Resume, Others, Become, SetRun
<1>4. CASE ClaimQueued(c)
  BY <1>1, <1>4 DEF ClaimQueued, Begin, Others, Become, SetRun
<1>. QED
  BY <1>2, <1>3, <1>4

LEMMA ServerAlone ==
  ASSUME Memory, AllFit, NEW w \in Server,
         \/ StartServer(w) \/ List(w) \/ ClaimPicked(w) \/ PostedIn(w)
         \/ Reap(w) \/ ReaperFails(w) \/ Stop(w)
  PROVE  Others(w) /\ run' = run
<1>1. /\ DOMAIN at = Process /\ DOMAIN holds = Process
      /\ DOMAIN beat = Process /\ DOMAIN picked = Process
  BY DEF Memory, AllFit, Ranges
<1>2. CASE StartServer(w) \/ List(w) \/ ReaperFails(w) \/ Stop(w)
  BY <1>1, <1>2 DEF StartServer, List, ReaperFails, Stop, Become, Others
<1>3. CASE ClaimPicked(w)
  BY <1>1, <1>3 DEF ClaimPicked, Begin, Become, Others
<1>4. CASE PostedIn(w) \/ Reap(w)
  BY <1>4 DEF PostedIn, Reap, procs, Others
<1>. QED
  BY <1>2, <1>3, <1>4

LEMMA ProcessAlone ==
  ASSUME Memory, AllFit, NEW p \in Process,
         Beat(p) \/ Answer(p) \/ Report(p) \/ Fail(p) \/ Crash(p)
  PROVE  Others(p) /\ \A d \in Cli \ {p} : run'[d] = run[d]
<1>1. /\ DOMAIN at = Process /\ DOMAIN holds = Process /\ DOMAIN run = Cli
      /\ DOMAIN answer = Process /\ DOMAIN beat = Process
      /\ DOMAIN picked = Process
  BY DEF Memory, AllFit, Ranges
<1>2. CASE Beat(p) \/ Answer(p)
  BY <1>1, <1>2 DEF Beat, Answer, Others, Become
<1>3. CASE Report(p)
  <2>1. Others(p)
    BY <1>1, <1>3, ReportPlace DEF Report, LetGo, Others, Become
  <2>2. \A d \in Cli \ {p} : run'[d] = run[d]
    BY <1>1, <1>3 DEF Report, ReportPage, ReportFailure, Finalized,
                      RetryLater, Errs, Resume, SetRun
  <2>. QED
    BY <2>1, <2>2
<1>4. CASE Fail(p) \/ Crash(p)
  BY <1>1, <1>4 DEF Fail, Crash, Errs, LetGo, Others, Become
<1>. QED
  BY <1>2, <1>3, <1>4

-----------------------------------------------------------------------------
(* The accounts of the runs.                                               *)

RunShape(r, keys) ==
  /\ r.queued \subseteq keys
  /\ \A k \in r.queued : k.entity \in r.seen
  /\ r.waits \in 0..MaxWait /\ r.wake \in 0..MaxWait
  /\ r.room \in 0..BatchSize
  /\ \A k \in DOMAIN r.retry_at : r.retry_at[k] \in Nat
  /\ StatsOK(r)

InFlight(c) == IF at[c] \in {"compile", "report"} THEN 1 ELSE 0

\* A run that has not failed accounts for all it has scanned, and the task it
\* has in hand is not in its queue as well.
Accounts(c) ==
  /\ RunShape(run[c], DOMAIN task)
  /\ at[c] # "failed" => Balanced(run[c], InFlight(c))
  /\ at[c] \in {"compile", "report"} =>
       /\ holds[c].task \notin run[c].queued
       /\ holds[c].task.entity \in run[c].seen

AllAccounts == \A c \in Cli : Accounts(c)

LEMMA AccountsStay ==
  ASSUME Grown, NEW c \in Cli, Accounts(c), at'[c] = at[c],
         holds'[c] = holds[c], run'[c] = run[c]
  PROVE  Accounts(c)'
BY DEF Grown, Accounts, RunShape, InFlight

\* A run that moves on with nothing in hand.
LEMMA AccountsMove ==
  ASSUME NEW c \in Cli, at'[c] \notin {"compile", "report"},
         RunShape(run'[c], DOMAIN task'),
         at'[c] # "failed" => Balanced(run'[c], 0)
  PROVE  Accounts(c)'
BY DEF Accounts, InFlight

\* A step of one process: its own accounts are all there is to look at.
LEMMA OthersAccounts ==
  ASSUME Memory, AllAccounts, Grown, NEW p \in Process, Others(p),
         \A d \in Cli \ {p} : run'[d] = run[d],
         p \in Cli => Accounts(p)'
  PROVE  AllAccounts'
<1>1. ASSUME NEW d \in Cli, d # p PROVE Accounts(d)'
  BY <1>1, AccountsStay DEF AllAccounts, Others, Process
<1>. QED
  BY <1>1 DEF AllAccounts

LEMMA ResumeAccounts ==
  ASSUME Memory, NEW c \in Cli, NEW r, DOMAIN r = RunField,
         RunShape(r, DOMAIN task'), Balanced(r, 0), Resume(c, r)
  PROVE  Accounts(c)'
<1>. DEFINE q == [r EXCEPT !.room = BatchSize, !.retry_at = EmptyTable]
<1>1. at'[c] \in {"claim", "admit", "done"}
  BY DEF Resume, Become, Memory, Process
<1>2. run'[c] = r \/ run'[c] = q
  BY DEF Resume, SetRun, Memory
<1>3. RunShape(q, DOMAIN task') /\ Balanced(q, 0)
  <2>1. /\ q.stats = r.stats /\ q.queued = r.queued /\ q.seen = r.seen
        /\ q.waits = r.waits /\ q.wake = r.wake
        /\ q.room = BatchSize /\ q.retry_at = EmptyTable
    BY DEF RunField
  <2>2. \A k \in DOMAIN q.retry_at : q.retry_at[k] \in Nat
    BY <2>1 DEF EmptyTable
  <2>3. q.room \in 0..BatchSize
    BY <2>1, WorkersAssumption
  <2>. HIDE DEF q
  <2>. QED
    BY <2>1, <2>2, <2>3 DEF RunShape, StatsOK, Balanced
<1>. HIDE DEF q
<1>. QED
  BY <1>1, <1>2, <1>3, AccountsMove

\* Counting leaves the rest of a record as it is.
LEMMA CountShape ==
  ASSUME NEW r, NEW keys, DOMAIN r = RunField, RunShape(r, keys),
         NEW n \in Counter
  PROVE  RunShape(Count(r, n), keys)
<1>1. StatsOK(r)
  BY DEF RunShape
<1>2. \A f \in {"queued", "seen", "waits", "wake", "room", "retry_at"} :
        Count(r, n)[f] = r[f]
  BY <1>1, CountFields DEF RunField
<1>3. StatsOK(Count(r, n))
  BY <1>1, CountFields
<1>. QED
  BY <1>2, <1>3 DEF RunShape

LEMMA ShapeGrows ==
  ASSUME NEW r, NEW keys, NEW more, keys \subseteq more, RunShape(r, keys)
  PROVE  RunShape(r, more)
BY DEF RunShape

-----------------------------------------------------------------------------
(* ... action by action.                                                   *)

LEMMA StartRunAccounts ==
  ASSUME Memory, NEW c \in Cli, StartRun(c)
  PROVE  Accounts(c)'
<1>1. PICK offers \in Offers : SetRun(c, NewRun(offers))
  BY DEF StartRun
<1>. DEFINE r == NewRun(offers)
<1>2. run'[c] = r /\ at'[c] = "admit"
  BY <1>1 DEF StartRun, SetRun, Become, Memory, Process
<1>3. /\ r.queued = {} /\ r.waits = MaxWait /\ r.wake = 0
      /\ r.room = BatchSize /\ r.retry_at = EmptyTable
      /\ r.stats = [n \in Counter |-> 0]
  BY DEF NewRun
<1>. HIDE DEF r
<1>4. IsFiniteSet({}) /\ Cardinality({}) = 0
  BY FS_EmptySet
<1>5. \A k \in DOMAIN r.retry_at : r.retry_at[k] \in Nat
  BY <1>3 DEF EmptyTable
<1>6. StatsOK(r)
  BY <1>3, <1>4 DEF StatsOK
<1>7. RunShape(r, DOMAIN task')
  BY <1>3, <1>5, <1>6, WorkersAssumption DEF RunShape
<1>8. Balanced(r, 0)
  BY <1>3, <1>4 DEF Balanced, Counter
<1>. QED
  BY <1>2, <1>7, <1>8, AccountsMove

\* A run queues a task only after its key was admitted.
LEMMA QueuedIsAdmitted ==
  ASSUME NEW s \in Source, NEW o, Admit(s, o.config, o.policy, o.force),
         ~Settled(s, o)
  PROVE  KeyOf(s, o.config) \in DOMAIN task'
<1>1. ~UpToDate(s, o.config, o.force)
  BY DEF Settled
<1>2. CASE Merge(s, o.config, o.policy)
           /\ KeyOf(s, o.config) \in DOMAIN task
  BY <1>2 DEF Merge
<1>3. CASE Restart(s, o.config, o.policy)
           /\ KeyOf(s, o.config) \in DOMAIN task
  BY <1>3 DEF Restart
<1>4. CASE InsertTask(KeyOf(s, o.config), NewTask(s, o.config, o.policy))
  BY <1>4 DEF InsertTask, Put
<1>. QED
  BY <1>1, <1>2, <1>3, <1>4 DEF Admit

LEMMA OfferedAccounts ==
  ASSUME Memory, Grown, NEW c \in Cli, Accounts(c), Offered(c)
  PROVE  Accounts(c)'
<1>. DEFINE b(s) == [run[c] EXCEPT !.todo = @ \ {s}, !.room = @ - 1,
                                   !.seen = @ \cup {s.entity}]
            r(s) == Count(b(s), "scanned")
            key(s) == KeyOf(s, Own[c].config)
            more(s) == [r(s) EXCEPT !.queued = @ \cup {key(s)}]
<1>1. PICK s \in run[c].todo :
        \/ \E n \in Counter \ {"scanned"} : SetRun(c, Count(r(s), n))
        \/ /\ SetRun(c, more(s)) /\ ~Settled(s, Own[c])
           /\ s.entity \notin run[c].seen
           /\ Admit(s, Own[c].config, Own[c].policy, Own[c].force)
  BY DEF Offered, Counter
<1>2. s \in Source /\ DOMAIN run[c] = RunField
  BY DEF Memory, RunOK
<1>3. /\ DOMAIN b(s) = RunField
      /\ \A f \in {"queued", "waits", "wake", "retry_at", "stats"} :
           b(s)[f] = run[c][f]
      /\ b(s).seen = run[c].seen \cup {s.entity}
      /\ b(s).room = run[c].room - 1
  BY <1>2 DEF RunField
<1>. HIDE DEF b
<1>4. at[c] = "admit" /\ at'[c] = "admit" /\ run[c].room > 0
  BY DEF Offered
<1>5. RunShape(run[c], DOMAIN task') /\ Balanced(run[c], 0)
  BY <1>4, ShapeGrows DEF Accounts, InFlight, Grown
<1>6. run[c].room - 1 \in 0..BatchSize
  BY <1>4, <1>5, WorkersAssumption DEF RunShape
<1>7. StatsOK(b(s)) /\ Balanced(b(s), 0)
  BY <1>3, <1>5, SameBalance DEF RunShape
<1>8. RunShape(b(s), DOMAIN task')
  BY <1>3, <1>5, <1>6, <1>7 DEF RunShape
<1>9. /\ DOMAIN r(s) = RunField /\ RunShape(r(s), DOMAIN task')
      /\ Balanced(r(s), 1) /\ r(s).queued = run[c].queued
      /\ r(s).seen = run[c].seen \cup {s.entity}
  <2>1. "scanned" \in Counter
    BY DEF Counter
  <2>2. RunShape(r(s), DOMAIN task')
    BY <1>3, <1>8, <2>1, CountShape
  <2>3. Balanced(r(s), 1)
    BY <1>3, <1>7, CountScanned
  <2>4. /\ DOMAIN r(s) = RunField
        /\ r(s).queued = b(s).queued
        /\ \A f \in RunField \ {"stats"} : r(s)[f] = b(s)[f]
    BY <1>3, <1>7, <2>1, CountFields
  <2>. HIDE DEF r
  <2>5. r(s).seen = b(s).seen
    BY <2>4 DEF RunField
  <2>. QED
    BY <1>3, <2>2, <2>3, <2>4, <2>5
<1>. HIDE DEF r
<1>10. ASSUME NEW n \in Counter \ {"scanned"}, SetRun(c, Count(r(s), n))
       PROVE  Accounts(c)'
  <2>1. run'[c] = Count(r(s), n)
    BY <1>10 DEF SetRun, Memory
  <2>2. RunShape(Count(r(s), n), DOMAIN task') /\ Balanced(Count(r(s), n), 0)
    BY <1>9, CountShape, CountClosed DEF RunShape
  <2>. QED
    BY <1>4, <2>1, <2>2, AccountsMove
<1>11. ASSUME SetRun(c, more(s)), ~Settled(s, Own[c]),
              s.entity \notin run[c].seen,
              Admit(s, Own[c].config, Own[c].policy, Own[c].force)
       PROVE  Accounts(c)'
  <2>1. run'[c] = more(s)
    BY <1>11 DEF SetRun, Memory
  <2>2. key(s) \in DOMAIN task'
    BY <1>2, <1>11, QueuedIsAdmitted
  <2>3. key(s).entity = s.entity
    BY DEF KeyOf
  <2>4. key(s) \notin r(s).queued
    BY <1>5, <1>9, <1>11, <2>3 DEF RunShape
  <2>5. /\ more(s).queued = r(s).queued \cup {key(s)}
        /\ \A f \in {"seen", "waits", "wake", "room", "retry_at", "stats"} :
             more(s)[f] = r(s)[f]
    BY <1>9 DEF RunField
  <2>. HIDE DEF more, key
  <2>6. StatsOK(more(s)) /\ Balanced(more(s), 0)
    BY <1>9, <2>4, <2>5, QueueOpen DEF RunShape
  <2>7. RunShape(more(s), DOMAIN task')
    BY <1>9, <2>2, <2>3, <2>5, <2>6 DEF RunShape
  <2>. QED
    BY <1>4, <2>1, <2>6, <2>7, AccountsMove
<1>. QED
  BY <1>1, <1>10, <1>11

\* What a claim hands out: a lease that is new, of a pending task it was asked
\* for, which is now held with it for a whole lease window.
LEMMA NewLeaseFacts ==
  ASSUME TypeOK, FencingInv, NEW ids \in SUBSET TaskKey, NEW r,
         TryClaim(ids, r), Leased
  PROVE  /\ NewLease \notin DOMAIN attempt
         /\ DOMAIN attempt' = DOMAIN attempt \cup {NewLease}
         /\ NewLease.task \in ids \cap DOMAIN task
         /\ task[NewLease.task].status = "pending"
         /\ task[NewLease.task].epoch = NewLease.epoch
         /\ DOMAIN task' = DOMAIN task
         /\ \A j \in DOMAIN task \ {NewLease.task} : task'[j] = task[j]
         /\ task'[NewLease.task].status = "running"
         /\ task'[NewLease.task].epoch = NewLease.epoch
         /\ task'[NewLease.task].token = NewLease
         /\ task'[NewLease.task].expires = LeaseWindow
<1>1. PICK k \in ids : Candidate(ids, k) /\ Lease(k, r)
  BY DEF TryClaim, Leased, Claim, Defer, vars
<1>. DEFINE a == [task |-> k, epoch |-> task[k].epoch,
                  no |-> task[k].attempts + 1]
<1>2. task[k] \in Task /\ k \in DOMAIN task /\ task[k].status = "pending"
  BY <1>1, RowOf DEF Candidate, Due, TypeOK
<1>3. DOMAIN attempt' = DOMAIN attempt \cup {a}
  BY <1>1 DEF Lease, Put
<1>4. NewLease = a /\ a \notin DOMAIN attempt
  BY <1>3 DEF NewLease, Leased
<1>5. /\ DOMAIN task' = DOMAIN task
      /\ \A j \in DOMAIN task \ {k} : task'[j] = task[j]
      /\ task'[k].status = "running" /\ task'[k].epoch = task[k].epoch
      /\ task'[k].token = a /\ task'[k].expires = LeaseWindow
  BY <1>1, <1>2 DEF Lease, Task
<1>6. a.task = k /\ a.epoch = task[k].epoch
  OBVIOUS
<1>. HIDE DEF a
<1>. QED
  BY <1>1, <1>2, <1>3, <1>4, <1>5, <1>6

LEMMA ClaimQueuedAccounts ==
  ASSUME TypeOK, FencingInv, Memory, AllFit, Grown, NEW c \in Cli,
         Accounts(c), ClaimQueued(c)
  PROVE  Accounts(c)'
<1>1. /\ c \in DOMAIN at /\ c \in DOMAIN holds /\ DOMAIN run = Cli
      /\ DOMAIN run[c] = RunField
      /\ run[c].queued \in SUBSET TaskKey
  BY DEF Memory, RunOK, Process
<1>2. RunShape(run[c], DOMAIN task') /\ Balanced(run[c], 0)
  BY ShapeGrows DEF ClaimQueued, Accounts, InFlight, Grown
<1>3. CASE Leased /\ Begin(c)
           /\ SetRun(c, [run[c] EXCEPT !.queued = Without(@, NewLease.task)])
  <2>. DEFINE k == NewLease.task
              q == [run[c] EXCEPT !.queued = Without(@, NewLease.task)]
  <2>1. k \in run[c].queued
    BY <1>1, <1>3, NewLeaseFacts DEF ClaimQueued
  <2>2. /\ q.queued = run[c].queued \ {k}
        /\ \A f \in {"seen", "waits", "wake", "room", "retry_at", "stats"} :
             q[f] = run[c][f]
    BY <1>1 DEF RunField, Without
  <2>3. at'[c] = "compile" /\ holds'[c] = NewLease /\ run'[c] = q
    BY <1>1, <1>3 DEF Begin, Become, SetRun
  <2>. HIDE DEF q
  <2>4. StatsOK(q) /\ Balanced(q, 1)
    BY <1>2, <2>1, <2>2, TakeQueued DEF RunShape
  <2>5. RunShape(q, DOMAIN task')
    BY <1>2, <2>2, <2>4 DEF RunShape
  <2>6. k \notin q.queued /\ k.entity \in q.seen
    BY <1>2, <2>1, <2>2 DEF RunShape
  <2>. QED
    BY <2>3, <2>4, <2>5, <2>6 DEF Accounts, InFlight
<1>4. CASE Become(c, "decide") /\ UNCHANGED <<holds, beat, run>>
  <2>1. at'[c] = "decide" /\ run'[c] = run[c]
    BY <1>1, <1>4 DEF Become
  <2>. QED
    BY <1>2, <2>1, AccountsMove
<1>. QED
  BY <1>3, <1>4 DEF ClaimQueued
\* The least of a set of numbers.
LEMMA LeastNatural ==
  ASSUME NEW T, T \subseteq Nat, T # {}
  PROVE  \E x \in T : \A y \in T : x <= y
<1>. DEFINE R == OpToRel(<, Nat)
<1>1. IsWellFoundedOn(R, Nat)
  BY NatLessThanWellFounded
<1>2. PICK x \in T : \A y \in T : ~(<<y, x>> \in R)
  <2>. HIDE DEF R
  <2>. QED
    BY <1>1, WFMin
<1>3. \A m, n \in Nat : <<m, n>> \in R <=> m < n
  BY DEF OpToRel
<1>. HIDE DEF R
<1>4. ASSUME NEW y \in T PROVE x <= y
  <2>1. x \in Nat /\ y \in Nat /\ ~(y < x)
    BY <1>2, <1>3
  <2>. QED
    BY <2>1
<1>. QED
  BY <1>4

LEMMA EarliestType ==
  ASSUME NEW r, \A k \in DOMAIN r.retry_at : r.retry_at[k] \in Nat
  PROVE  Earliest(r) \in Nat
<1>. DEFINE known == {r.retry_at[k] : k \in r.queued \cap DOMAIN r.retry_at}
<1>1. known \subseteq Nat
  OBVIOUS
<1>. HIDE DEF known
<1>2. CASE known = {}
  BY <1>2 DEF Earliest, known
<1>3. CASE known # {}
  <2>. DEFINE least == CHOOSE t \in known : \A u \in known : t <= u
  <2>1. least \in known
    BY <1>1, <1>3, LeastNatural
  <2>2. Earliest(r) = least
    BY <1>3 DEF Earliest, known
  <2>. HIDE DEF least
  <2>. QED
    BY <1>1, <2>1, <2>2
<1>. QED
  BY <1>2, <1>3

\* A run sleeps no longer than it may still wait; or it gives its queue up.
LEMMA DecideAccounts ==
  ASSUME Memory, Grown, NEW c \in Cli, Accounts(c), Decide(c)
  PROVE  Accounts(c)'
<1>1. c \in DOMAIN at /\ DOMAIN run = Cli /\ DOMAIN run[c] = RunField
  BY DEF Memory, RunOK, Process
<1>2. RunShape(run[c], DOMAIN task') /\ Balanced(run[c], 0)
  BY ShapeGrows DEF Decide, Accounts, InFlight, Grown
<1>3. /\ run[c].waits \in 0..MaxWait /\ MaxWait \in Nat
      /\ Earliest(run[c]) \in Nat
  BY <1>2, EarliestType, WorkersAssumption DEF RunShape
<1>4. CASE /\ Earliest(run[c]) > 0 /\ run[c].waits > 0
           /\ Become(c, "sleep")
           /\ LET nap == Nap(Earliest(run[c]), run[c].waits)
              IN  SetRun(c, [run[c] EXCEPT !.wake = nap, !.waits = @ - nap])
  <2>. DEFINE nap == Nap(Earliest(run[c]), run[c].waits)
              q == [run[c] EXCEPT !.wake = nap, !.waits = @ - nap]
  <2>1. nap \in 0..MaxWait /\ run[c].waits - nap \in 0..MaxWait
    BY <1>3, <1>4 DEF Nap, Lesser
  <2>2. /\ q.wake = nap /\ q.waits = run[c].waits - nap
        /\ \A f \in {"seen", "queued", "room", "retry_at", "stats"} :
             q[f] = run[c][f]
    BY <1>1 DEF RunField
  <2>3. at'[c] = "sleep" /\ run'[c] = q
    BY <1>1, <1>4 DEF Become, SetRun
  <2>. HIDE DEF q, nap
  <2>4. StatsOK(q) /\ Balanced(q, 0)
    BY <1>2, <2>2, SameBalance DEF RunShape
  <2>5. RunShape(q, DOMAIN task')
    BY <1>2, <2>1, <2>2, <2>4 DEF RunShape
  <2>. QED
    BY <2>3, <2>4, <2>5, AccountsMove
<1>5. CASE OpenCircuit(c, run[c])
  <2>. DEFINE q == [run[c] EXCEPT
                      !.circuit_open = TRUE, !.queued = {},
                      !.stats.deferred = @ + Cardinality(run[c].queued)]
  <2>1. /\ q.queued = {}
        /\ q.stats = [run[c].stats EXCEPT !.deferred =
                        run[c].stats.deferred + Cardinality(run[c].queued)]
        /\ \A f \in {"seen", "waits", "wake", "room", "retry_at"} :
             q[f] = run[c][f]
    BY <1>1, <1>2 DEF RunField, RunShape, StatsOK, Counter
  <2>2. at'[c] = "done" /\ run'[c] = q
    BY <1>1, <1>5 DEF Become, SetRun, OpenCircuit
  <2>. HIDE DEF q
  <2>3. StatsOK(q) /\ Balanced(q, 0)
    BY <1>1, <1>2, <2>1, DeferQueued DEF RunShape
  <2>4. RunShape(q, DOMAIN task')
    BY <1>2, <2>1, <2>3 DEF RunShape
  <2>. QED
    BY <2>2, <2>3, <2>4, AccountsMove
<1>. QED
  BY <1>4, <1>5 DEF Decide

LEMMA CliAccounts ==
  ASSUME TypeOK, FencingInv, Memory, AllFit, AllAccounts, Grown,
         NEW c \in Cli,
         \/ StartRun(c) \/ Offered(c) \/ BatchEnds(c) \/ ClaimQueued(c)
         \/ Decide(c) \/ Wake(c)
  PROVE  AllAccounts'
<1>1. c \in Process /\ Accounts(c) /\ DOMAIN run[c] = RunField
  BY DEF Process, AllAccounts, Memory, RunOK
<1>2. /\ DOMAIN at = Process /\ DOMAIN holds = Process /\ DOMAIN run = Cli
      /\ DOMAIN beat = Process
  BY DEF Memory, AllFit, Ranges
<1>3. Others(c) /\ \A d \in Cli \ {c} : run'[d] = run[d]
  BY CliAlone
<1>4. Accounts(c)'
  <2>1. CASE BatchEnds(c)
    <3>1. RunShape(run[c], DOMAIN task') /\ Balanced(run[c], 0)
      BY <1>1, <2>1, ShapeGrows DEF BatchEnds, Accounts, InFlight, Grown
    <3>. QED
      BY <1>1, <2>1, <3>1, ResumeAccounts DEF BatchEnds
  <2>2. CASE Wake(c)
    <3>1. RunShape(run[c], DOMAIN task') /\ Balanced(run[c], 0)
      BY <1>1, <2>2, ShapeGrows DEF Wake, Accounts, InFlight, Grown
    <3>2. at'[c] = "claim" /\ run'[c] = run[c]
      BY <1>1, <1>2, <2>2 DEF Wake, Become
    <3>. QED
      BY <3>1, <3>2, AccountsMove
  <2>. QED
    BY <1>1, <2>1, <2>2, StartRunAccounts, OfferedAccounts,
       ClaimQueuedAccounts, DecideAccounts
<1>. QED
  BY <1>1, <1>3, <1>4, OthersAccounts

LEMMA ServerAccounts ==
  ASSUME Memory, AllFit, AllAccounts, Grown, NEW w \in Server,
         \/ StartServer(w) \/ List(w) \/ ClaimPicked(w) \/ PostedIn(w)
         \/ Reap(w) \/ ReaperFails(w) \/ Stop(w)
  PROVE  AllAccounts'
<1>1. w \notin Cli
  BY WorkersAssumption
<1>2. Others(w) /\ run' = run
  BY ServerAlone
<1>. QED
  BY <1>1, <1>2, AccountsStay DEF AllAccounts, Others, Process

\* A failure that leaves its task pending says when to try again.
LEMMA RetryDue ==
  ASSUME TypeOK, FencingInv, NEW a \in Issued,
         \/ \E divergent \in BOOLEAN : InvalidOutput(a, divergent)
         \/ \E retry_after \in RetryAfter : Retryable(a, retry_after)
         \/ Permanent(a)
  PROVE  /\ a.task \in DOMAIN task'
         /\ task'[a.task].status = "pending" => task'[a.task].next \in Nat
<1>. DEFINE k == a.task
<1>1. Live(a)
  BY DEF InvalidOutput, Retryable, Permanent
<1>2. k \in DOMAIN task /\ task[k] \in Task
  BY <1>1, HolderFacts
<1>3. \A n \in Nat : Backoff(n) \in Nat
  BY BackoffType
<1>4. ASSUME NEW divergent \in BOOLEAN, InvalidOutput(a, divergent)
      PROVE  /\ k \in DOMAIN task'
             /\ task'[k].status = "pending" => task'[k].next \in Nat
  <2>. DEFINE t == [task[k] EXCEPT !.recompiles = @ + 1]
  <2>1. /\ DOMAIN t = DOMAIN task[k] /\ t.retries = task[k].retries
        /\ DOMAIN task[k] = {"id", "status", "result", "epoch", "hash", "snap",
              "policy", "max_retries", "budget", "reserved", "attempts",
              "retries", "recompiles", "token", "expires", "next"}
    BY <1>2 DEF Task
  <2>2. \/ task' = [task EXCEPT ![k] = Finish(t, "dead", "quarantined")]
        \/ task' = [task EXCEPT ![k] = PutBack(t, Backoff(t.retries))]
    BY <1>4 DEF InvalidOutput
  <2>3. t.retries \in Nat
    BY <1>2, <2>1 DEF Task
  <2>. HIDE DEF t
  <2>4. /\ Finish(t, "dead", "quarantined").status = "dead"
        /\ PutBack(t, Backoff(t.retries)).next = Backoff(t.retries)
    BY <2>1 DEF Finish, PutBack
  <2>. QED
    BY <1>2, <1>3, <2>2, <2>3, <2>4
<1>5. ASSUME NEW retry_after \in RetryAfter, Retryable(a, retry_after)
      PROVE  /\ k \in DOMAIN task'
             /\ task'[k].status = "pending" => task'[k].next \in Nat
  <2>. DEFINE t == [task[k] EXCEPT !.retries = @ + 1]
              wait == IF retry_after = Null THEN Backoff(t.retries)
                      ELSE Lesser(retry_after, MaxRetryAfter)
  <2>1. /\ DOMAIN t = DOMAIN task[k] /\ t.retries = task[k].retries + 1
        /\ DOMAIN task[k] = {"id", "status", "result", "epoch", "hash", "snap",
              "policy", "max_retries", "budget", "reserved", "attempts",
              "retries", "recompiles", "token", "expires", "next"}
    BY <1>2 DEF Task
  <2>2. \/ task' = [task EXCEPT ![k] = Finish(t, "dead", "failed")]
        \/ task' = [task EXCEPT ![k] = PutBack(t, wait)]
    BY <1>5 DEF Retryable
  <2>3. t.retries \in Nat
    BY <1>2, <2>1 DEF Task
  <2>4. wait \in Nat
    BY <1>3, <2>3, TimeAssumption DEF Lesser
  <2>. HIDE DEF t, wait
  <2>5. /\ Finish(t, "dead", "failed").status = "dead"
        /\ PutBack(t, wait).next = wait
    BY <2>1 DEF Finish, PutBack
  <2>. QED
    BY <1>2, <2>2, <2>4, <2>5
<1>6. CASE Permanent(a)
  <2>1. task' = [task EXCEPT ![k] = Finish(task[k], "failed", "failed")]
    BY <1>6 DEF Permanent
  <2>2. Finish(task[k], "failed", "failed").status = "failed"
    BY <1>2 DEF Finish, Task
  <2>. QED
    BY <1>2, <2>1, <2>2
<1>. QED
  BY <1>4, <1>5, <1>6

\* The task in hand becomes one final count, or goes back into the queue.
LEMMA ReportAccounts ==
  ASSUME TypeOK, FencingInv, Memory, AllFit, Grown, NEW c \in Cli,
         Accounts(c), Report(c)
  PROVE  Accounts(c)'
<1>1. /\ c \in Process /\ c \notin Server /\ c \in DOMAIN at
      /\ DOMAIN run = Cli /\ DOMAIN run[c] = RunField
      /\ holds[c] \in Issued
  BY WorkersAssumption DEF Memory, RunOK, Process, Report
<1>2. RunShape(run[c], DOMAIN task') /\ Balanced(run[c], 1)
  BY ShapeGrows DEF Report, Accounts, InFlight, Grown
<1>3. /\ holds[c].task \notin run[c].queued
      /\ holds[c].task.entity \in run[c].seen
  BY DEF Report, Accounts
<1>4. ASSUME NEW n \in Counter \ {"scanned"}, Resume(c, Count(run[c], n))
      PROVE  Accounts(c)'
  <2>1. /\ RunShape(Count(run[c], n), DOMAIN task')
        /\ Balanced(Count(run[c], n), 0)
        /\ DOMAIN Count(run[c], n) = RunField
    BY <1>1, <1>2, CountShape, CountClosed, CountFields DEF RunShape
  <2>. QED
    BY <1>4, <2>1, ResumeAccounts
<1>5. ASSUME NEW k, k = holds[c].task, k \in DOMAIN task',
             task'[k].next \in Nat, RetryLater(c, k)
      PROVE  Accounts(c)'
  <2>. DEFINE q == [run[c] EXCEPT
                      !.queued = @ \cup {k},
                      !.retry_at = Put(@, k, task'[k].next)]
  <2>1. Resume(c, q)
    BY <1>1, <1>5 DEF RetryLater
  <2>2. /\ q.queued = run[c].queued \cup {k} /\ DOMAIN q = RunField
        /\ q.retry_at = Put(run[c].retry_at, k, task'[k].next)
        /\ \A f \in {"seen", "waits", "wake", "room", "stats"} :
             q[f] = run[c][f]
    BY <1>1 DEF RunField
  <2>. HIDE DEF q
  <2>3. StatsOK(q) /\ Balanced(q, 0)
    BY <1>2, <1>3, <1>5, <2>2, QueueOpen DEF RunShape
  <2>4. \A j \in DOMAIN q.retry_at : q.retry_at[j] \in Nat
    BY <1>2, <1>5, <2>2 DEF Put, RunShape
  <2>5. RunShape(q, DOMAIN task')
    BY <1>2, <1>3, <1>5, <2>2, <2>3, <2>4 DEF RunShape
  <2>. QED
    BY <2>1, <2>2, <2>3, <2>5, ResumeAccounts
<1>6. ASSUME Errs(c) PROVE Accounts(c)'
  <2>1. at'[c] = "failed" /\ run'[c] = run[c]
    BY <1>1, <1>6 DEF Errs, Become
  <2>. QED
    BY <1>2, <2>1, AccountsMove
<1>7. {"accepted", "deferred", "failed", "quarantined"}
        \subseteq Counter \ {"scanned"}
  BY DEF Counter
<1>8. ASSUME NEW n \in {"accepted", "deferred", "failed", "quarantined"},
             Finalized(c, n)
      PROVE  Accounts(c)'
  BY <1>1, <1>4, <1>7, <1>8 DEF Finalized
<1>9. CASE ReportPage(c)
  BY <1>6, <1>8, <1>9 DEF ReportPage
<1>10. CASE ReportFailure(c)
  <2>1. CASE Finalized(c, "failed") \/ Finalized(c, "quarantined")
    BY <1>8, <2>1
  <2>2. CASE /\ \/ \E divergent \in BOOLEAN :
                     InvalidOutput(holds[c], divergent)
                \/ \E retry_after \in RetryAfter :
                     Retryable(holds[c], retry_after)
                \/ Permanent(holds[c])
             /\ task'[holds[c].task].status = "pending"
             /\ RetryLater(c, holds[c].task)
    BY <1>1, <1>5, <2>2, RetryDue
  <2>. QED
    BY <1>10, <2>1, <2>2 DEF ReportFailure
<1>. QED
  BY <1>9, <1>10 DEF Report

LEMMA ProcessAccounts ==
  ASSUME TypeOK, FencingInv, Memory, AllFit, AllAccounts, Grown,
         NEW p \in Process,
         Beat(p) \/ Answer(p) \/ Report(p) \/ Fail(p) \/ Crash(p)
  PROVE  AllAccounts'
<1>1. /\ DOMAIN at = Process /\ DOMAIN holds = Process /\ DOMAIN run = Cli
      /\ DOMAIN answer = Process /\ DOMAIN beat = Process
      /\ DOMAIN picked = Process
  BY DEF Memory, AllFit, Ranges
<1>2. Others(p) /\ \A d \in Cli \ {p} : run'[d] = run[d]
  BY ProcessAlone
<1>4. ASSUME p \in Cli PROVE Accounts(p)'
  <2>0. p \notin Server /\ Accounts(p)
    BY <1>4, WorkersAssumption DEF AllAccounts
  <2>1. CASE Beat(p)
    BY <1>4, <2>0, <2>1, AccountsStay DEF Beat
  <2>2. CASE Answer(p)
    <3>1. /\ at[p] = "compile" /\ at'[p] = "report" /\ holds'[p] = holds[p]
          /\ run'[p] = run[p]
      BY <1>1, <2>2 DEF Answer, Become
    <3>. QED
      BY <1>4, <2>0, <3>1, ShapeGrows DEF Accounts, InFlight, Grown
  <2>3. CASE Report(p)
    BY <1>4, <2>0, <2>3, ReportAccounts
  <2>4. CASE Fail(p) \/ Crash(p)
    <3>1. at'[p] = "failed" /\ run'[p] = run[p]
      BY <1>1, <2>0, <2>4 DEF Fail, Crash, Errs, Become
    <3>2. RunShape(run[p], DOMAIN task')
      BY <2>0, ShapeGrows DEF Accounts, Grown
    <3>. QED
      BY <1>4, <3>1, <3>2, AccountsMove
  <2>. QED
    BY <2>1, <2>2, <2>3, <2>4
<1>. QED
  BY <1>2, <1>4, OthersAccounts

\* Time only shortens what is left of a nap and of the waits for retries.
LEMMA SecondAccounts ==
  ASSUME Memory, AllAccounts, Grown, Second
  PROVE  AllAccounts'
<1>. SUFFICES ASSUME NEW c \in Cli PROVE Accounts(c)'
  BY DEF AllAccounts
<1>. DEFINE r == run[c]
            q == [r EXCEPT
                    !.wake = IF @ > 0 THEN @ - 1 ELSE 0,
                    !.retry_at =
                      [k \in DOMAIN @ |-> IF @[k] > 0 THEN @[k] - 1 ELSE 0]]
<1>1. run'[c] = q /\ at'[c] = at[c] /\ holds'[c] = holds[c]
  BY DEF Second
<1>2. DOMAIN r = RunField /\ Accounts(c)
  BY DEF Memory, RunOK, AllAccounts
<1>3. /\ q.wake = IF r.wake > 0 THEN r.wake - 1 ELSE 0
      /\ q.retry_at = [k \in DOMAIN r.retry_at |->
                         IF r.retry_at[k] > 0 THEN r.retry_at[k] - 1 ELSE 0]
      /\ \A f \in {"seen", "queued", "waits", "room", "stats"} : q[f] = r[f]
  BY <1>2 DEF RunField
<1>4. RunShape(r, DOMAIN task')
  BY <1>2, ShapeGrows DEF Accounts, Grown
<1>. HIDE DEF q
<1>5. q.wake \in 0..MaxWait
  BY <1>3, <1>4, WorkersAssumption DEF RunShape
<1>6. \A k \in DOMAIN q.retry_at : q.retry_at[k] \in Nat
  BY <1>3, <1>4 DEF RunShape
<1>7. RunShape(q, DOMAIN task')
  BY <1>3, <1>4, <1>5, <1>6 DEF RunShape, StatsOK
<1>8. \A n : Balanced(r, n) => Balanced(q, n)
  BY <1>3 DEF Balanced
<1>. QED
  BY <1>1, <1>2, <1>3, <1>7, <1>8 DEF Accounts, InFlight

LEMMA NextAccounts ==
  ASSUME TypeOK, FencingInv, Memory, AllFit, AllAccounts, Grown,
         [WorkersNext]_all
  PROVE  AllAccounts'
<1>1. ASSUME UNCHANGED all PROVE AllAccounts'
  BY <1>1, AccountsStay DEF all, procs, AllAccounts
<1>. QED
  BY <1>1, CliAccounts, ServerAccounts, ProcessAccounts, SecondAccounts
  DEF WorkersNext

LEMMA InitAccounts == WorkersInit => AllAccounts
<1>. SUFFICES ASSUME WorkersInit, NEW c \in Cli PROVE Accounts(c)
  BY DEF AllAccounts
<1>. DEFINE r == NewRun({})
<1>1. run[c] = r /\ at[c] = "new"
  BY WorkersAssumption DEF WorkersInit, Process
<1>2. /\ r.queued = {} /\ r.waits = MaxWait /\ r.wake = 0
      /\ r.room = BatchSize /\ r.retry_at = EmptyTable
      /\ r.stats = [n \in Counter |-> 0]
  BY DEF NewRun
<1>. HIDE DEF r
<1>3. IsFiniteSet({}) /\ Cardinality({}) = 0
  BY FS_EmptySet
<1>4. \A k \in DOMAIN r.retry_at : r.retry_at[k] \in Nat
  BY <1>2 DEF EmptyTable
<1>5. StatsOK(r)
  BY <1>2, <1>3 DEF StatsOK
<1>6. RunShape(r, DOMAIN task)
  BY <1>2, <1>4, <1>5, WorkersAssumption DEF RunShape
<1>7. Balanced(r, 0)
  BY <1>2, <1>3 DEF Balanced, Counter
<1>. QED
  BY <1>1, <1>6, <1>7 DEF Accounts, InFlight

-----------------------------------------------------------------------------
\* What is proved of the tables for all callers, and what the processes
\* remember, in one.
Ground == TypeOK /\ FencingInv /\ Planes /\ Memory

LEMMA GroundInvariant == WorkersSpec => []Ground
<1>1. WorkersInit => Init /\ TypeOK /\ Memory
  BY InitType, InitMemory DEF WorkersInit
<1>2. TypeOK /\ Memory /\ [WorkersNext]_all => (TypeOK /\ Memory)'
  BY WorkersStep, NextType, NextMemory
<1>3. WorkersSpec => [](TypeOK /\ Memory)
  BY <1>1, <1>2, PTL DEF WorkersSpec
<1>. QED
  BY <1>3, ProcessesKeepTheStore, FencingInvariant, PlanesInvariant, PTL
  DEF StoreIsKept, Ground

WorkersInv == AllFit /\ AllAccounts

LEMMA WorkersInvariant == WorkersSpec => []WorkersInv
<1>1. WorkersInit => WorkersInv
  BY InitFit, InitAccounts DEF WorkersInv
<1>2. Ground /\ Ground' /\ WorkersInv /\ [WorkersNext]_all => WorkersInv'
  BY TablesGrow, NextFit, NextAccounts DEF Ground, WorkersInv
<1>. QED
  BY <1>1, <1>2, GroundInvariant, PTL DEF WorkersSpec

\* Every process has what its place says it has, in every table and record of
\* the tables' and its own.
THEOREM WorkersAreWellTyped == WorkersSpec => []WorkersTypeOK
<1>1. Ground /\ WorkersInv => WorkersTypeOK
  <2>. SUFFICES ASSUME Ground, WorkersInv PROVE WorkersTypeOK
    OBVIOUS
  <2>1. TypeOK /\ at \in [Process -> Place] /\ Ranges
    BY DEF Ground, Memory, WorkersInv, AllFit
  <2>2. ASSUME NEW p \in Process
        PROVE  /\ at[p] \in {"compile", "report"} <=> holds[p] # Null
               /\ holds[p] # Null => holds[p] \in DOMAIN attempt
    <3>1. at[p] \in {"compile", "report"} => holds[p] \in Issued
      BY DEF Ground, Memory
    <3>2. holds[p] # Null => at[p] \in {"compile", "report"}
      BY DEF WorkersInv, AllFit, Fit
    <3>3. Issued \subseteq DOMAIN attempt /\ Null \notin Issued
      BY <2>1, TokenAssumption DEF TypeOK, IsTable, Issued
    <3>. QED
      BY <3>1, <3>2, <3>3
  <2>3. \A p \in Process : Fit(p)
    BY DEF WorkersInv, AllFit
  <2>4. \A c \in Cli : RunShape(run[c], DOMAIN task)
    BY DEF WorkersInv, AllAccounts, Accounts
  <2>. QED
    BY <2>1, <2>2, <2>3, <2>4
    DEF WorkersTypeOK, Place, Ranges, Fit, RunShape, StatsOK
<1>. QED
  BY <1>1, GroundInvariant, WorkersInvariant, PTL

\* Each scanned entity receives one final classification: whatever others do
\* to its tasks, a run neither loses one nor counts it twice.
THEOREM StatsAlwaysAddUp == WorkersSpec => []StatsAddUp
<1>1. WorkersInv => StatsAddUp
  BY DEF WorkersInv, AllAccounts, Accounts, Balanced, InFlight, StatsAddUp
<1>. QED
  BY <1>1, WorkersInvariant, PTL
-----------------------------------------------------------------------------
(* Leases are given back.                                                  *)

\* Who does not hold a live lease any more has lost the task or its time.
LEMMA NotLive ==
  ASSUME TypeOK, FencingInv, NEW a \in Issued, ~Live(a)
  PROVE  task[a.task].token # a \/ task[a.task].expires <= 0
<1>1. a.task \in DOMAIN task
  BY DEF FencingInv, Belongs, Issued
<1>2. task[a.task].expires \in Nat
  <2>1. task[a.task] \in Task
    BY <1>1, RowOf DEF TypeOK
  <2>. QED
    BY <2>1 DEF Task
<1>3. a # Null
  BY TokenAssumption DEF TypeOK, IsTable, Issued
<1>4. CASE task[a.task].status # "running"
  BY <1>1, <1>3, <1>4 DEF FencingInv, WellFormed
<1>5. CASE task[a.task].status = "running" /\ task[a.task].epoch # a.epoch
  <2>1. task[a.task].token = Holder(a.task)
    BY <1>1, <1>5 DEF FencingInv, HeldByHolder
  <2>2. Holder(a.task).epoch = task[a.task].epoch
    BY DEF Holder
  <2>. QED
    BY <1>5, <2>1, <2>2
<1>. QED
  BY <1>2, <1>4, <1>5 DEF Live

\* The three failures and a publication give the lease back.
LEMMA GivenBack ==
  ASSUME TypeOK, FencingInv, NEW a \in Issued,
         \/ \E divergent \in BOOLEAN : InvalidOutput(a, divergent)
         \/ \E retry_after \in RetryAfter : Retryable(a, retry_after)
         \/ Permanent(a)
         \/ \E h : Publish(a, h)
  PROVE  /\ task'[a.task].token # a
         /\ \A k \in DOMAIN task \ {a.task} : task'[k] = task[k]
<1>1. Live(a)
  BY DEF InvalidOutput, Retryable, Permanent, Publish
<1>2. a.task \in DOMAIN task /\ task[a.task] \in Task
  BY <1>1, HolderFacts
<1>3. a # Null
  BY TokenAssumption DEF TypeOK, IsTable, Issued
<1>. DEFINE Field == {"id", "status", "result", "epoch", "hash", "snap",
                      "policy", "max_retries", "budget", "reserved",
                      "attempts", "retries", "recompiles", "token",
                      "expires", "next"}
<1>4. DOMAIN task[a.task] = Field
  BY <1>2 DEF Task
<1>5. \A t : DOMAIN t = Field =>
        /\ \A status, result : Finish(t, status, result).token = Null
        /\ \A wait : PutBack(t, wait).token = Null
  BY DEF Finish, PutBack
<1>6. PICK t : /\ DOMAIN t = Field
               /\ \/ \E status, result :
                       task' = [task EXCEPT ![a.task] =
                                  Finish(t, status, result)]
                  \/ \E wait :
                       task' = [task EXCEPT ![a.task] = PutBack(t, wait)]
  <2>1. ASSUME NEW divergent \in BOOLEAN, InvalidOutput(a, divergent)
        PROVE  \E t : /\ DOMAIN t = Field
                      /\ \/ \E status, result :
                              task' = [task EXCEPT ![a.task] =
                                         Finish(t, status, result)]
                         \/ \E wait :
                              task' = [task EXCEPT ![a.task] =
                                         PutBack(t, wait)]
    <3>. DEFINE t == [task[a.task] EXCEPT !.recompiles = @ + 1]
    <3>1. DOMAIN t = Field
      BY <1>4
    <3>. QED
      BY <2>1, <3>1 DEF InvalidOutput
  <2>2. ASSUME NEW retry_after \in RetryAfter, Retryable(a, retry_after)
        PROVE  \E t : /\ DOMAIN t = Field
                      /\ \/ \E status, result :
                              task' = [task EXCEPT ![a.task] =
                                         Finish(t, status, result)]
                         \/ \E wait :
                              task' = [task EXCEPT ![a.task] =
                                         PutBack(t, wait)]
    <3>. DEFINE t == [task[a.task] EXCEPT !.retries = @ + 1]
    <3>1. DOMAIN t = Field
      BY <1>4
    <3>. QED
      BY <2>2, <3>1 DEF Retryable
  <2>3. ASSUME Permanent(a) \/ \E h : Publish(a, h)
        PROVE  \E status, result :
                 task' = [task EXCEPT ![a.task] =
                            Finish(task[a.task], status, result)]
    BY <1>2, <2>3 DEF Permanent, Publish
  <2>. QED
    BY <1>4, <2>1, <2>2, <2>3
<1>7. DOMAIN task' = DOMAIN task /\ task'[a.task].token = Null
  BY <1>2, <1>5, <1>6
<1>8. \A k \in DOMAIN task \ {a.task} : task'[k] = task[k]
  BY <1>6
<1>. QED
  BY <1>3, <1>7, <1>8

\* A run that goes on after a report has given its lease up, or the head wants
\* something else by now: nobody waits for a lease of a process that lives.
THEOREM LeasesAreReleased == WorkersSpec => RunsReleaseTheirLeases
<1>. DEFINE Released(c) ==
       at[c] = "report" /\ at'[c] \notin {"report", "failed"} =>
         \/ task'[holds[c].task].token # holds[c]
         \/ task'[holds[c].task].expires <= 0
         \/ Superseded(holds[c].task)
<1>1. ASSUME Ground, WorkersInv, NEW c \in Cli, Report(c)
      PROVE  Released(c)
  <2>. DEFINE a == holds[c]
  <2>1. /\ a \in Issued /\ TypeOK /\ FencingInv /\ c \notin Server
        /\ c \in DOMAIN at
    BY <1>1, WorkersAssumption DEF Ground, Memory, Report, Process
  <2>2. a.task \in DOMAIN task /\ a.task.entity \in DOMAIN head
    BY <1>1, <2>1
    DEF Ground, Planes, TasksFollowHeads, FencingInv, Belongs, Issued
  <2>3. CASE ~Live(a) /\ UNCHANGED vars
    BY <2>1, <2>3, NotLive DEF vars
  <2>4. CASE ~HeadWants(a.task)
    BY <2>2, <2>4 DEF HeadWants, Superseded
  <2>5. CASE Errs(c)
    BY <2>1, <2>5 DEF Errs, Become
  <2>6. CASE \/ \E divergent \in BOOLEAN : InvalidOutput(a, divergent)
             \/ \E retry_after \in RetryAfter : Retryable(a, retry_after)
             \/ Permanent(a)
             \/ \E h : Publish(a, h)
    BY <2>1, <2>6, GivenBack
  <2>7. CASE ReportPage(c)
    BY <2>3, <2>4, <2>5, <2>6, <2>7 DEF ReportPage
  <2>8. CASE ReportFailure(c)
    BY <2>3, <2>6, <2>8 DEF ReportFailure
  <2>. QED
    BY <1>1, <2>7, <2>8 DEF Report
<1>2. ASSUME Ground, WorkersInv, [WorkersNext]_all, NEW c \in Cli
      PROVE  Released(c)
  <2>1. DOMAIN at = Process /\ c \in Process /\ c \notin Server
    BY <1>2, WorkersAssumption DEF Ground, Memory, Process
  <2>2. CASE ~Report(c)
    <3>1. ASSUME NEW d \in Cli,
                 \/ StartRun(d) \/ Offered(d) \/ BatchEnds(d)
                 \/ ClaimQueued(d) \/ Decide(d) \/ Wake(d)
          PROVE  at[c] # "report" \/ at'[c] = at[c]
      BY <2>1, <3>1 DEF StartRun, Offered, BatchEnds, ClaimQueued, Decide,
                        Wake, Resume, OpenCircuit, Begin, Become
    <3>2. ASSUME NEW w \in Server,
                 \/ StartServer(w) \/ List(w) \/ ClaimPicked(w)
                 \/ PostedIn(w) \/ Reap(w) \/ ReaperFails(w) \/ Stop(w)
          PROVE  at'[c] = at[c]
      BY <2>1, <3>2 DEF StartServer, List, ClaimPicked, PostedIn, Reap,
                        ReaperFails, Stop, Begin, Become, procs
    <3>3. ASSUME NEW p \in Process,
                 Beat(p) \/ Answer(p) \/ Fail(p) \/ Crash(p)
          PROVE  at[c] # "report" \/ at'[c] \in {at[c], "failed"}
      BY <2>1, <3>3 DEF Beat, Answer, Fail, Crash, Errs, Become
    <3>4. ASSUME NEW p \in Process, Report(p)
          PROVE  at'[c] = at[c]
      BY <1>2, <2>1, <2>2, <3>4, ReportPlace DEF Become, Ground
    <3>5. ASSUME Second \/ UNCHANGED all PROVE at'[c] = at[c]
      BY <3>5 DEF Second, all, procs
    <3>. QED
      BY <1>2, <3>1, <3>2, <3>3, <3>4, <3>5 DEF WorkersNext
  <2>. QED
    BY <1>1, <1>2, <2>2
<1>3. Ground /\ WorkersInv /\ [WorkersNext]_all =>
        [\A c \in Cli : Released(c)]_all
  BY <1>2
<1>4. WorkersSpec => [][\A c \in Cli : Released(c)]_all
  BY <1>3, GroundInvariant, WorkersInvariant, PTL DEF WorkersSpec
<1>. QED
  BY <1>4 DEF RunsReleaseTheirLeases

-----------------------------------------------------------------------------
(* One model call at a time for one epoch of a task.  While a process asks *)
(* the model its lease lives, and its heartbeat comes before the lease     *)
(* runs out; or the task has ended or begun another epoch meanwhile.       *)

SameLease(t, u) ==
  /\ u.status = t.status /\ u.epoch = t.epoch /\ u.token = t.token
  /\ u.expires = t.expires

\* A step leaves the lease of a task alone, ends the task or its epoch.
Spared(k) ==
  \/ SameLease(task[k], task'[k])
  \/ task'[k].epoch > task[k].epoch
  \/ task'[k].epoch = task[k].epoch /\ ~IsOpen(task'[k])

\* Epochs do not go back, and an epoch that has ended is over.
GoesOn(k) ==
  /\ k \in DOMAIN task'
  /\ task[k].epoch \in Nat /\ task'[k].epoch \in Nat
  /\ \/ task'[k].epoch > task[k].epoch
     \/ task'[k].epoch = task[k].epoch /\ (IsOpen(task'[k]) => IsOpen(task[k]))

Guarded(a, b) ==
  \/ task[a.task].epoch # a.epoch
  \/ ~IsOpen(task[a.task])
  \/ /\ Live(a) /\ b # Null
     /\ task[a.task].expires >= (LeaseWindow - BeatEvery) + b

Shielded(p) == at[p] = "compile" => Guarded(holds[p], beat[p])

\* No two processes ever hold the same lease.
Distinct ==
  \A p, q \in Process :
    /\ p # q
    /\ at[p] \in {"compile", "report"} /\ at[q] \in {"compile", "report"}
    => holds[p] # holds[q]

LEMMA TasksGoOn ==
  ASSUME TypeOK, FencingInv, TypeOK', [Next]_vars, NEW k \in DOMAIN task
  PROVE  GoesOn(k)
<1>1. k \in DOMAIN task'
  BY StepWork, AdmittedRows DEF TasksAreWorked
<1>2. task[k].epoch \in Nat /\ task'[k].epoch \in Nat
  BY <1>1 DEF TypeOK, IsTable, Task
<1>3. CASE TasksAreWorked
  BY <1>1, <1>2, <1>3 DEF TasksAreWorked, Worked, GoesOn
<1>4. CASE \E s \in Source, c \in Config, p \in Policy, force \in BOOLEAN :
             Admit(s, c, p, force)
  <2>1. \/ task'[k] = task[k]
        \/ \E s \in Source, c \in Config : Admitted(task[k], task'[k], s, c)
    BY <1>4, AdmittedRows
  <2>. QED
    BY <1>1, <1>2, <2>1 DEF Admitted, GoesOn
<1>. QED
  BY <1>3, <1>4, StepWork

LEMMA AdmitSpares ==
  ASSUME TypeOK, NEW s \in Source, NEW c \in Config, NEW p \in Policy,
         NEW force \in BOOLEAN, Admit(s, c, p, force), NEW k \in DOMAIN task
  PROVE  Spared(k)
<1>. DEFINE key == KeyOf(s, c)
<1>1. task[k] \in Task /\ task[k].epoch \in Nat
  <2>1. task[k] \in Task
    BY RowOf DEF TypeOK
  <2>. QED
    BY <2>1 DEF Task
<1>2. \/ UNCHANGED task
      \/ key \notin DOMAIN task /\ \E u : task' = Put(task, key, u)
      \/ /\ key \in DOMAIN task
         /\ task' = [task EXCEPT
                       ![key].status = "succeeded", ![key].result = "skipped",
                       ![key].token = Null, ![key].expires = 0,
                       ![key].next = LongAgo]
      \/ /\ key \in DOMAIN task
         /\ task' = [task EXCEPT ![key].snap = Snap(s), ![key].policy = p]
      \/ key \in DOMAIN task /\ Restart(s, c, p)
  BY DEF Admit, Skip, Merge, InsertTask
<1>3. CASE key \in DOMAIN task /\ Restart(s, c, p)
  <2>1. task' = [task EXCEPT ![key] =
                   [NewTask(s, c, p) EXCEPT !.id = task[key].id,
                                            !.epoch = task[key].epoch + 1,
                                            !.reserved = task[key].reserved]]
    BY <1>3 DEF Restart
  <2>2. k = key => task'[k].epoch = task[k].epoch + 1
    BY <1>3, <2>1 DEF NewTask
  <2>3. k # key => task'[k] = task[k]
    BY <2>1
  <2>. QED
    BY <1>1, <2>2, <2>3 DEF Spared, SameLease
<1>4. CASE UNCHANGED task
  BY <1>4 DEF Spared, SameLease
<1>5. CASE key \notin DOMAIN task /\ \E u : task' = Put(task, key, u)
  BY <1>5 DEF Put, Spared, SameLease
<1>6. CASE /\ key \in DOMAIN task
           /\ task' = [task EXCEPT
                 ![key].status = "succeeded", ![key].result = "skipped",
                 ![key].token = Null, ![key].expires = 0,
                 ![key].next = LongAgo]
  <2>1. k = key => /\ task'[k].epoch = task[k].epoch
                   /\ task'[k].status = "succeeded"
    BY <1>1, <1>6 DEF Task
  <2>2. k # key => task'[k] = task[k]
    BY <1>6
  <2>. QED
    BY <2>1, <2>2 DEF Spared, SameLease, IsOpen
<1>7. CASE /\ key \in DOMAIN task
           /\ task' = [task EXCEPT ![key].snap = Snap(s), ![key].policy = p]
  <2>1. k = key => SameLease(task[k], task'[k])
    BY <1>1, <1>7 DEF Task, SameLease
  <2>2. k # key => task'[k] = task[k]
    BY <1>7
  <2>. QED
    BY <2>1, <2>2 DEF Spared, SameLease
<1>. QED
  BY <1>2, <1>3, <1>4, <1>5, <1>6, <1>7

\* A step that is neither the clock's nor the holder's of lease a.
HandsOff(a) ==
  \/ \E s \in Source, c \in Config, p \in Policy, force \in BOOLEAN :
       Admit(s, c, p, force)
  \/ RecoverAny
  \/ \E ids \in SUBSET TaskKey, r \in Run : TryClaim(ids, r)
  \/ \E b \in Issued \ {a} :
       \/ Heartbeat(b)
       \/ \E divergent \in BOOLEAN : InvalidOutput(b, divergent)
       \/ \E retry_after \in RetryAfter : Retryable(b, retry_after)
       \/ Permanent(b)
       \/ \E h : Publish(b, h)
  \/ UNCHANGED vars

\* Nobody but its holder and the clock touches a live lease.
LEMMA KeepsHandsOff ==
  ASSUME NEW a
  PROVE  /\ \A s \in Source, c \in Config, p \in Policy, force \in BOOLEAN :
              Admit(s, c, p, force) => HandsOff(a)
         /\ RecoverAny => HandsOff(a)
         /\ Recover => HandsOff(a)
         /\ \A ids \in SUBSET TaskKey, r \in Run :
              TryClaim(ids, r) => HandsOff(a)
         /\ UNCHANGED vars => HandsOff(a)
<1>1. \A s \in Source, c \in Config, p \in Policy, force \in BOOLEAN :
        Admit(s, c, p, force) => HandsOff(a)
  BY DEF HandsOff
<1>2. RecoverAny => HandsOff(a)
  BY DEF HandsOff
<1>3. Recover => RecoverAny
  BY DEF RecoverAny
<1>4. \A ids \in SUBSET TaskKey, r \in Run : TryClaim(ids, r) => HandsOff(a)
  BY DEF HandsOff
<1>5. UNCHANGED vars => HandsOff(a)
  BY DEF HandsOff
<1>. QED
  BY <1>1, <1>2, <1>3, <1>4, <1>5

LEMMA OtherHolder ==
  ASSUME NEW a, NEW b \in Issued, b # a
  PROVE  /\ Heartbeat(b) => HandsOff(a)
         /\ \A divergent \in BOOLEAN :
              InvalidOutput(b, divergent) => HandsOff(a)
         /\ \A retry_after \in RetryAfter :
              Retryable(b, retry_after) => HandsOff(a)
         /\ Permanent(b) => HandsOff(a)
         /\ \A h : Publish(b, h) => HandsOff(a)
<1>1. b \in Issued \ {a}
  OBVIOUS
<1>2. Heartbeat(b) => HandsOff(a)
  BY <1>1 DEF HandsOff
<1>3. \A divergent \in BOOLEAN : InvalidOutput(b, divergent) => HandsOff(a)
  BY <1>1 DEF HandsOff
<1>4. \A retry_after \in RetryAfter :
        Retryable(b, retry_after) => HandsOff(a)
  BY <1>1 DEF HandsOff
<1>5. Permanent(b) => HandsOff(a)
  BY <1>1 DEF HandsOff
<1>6. \A h : Publish(b, h) => HandsOff(a)
  BY <1>1 DEF HandsOff
<1>. QED
  BY <1>2, <1>3, <1>4, <1>5, <1>6

LEMMA LiveIsSpared ==
  ASSUME TypeOK, FencingInv, NEW a \in Issued, Live(a), HandsOff(a)
  PROVE  Spared(a.task)
<1>1. /\ a.task \in DOMAIN task /\ task[a.task].status = "running"
      /\ task[a.task].token = a /\ task[a.task].expires > 0
      /\ task[a.task].expires \in Nat
  <2>1. a.task \in DOMAIN task /\ task[a.task] \in Task
    BY HolderFacts
  <2>. QED
    BY <2>1 DEF Live, Task
<1>2. CASE UNCHANGED vars
  BY <1>2 DEF vars, Spared, SameLease
<1>3. CASE RecoverAny
  <2>1. ~Expired(a.task)
    BY <1>1 DEF Expired
  <2>. QED
    BY <1>1, <1>2, <1>3, <2>1 DEF RecoverAny, Recover, Spared, SameLease
<1>4. ASSUME NEW ids \in SUBSET TaskKey, NEW r \in Run, TryClaim(ids, r)
      PROVE  Spared(a.task)
  <2>1. ASSUME NEW k \in ids, Candidate(ids, k), Lease(k, r)
        PROVE  Spared(a.task)
    <3>1. k # a.task
      BY <1>1, <2>1 DEF Candidate, Due
    <3>2. task'[a.task] = task[a.task]
      BY <1>1, <2>1, <3>1 DEF Lease
    <3>. QED
      BY <3>2 DEF Spared, SameLease
  <2>2. ASSUME NEW k, Defer(r, task[k].policy) PROVE Spared(a.task)
    BY <2>2 DEF Defer, Spared, SameLease
  <2>. QED
    BY <1>2, <1>4, <2>1, <2>2 DEF TryClaim, Claim
<1>5. ASSUME NEW b \in Issued, b # a, Live(b)
      PROVE  b.task # a.task
  BY <1>1, <1>5 DEF Live
<1>6. ASSUME NEW b \in Issued, b # a, Heartbeat(b) PROVE Spared(a.task)
  <2>1. b.task # a.task
    BY <1>5, <1>6 DEF Heartbeat
  <2>2. task'[a.task] = task[a.task]
    BY <1>1, <1>6, <2>1 DEF Heartbeat
  <2>. QED
    BY <2>2 DEF Spared, SameLease
<1>7. ASSUME NEW b \in Issued, b # a,
             \/ \E divergent \in BOOLEAN : InvalidOutput(b, divergent)
             \/ \E retry_after \in RetryAfter : Retryable(b, retry_after)
             \/ Permanent(b)
             \/ \E h : Publish(b, h)
      PROVE  Spared(a.task)
  <2>1. Live(b)
    BY <1>7 DEF InvalidOutput, Retryable, Permanent, Publish
  <2>2. task'[a.task] = task[a.task]
    BY <1>1, <1>5, <1>7, <2>1, GivenBack
  <2>. QED
    BY <2>2 DEF Spared, SameLease
<1>. QED
  BY <1>1, <1>2, <1>3, <1>4, <1>6, <1>7, AdmitSpares DEF HandsOff
LEMMA GuardedStays ==
  ASSUME TypeOK, FencingInv, NEW a \in Issued, NEW b, Guarded(a, b),
         GoesOn(a.task), Live(a) => Spared(a.task)
  PROVE  Guarded(a, b)'
<1>1. /\ a.task \in DOMAIN task /\ a.epoch <= task[a.task].epoch
      /\ a.epoch \in Nat
  <2>1. a \in AttemptId
    BY DEF TypeOK, IsTable, Issued
  <2>. QED
    BY <2>1 DEF FencingInv, Belongs, Issued, AttemptId
<1>2. CASE task[a.task].epoch # a.epoch \/ ~IsOpen(task[a.task])
  BY <1>1, <1>2 DEF GoesOn, Guarded
<1>3. CASE /\ Live(a) /\ b # Null
           /\ task[a.task].expires >= (LeaseWindow - BeatEvery) + b
  <2>1. CASE SameLease(task[a.task], task'[a.task])
    BY <1>3, <2>1 DEF SameLease, Live, Guarded
  <2>2. CASE task'[a.task].epoch > task[a.task].epoch
    BY <1>1, <2>2 DEF GoesOn, Guarded
  <2>3. CASE ~IsOpen(task'[a.task])
    BY <2>3 DEF Guarded
  <2>. QED
    BY <1>3, <2>1, <2>2, <2>3 DEF Spared
<1>. QED
  BY <1>2, <1>3 DEF Guarded

\* Whoever is with the model stays there with its lease, unless it is beaten
\* by its own heart or by time; whatever the others do leaves the lease alone.
LEMMA CompilerStays ==
  ASSUME Ground, AllFit, Distinct, NEW q \in Process, NEW a, a = holds[q],
         at[q] = "compile", at'[q] = "compile",
         WorkersNext, ~Second, ~Beat(q)
  PROVE  holds'[q] = holds[q] /\ beat'[q] = beat[q] /\ HandsOff(a)
<1>1. Memory /\ DOMAIN at = Process /\ holds[q] \in Issued
  BY DEF Ground, Memory
<1>2. ASSUME NEW c \in Cli,
             \/ StartRun(c) \/ Offered(c) \/ BatchEnds(c)
             \/ ClaimQueued(c) \/ Decide(c) \/ Wake(c)
      PROVE  holds'[q] = holds[q] /\ beat'[q] = beat[q] /\ HandsOff(a)
  <2>1. c # q
    BY <1>2 DEF StartRun, Offered, BatchEnds, ClaimQueued, Decide, Wake
  <2>2. Others(c)
    BY <1>1, <1>2, CliAlone
  <2>3. /\ run[c].todo \subseteq Source /\ run[c].queued \in SUBSET TaskKey
        /\ c \in Process /\ c \in Run
    BY <1>1, RunIds DEF Memory, RunOK, Process
  <2>4. ASSUME StartRun(c) PROVE HandsOff(a)
    BY <2>4, KeepsHandsOff DEF StartRun
  <2>5. ASSUME Offered(c) PROVE HandsOff(a)
    <3>1. PICK s \in run[c].todo :
            \/ Admit(s, Own[c].config, Own[c].policy, Own[c].force)
            \/ UNCHANGED vars
      BY <2>5 DEF Offered
    <3>. QED
      BY <2>3, <3>1, OwnParts, KeepsHandsOff
  <2>6. ASSUME BatchEnds(c) \/ Decide(c) \/ Wake(c) PROVE HandsOff(a)
    BY <2>6, KeepsHandsOff DEF BatchEnds, Decide, Wake
  <2>7. ASSUME ClaimQueued(c) PROVE HandsOff(a)
    BY <2>3, <2>7, KeepsHandsOff DEF ClaimQueued
  <2>. QED
    BY <1>2, <2>1, <2>2, <2>4, <2>5, <2>6, <2>7 DEF Others
<1>3. ASSUME NEW w \in Server,
             \/ StartServer(w) \/ List(w) \/ ClaimPicked(w) \/ PostedIn(w)
             \/ Reap(w) \/ ReaperFails(w) \/ Stop(w)
      PROVE  holds'[q] = holds[q] /\ beat'[q] = beat[q] /\ HandsOff(a)
  <2>1. Others(w)
    BY <1>1, <1>3, ServerAlone
  <2>2. q = w => PostedIn(w) \/ Reap(w) \/ ReaperFails(w)
    BY <1>3 DEF StartServer, List, ClaimPicked, Stop
  <2>3. holds'[q] = holds[q] /\ beat'[q] = beat[q]
    BY <2>1, <2>2 DEF PostedIn, Reap, ReaperFails, procs, Others
  <2>4. ASSUME StartServer(w) \/ Stop(w) PROVE HandsOff(a)
    BY <2>4, KeepsHandsOff DEF StartServer, Stop
  <2>5. ASSUME List(w) \/ ReaperFails(w) PROVE HandsOff(a)
    BY <2>5, KeepsHandsOff DEF List, ReaperFails
  <2>6. ASSUME ClaimPicked(w) PROVE HandsOff(a)
    <3>1. picked[w] \in SUBSET TaskKey
      BY <1>1 DEF Memory, Process
    <3>. QED
      BY <2>6, <3>1, RunIds, KeepsHandsOff DEF ClaimPicked
  <2>7. ASSUME PostedIn(w) PROVE HandsOff(a)
    <3>1. Posted \subseteq Source /\ w \in Process
      BY WorkersAssumption DEF Process
    <3>. QED
      BY <2>7, <3>1, OwnParts, KeepsHandsOff DEF PostedIn
  <2>8. ASSUME Reap(w) PROVE HandsOff(a)
    BY <2>8, KeepsHandsOff DEF Reap
  <2>. QED
    BY <1>3, <2>3, <2>4, <2>5, <2>6, <2>7, <2>8
<1>4. ASSUME NEW p \in Process,
             Beat(p) \/ Answer(p) \/ Report(p) \/ Fail(p) \/ Crash(p)
      PROVE  holds'[q] = holds[q] /\ beat'[q] = beat[q] /\ HandsOff(a)
  <2>1. Others(p)
    BY <1>1, <1>4, ProcessAlone
  <2>2. p # q
    <3>1. CASE Answer(p) \/ Fail(p) \/ Crash(p)
      BY <1>1, <3>1 DEF Answer, Fail, Crash, Errs, Become
    <3>2. CASE Report(p)
      BY <3>2 DEF Report
    <3>. QED
      BY <1>4, <3>1, <3>2
  <2>3. ASSUME Answer(p) \/ Fail(p) \/ Crash(p) PROVE HandsOff(a)
    BY <2>3, KeepsHandsOff DEF Answer, Fail, Crash
  <2>4. ASSUME at[p] \in {"compile", "report"}
        PROVE  holds[p] \in Issued /\ holds[p] # holds[q]
    BY <1>1, <2>2, <2>4 DEF Distinct, Memory
  <2>5. ASSUME Beat(p) PROVE HandsOff(a)
    <3>0. PICK b : b = holds[p]
      OBVIOUS
    <3>1. b \in Issued /\ b # a
      BY <2>4, <2>5, <3>0 DEF Beat
    <3>2. Heartbeat(b) \/ UNCHANGED vars
      BY <2>5, <3>0 DEF Beat
    <3>. QED
      BY <3>1, <3>2, OtherHolder, KeepsHandsOff
  <2>6. ASSUME Report(p) PROVE HandsOff(a)
    <3>0. PICK b : b = holds[p]
      OBVIOUS
    <3>1. b \in Issued /\ b # a
      BY <2>4, <2>6, <3>0 DEF Report
    <3>2. \/ UNCHANGED vars
          \/ \E h : Publish(b, h)
          \/ \E divergent \in BOOLEAN : InvalidOutput(b, divergent)
          \/ \E retry_after \in RetryAfter : Retryable(b, retry_after)
          \/ Permanent(b)
      BY <2>6, <3>0 DEF Report, ReportPage, ReportFailure
    <3>. QED
      BY <3>1, <3>2, OtherHolder, KeepsHandsOff
  <2>. QED
    BY <1>4, <2>1, <2>2, <2>3, <2>5, <2>6 DEF Others
<1>. QED
  BY <1>2, <1>3, <1>4 DEF WorkersNext

\* Only a claim puts a process where it holds a lease.
LEMMA LeaseInHand ==
  ASSUME Memory, AllFit, [WorkersNext]_all, NEW q \in Process,
         at'[q] \in {"compile", "report"}
  PROVE  \/ at[q] \in {"compile", "report"} /\ holds'[q] = holds[q]
         \/ /\ at[q] = "claim" /\ at'[q] = "compile" /\ Others(q)
            /\ Leased /\ holds'[q] = NewLease /\ beat'[q] = BeatEvery
            /\ \E ids \in SUBSET TaskKey, r \in Run : TryClaim(ids, r)
<1>. DEFINE Kept1 == at[q] \in {"compile", "report"} /\ holds'[q] = holds[q]
<1>1. /\ DOMAIN at = Process /\ DOMAIN holds = Process
      /\ DOMAIN beat = Process
  BY DEF Memory, AllFit, Ranges
<1>2. ASSUME NEW p \in Process, p # q, Others(p) PROVE Kept1
  BY <1>2 DEF Others
<1>3. ASSUME q \in Cli,
             \/ StartRun(q) \/ Offered(q) \/ BatchEnds(q) \/ Decide(q)
             \/ Wake(q)
      PROVE  FALSE
  BY <1>1, <1>3 DEF StartRun, Offered, BatchEnds, Decide, Wake, Resume,
                    OpenCircuit, Become
<1>4. ASSUME q \in Server,
             StartServer(q) \/ List(q) \/ Stop(q)
      PROVE  FALSE
  BY <1>1, <1>4 DEF StartServer, List, Stop, Become
<1>5. ASSUME q \in Server, PostedIn(q) \/ Reap(q) \/ ReaperFails(q)
      PROVE  Kept1
  BY <1>5 DEF PostedIn, Reap, ReaperFails, procs
<1>6. ASSUME Beat(q) \/ Answer(q) PROVE Kept1
  BY <1>1, <1>6 DEF Beat, Answer, Become
<1>7. ASSUME Report(q) PROVE FALSE
  BY <1>1, <1>7, ReportPlace DEF Become
<1>8. ASSUME Fail(q) \/ Crash(q) PROVE FALSE
  BY <1>1, <1>8 DEF Fail, Crash, Errs, Become
<1>9. ASSUME Second \/ UNCHANGED all PROVE Kept1
  BY <1>9 DEF Second, all, procs
<1>10. ASSUME q \in Cli, ClaimQueued(q)
       PROVE  /\ at[q] = "claim" /\ at'[q] = "compile"
              /\ Leased /\ holds'[q] = NewLease /\ beat'[q] = BeatEvery
              /\ \E ids \in SUBSET TaskKey, r \in Run : TryClaim(ids, r)
  <2>1. run[q].queued \in SUBSET TaskKey /\ q \in Run
    BY <1>10, RunIds DEF Memory, RunOK
  <2>2. Leased /\ Begin(q)
    BY <1>1, <1>10 DEF ClaimQueued, Become
  <2>. QED
    BY <1>1, <1>10, <2>1, <2>2 DEF ClaimQueued, Begin, Become
<1>11. ASSUME q \in Server, ClaimPicked(q)
       PROVE  /\ at[q] = "claim" /\ at'[q] = "compile"
              /\ Leased /\ holds'[q] = NewLease /\ beat'[q] = BeatEvery
              /\ \E ids \in SUBSET TaskKey, r \in Run : TryClaim(ids, r)
  <2>1. picked[q] \in SUBSET TaskKey
    BY DEF Memory
  <2>2. Leased /\ Begin(q)
    BY <1>1, <1>11 DEF ClaimPicked, Become
  <2>. QED
    BY <1>1, <1>11, <2>1, <2>2, RunIds DEF ClaimPicked, Begin, Become
<1>. HIDE DEF Kept1
<1>12. \/ Kept1
       \/ q \in Cli /\ ClaimQueued(q) /\ Others(q)
       \/ q \in Server /\ ClaimPicked(q) /\ Others(q)
  <2>1. ASSUME NEW c \in Cli,
               \/ StartRun(c) \/ Offered(c) \/ BatchEnds(c)
               \/ ClaimQueued(c) \/ Decide(c) \/ Wake(c)
        PROVE  Kept1 \/ (q \in Cli /\ ClaimQueued(q) /\ Others(q))
    <3>1. Others(c) /\ c \in Process
      BY <2>1, CliAlone DEF Process
    <3>2. CASE c = q
      BY <1>3, <2>1, <3>1, <3>2
    <3>3. CASE c # q
      BY <3>1, <3>3 DEF Others, Kept1
    <3>. QED
      BY <3>2, <3>3
  <2>2. ASSUME NEW w \in Server,
               \/ StartServer(w) \/ List(w) \/ ClaimPicked(w)
               \/ PostedIn(w) \/ Reap(w) \/ ReaperFails(w) \/ Stop(w)
        PROVE  Kept1 \/ (q \in Server /\ ClaimPicked(q) /\ Others(q))
    <3>1. Others(w) /\ w \in Process
      BY <2>2, ServerAlone DEF Process
    <3>2. CASE w = q
      BY <1>4, <1>5, <2>2, <3>1, <3>2
    <3>3. CASE w # q
      BY <3>1, <3>3 DEF Others, Kept1
    <3>. QED
      BY <3>2, <3>3
  <2>3. ASSUME NEW p \in Process,
               Beat(p) \/ Answer(p) \/ Report(p) \/ Fail(p) \/ Crash(p)
        PROVE  Kept1
    <3>1. Others(p)
      BY <2>3, ProcessAlone
    <3>. QED
      BY <1>2, <1>6, <1>7, <1>8, <2>3, <3>1
  <2>. QED
    BY <1>9, <2>1, <2>2, <2>3 DEF WorkersNext
<1>. QED
  BY <1>10, <1>11, <1>12 DEF Kept1
\* Nobody goes back to the model with an answer in hand.
LEMMA ReportStays ==
  ASSUME Memory, AllFit, [WorkersNext]_all, NEW p \in Process,
         at'[p] = "compile"
  PROVE  at[p] # "report"
<1>. SUFFICES ASSUME at[p] = "report" PROVE FALSE
  OBVIOUS
<1>1. DOMAIN at = Process
  BY DEF Memory
<1>2. ASSUME NEW c \in Cli,
             \/ StartRun(c) \/ Offered(c) \/ BatchEnds(c)
             \/ ClaimQueued(c) \/ Decide(c) \/ Wake(c)
      PROVE  FALSE
  <2>1. Others(c)
    BY <1>2, CliAlone
  <2>2. c # p
    BY <1>2 DEF StartRun, Offered, BatchEnds, ClaimQueued, Decide, Wake
  <2>. QED
    BY <2>1, <2>2 DEF Others
<1>3. ASSUME NEW w \in Server,
             \/ StartServer(w) \/ List(w) \/ ClaimPicked(w)
             \/ PostedIn(w) \/ Reap(w) \/ ReaperFails(w) \/ Stop(w)
      PROVE  FALSE
  <2>1. Others(w)
    BY <1>3, ServerAlone
  <2>2. w = p => PostedIn(w) \/ Reap(w) \/ ReaperFails(w)
    BY <1>3 DEF StartServer, List, ClaimPicked, Stop
  <2>. QED
    BY <2>1, <2>2 DEF PostedIn, Reap, ReaperFails, procs, Others
<1>4. ASSUME NEW q \in Process,
             Beat(q) \/ Answer(q) \/ Report(q) \/ Fail(q) \/ Crash(q)
      PROVE  FALSE
  <2>1. Others(q)
    BY <1>4, ProcessAlone
  <2>2. q # p
    <3>1. ~Beat(p) /\ ~Answer(p)
      BY DEF Beat, Answer
    <3>2. ~Report(p)
      BY <1>1, ReportPlace DEF Become
    <3>3. ~Fail(p) /\ ~Crash(p)
      BY <1>1 DEF Fail, Crash, Errs, Become
    <3>. QED
      BY <1>4, <3>1, <3>2, <3>3
  <2>. QED
    BY <2>1, <2>2 DEF Others
<1>5. ~(Second \/ UNCHANGED all)
  BY DEF Second, all, procs
<1>. QED
  BY <1>2, <1>3, <1>4, <1>5 DEF WorkersNext

\* The heartbeat of p: it renews the lease, or it found it lost.
LEMMA BeatShields ==
  ASSUME Ground, Ground', AllFit, MaxErrors = 0, NEW p \in Process,
         Guarded(holds[p], beat[p]), Beat(p)
  PROVE  Guarded(holds[p], beat[p])'
<1>1. /\ p \in DOMAIN beat /\ holds' = holds /\ errors = 0
      /\ holds[p] \in Issued
  BY DEF Beat, Ground, Memory, AllFit, Ranges
<1>2. PICK a : a = holds[p]
  OBVIOUS
<1>3. a.task \in DOMAIN task /\ task[a.task] \in Task
  <2>1. a.task \in DOMAIN task
    BY <1>1, <1>2 DEF Ground, FencingInv, Belongs, Issued
  <2>. QED
    BY <2>1, RowOf DEF Ground, TypeOK
<1>4. BeatEvery \in Nat /\ LeaseWindow \in Nat \ {0} /\ BeatEvery # Null
  BY WorkersAssumption, TimeAssumption DEF BeatEvery
<1>5. CASE Heartbeat(a) /\ beat' = [beat EXCEPT ![p] = BeatEvery]
  <2>1. task' = [task EXCEPT ![a.task].expires = LeaseWindow] /\ Live(a)
    BY <1>5 DEF Heartbeat
  <2>2. /\ task'[a.task].status = "running" /\ task'[a.task].epoch = a.epoch
        /\ task'[a.task].token = a /\ task'[a.task].expires = LeaseWindow
    BY <1>3, <2>1 DEF Task, Live
  <2>3. beat'[p] = BeatEvery
    BY <1>1, <1>5
  <2>4. LeaseWindow >= (LeaseWindow - BeatEvery) + BeatEvery
    BY <1>4
  <2>. QED
    BY <1>1, <1>2, <1>4, <2>2, <2>3, <2>4 DEF Guarded, Live
<1>6. CASE ~Live(a) /\ UNCHANGED vars
  BY <1>1, <1>2, <1>6 DEF vars, Guarded, Live, IsOpen
<1>7. ~(errors < MaxErrors)
  BY <1>1
<1>. QED
  BY <1>2, <1>5, <1>6, <1>7 DEF Beat

\* A second takes one from the lease and one from the time to the heartbeat,
\* which is never late.
LEMMA SecondShields ==
  ASSUME Ground, AllFit, Prompt, BeatEvery < LeaseWindow, NEW p \in Process,
         at[p] = "compile", Guarded(holds[p], beat[p]), Second
  PROVE  Guarded(holds[p], beat[p])'
<1>1. /\ holds' = holds /\ holds[p] \in Issued /\ beat[p] # 0
      /\ beat'[p] = IF beat[p] \in {Null, 0} THEN beat[p] ELSE beat[p] - 1
  BY DEF Second, Ground, Memory
<1>2. PICK a : a = holds[p]
  OBVIOUS
<1>3. a.task \in DOMAIN task /\ task[a.task] \in Task
  <2>1. a.task \in DOMAIN task
    BY <1>1, <1>2 DEF Ground, FencingInv, Belongs, Issued
  <2>. QED
    BY <2>1, RowOf DEF Ground, TypeOK
<1>4. /\ task'[a.task].status = task[a.task].status
      /\ task'[a.task].epoch = task[a.task].epoch
      /\ task'[a.task].token = task[a.task].token
      /\ task'[a.task].expires =
           IF task[a.task].expires > 0 THEN task[a.task].expires - 1
           ELSE task[a.task].expires
  BY <1>3 DEF Second, Tick, Task
<1>5. BeatEvery \in Nat /\ LeaseWindow \in Nat /\ Null \notin Nat
  BY WorkersAssumption, TimeAssumption DEF BeatEvery
<1>6. CASE task[a.task].epoch # a.epoch \/ ~IsOpen(task[a.task])
  BY <1>1, <1>2, <1>4, <1>6 DEF Guarded, IsOpen
<1>7. CASE /\ Live(a) /\ beat[p] # Null
           /\ task[a.task].expires >= (LeaseWindow - BeatEvery) + beat[p]
  <2>1. beat[p] \in 0..BeatEvery
    BY <1>7 DEF AllFit, Fit
  <2>2. /\ beat[p] \in Nat \ {0} /\ beat'[p] = beat[p] - 1
        /\ beat'[p] \in Nat
    BY <1>1, <1>5, <1>7, <2>1
  <2>3. task[a.task].expires \in Nat
    BY <1>3 DEF Task
  <2>. DEFINE e == task[a.task].expires
              b == beat[p]
              left == task'[a.task].expires
              next == beat'[p]
  <2>4. e \in Nat /\ b \in Nat \ {0} /\ next = b - 1 /\ e > 0
        /\ e >= (LeaseWindow - BeatEvery) + b
        /\ left = (IF e > 0 THEN e - 1 ELSE e)
    BY <1>4, <1>7, <2>2, <2>3 DEF Live
  <2>. HIDE DEF e, b, left, next
  <2>5. left > 0 /\ left >= (LeaseWindow - BeatEvery) + next
    BY <1>5, <2>4
  <2>6. left > 0 /\ task'[a.task].expires >=
                      (LeaseWindow - BeatEvery) + beat'[p]
    BY <2>5 DEF left, next
  <2>7. Live(a)'
    BY <1>4, <1>7, <2>6 DEF Live, left
  <2>8. beat'[p] # Null
    BY <1>5, <2>2
  <2>. QED
    BY <1>1, <1>2, <2>6, <2>7, <2>8 DEF Guarded
<1>. QED
  BY <1>2, <1>6, <1>7 DEF Guarded

\* A lease that has just been issued is good for its whole window.
LEMMA ClaimShields ==
  ASSUME Ground, NEW ids \in SUBSET TaskKey, NEW r, TryClaim(ids, r), Leased,
         NEW p \in Process, holds'[p] = NewLease, beat'[p] = BeatEvery
  PROVE  Guarded(holds[p], beat[p])'
<1>1. BeatEvery \in Nat /\ LeaseWindow \in Nat \ {0} /\ BeatEvery # Null
  BY WorkersAssumption, TimeAssumption DEF BeatEvery
<1>2. PICK a : a = NewLease
  OBVIOUS
<1>3. /\ task'[a.task].status = "running" /\ task'[a.task].epoch = a.epoch
      /\ task'[a.task].token = a /\ task'[a.task].expires = LeaseWindow
  BY <1>2, NewLeaseFacts DEF Ground
<1>4. LeaseWindow >= (LeaseWindow - BeatEvery) + BeatEvery
  BY <1>1
<1>. QED
  BY <1>1, <1>2, <1>3, <1>4 DEF Guarded, Live

Exclusive == Distinct /\ OneCompiler /\ \A p \in Process : Shielded(p)

LEMMA NextShields ==
  ASSUME Prompt, MaxErrors = 0, BeatEvery < LeaseWindow,
         Ground, Ground', AllFit, Exclusive, [WorkersNext]_all,
         NEW p \in Process
  PROVE  Shielded(p)'
<1>. SUFFICES ASSUME at'[p] = "compile" PROVE Guarded(holds[p], beat[p])'
  BY DEF Shielded
<1>1. Memory /\ TypeOK /\ FencingInv /\ TypeOK' /\ Distinct
  BY DEF Ground, Exclusive
<1>2. CASE at[p] = "claim"
  <2>1. /\ Leased /\ holds'[p] = NewLease /\ beat'[p] = BeatEvery
        /\ \E ids \in SUBSET TaskKey, r \in Run : TryClaim(ids, r)
    BY <1>1, <1>2, LeaseInHand
  <2>. QED
    BY <2>1, ClaimShields
<1>3. CASE at[p] \in {"compile", "report"}
  <2>1. at[p] = "compile"
    <3>1. at[p] = "report" => at'[p] # "compile"
      BY <1>1, ReportStays
    <3>. QED
      BY <1>3, <3>1
  <2>2. Guarded(holds[p], beat[p])
    BY <2>1 DEF Exclusive, Shielded
  <2>3. CASE Beat(p)
    BY <2>2, <2>3, BeatShields
  <2>4. CASE Second
    BY <2>1, <2>2, <2>4, SecondShields
  <2>5. PICK a : a = holds[p]
    OBVIOUS
  <2>6. PICK b : b = beat[p]
    OBVIOUS
  <2>7. a \in Issued /\ a.task \in DOMAIN task
    BY <1>1, <2>1, <2>5 DEF Memory, FencingInv, Belongs, Issued
  <2>8. GoesOn(a.task)
    BY <1>1, <2>7, WorkersStep, TasksGoOn
  <2>9. CASE /\ WorkersNext \/ UNCHANGED all
             /\ ~Beat(p) /\ ~Second
    <3>1. holds'[p] = a /\ beat'[p] = b /\ HandsOff(a)
      <4>1. CASE WorkersNext
        BY <1>1, <2>1, <2>5, <2>6, <2>9, <4>1, CompilerStays
      <4>2. CASE UNCHANGED all
        BY <2>5, <2>6, <4>2, KeepsHandsOff DEF all, procs
      <4>. QED
        BY <2>9, <4>1, <4>2
    <3>2. Live(a) => Spared(a.task)
      BY <1>1, <2>7, <3>1, LiveIsSpared
    <3>3. Guarded(a, b)
      BY <2>2, <2>5, <2>6
    <3>4. Guarded(a, b)'
      BY <1>1, <2>7, <2>8, <3>2, <3>3, GuardedStays
    <3>. QED
      BY <3>1, <3>4 DEF Guarded
  <2>. QED
    BY <2>3, <2>4, <2>9
<1>. QED
  BY <1>1, <1>2, <1>3, LeaseInHand

LEMMA NextExclusive ==
  ASSUME Prompt, MaxErrors = 0, BeatEvery < LeaseWindow,
         Ground, Ground', AllFit, Exclusive, [WorkersNext]_all
  PROVE  Exclusive'
<1>1. Memory /\ TypeOK /\ FencingInv
  BY DEF Ground
<1>. DEFINE With(p) == at[p] \in {"compile", "report"}
            Kept1(p) == With(p) /\ holds'[p] = holds[p]
            Began(p) == /\ at[p] = "claim" /\ at'[p] = "compile" /\ Others(p)
                        /\ holds'[p] = NewLease /\ Leased
                        /\ \E ids \in SUBSET TaskKey, r \in Run :
                             TryClaim(ids, r)
<1>2. ASSUME NEW p \in Process, at'[p] \in {"compile", "report"}
      PROVE  Kept1(p) \/ Began(p)
  BY <1>1, <1>2, LeaseInHand
<1>3. ASSUME NEW p \in Process, Began(p)
      PROVE  /\ NewLease \notin DOMAIN attempt
             /\ task[NewLease.task].status = "pending"
             /\ task[NewLease.task].epoch = NewLease.epoch
  BY <1>1, <1>3, NewLeaseFacts
<1>4. ASSUME NEW p \in Process, With(p)
      PROVE  holds[p] \in DOMAIN attempt
  BY <1>1, <1>4 DEF Memory, Issued
<1>5. ASSUME NEW p \in Process, NEW q \in Process, p # q,
             Began(p), at'[q] \in {"compile", "report"}
      PROVE  Kept1(q) /\ at'[q] = at[q]
  BY <1>2, <1>5 DEF Others
<1>6. ASSUME NEW p \in Process, NEW q \in Process, p # q, Began(p), Kept1(q)
      PROVE  holds'[p] # holds'[q]
  BY <1>3, <1>4, <1>6
<1>7. ASSUME NEW p \in Process, NEW q \in Process, p # q, Kept1(p), Kept1(q)
      PROVE  holds'[p] # holds'[q]
  BY <1>7 DEF Exclusive, Distinct
<1>8. Distinct'
  <2>. SUFFICES ASSUME NEW p \in Process, NEW q \in Process, p # q,
                       at'[p] \in {"compile", "report"},
                       at'[q] \in {"compile", "report"}
                PROVE  holds'[p] # holds'[q]
    BY DEF Distinct
  <2>. HIDE DEF Kept1, Began, With
  <2>. QED
    BY <1>2, <1>5, <1>6, <1>7
<1>9. ASSUME NEW p \in Process, NEW q \in Process, p # q, Began(p),
             at'[q] = "compile", at[q] = "compile", Kept1(q)
      PROVE  \/ holds'[p].task # holds'[q].task
             \/ holds'[p].epoch # holds'[q].epoch
  <2>1. Guarded(holds[q], beat[q])
    BY <1>9 DEF Exclusive, Shielded
  <2>2. /\ task[NewLease.task].status = "pending"
        /\ task[NewLease.task].epoch = NewLease.epoch
    BY <1>3, <1>9
  <2>. QED
    BY <1>9, <2>1, <2>2 DEF Guarded, Live, IsOpen
<1>10. OneCompiler'
  <2>. SUFFICES ASSUME NEW p \in Process, NEW q \in Process, p # q,
                       at'[p] = "compile", at'[q] = "compile"
                PROVE  \/ holds'[p].task # holds'[q].task
                       \/ holds'[p].epoch # holds'[q].epoch
    BY DEF OneCompiler
  <2>1. CASE Began(p)
    <3>1. Kept1(q) /\ at[q] = "compile"
      BY <1>5, <2>1
    <3>. QED
      BY <1>9, <2>1, <3>1
  <2>2. CASE Began(q)
    <3>1. Kept1(p) /\ at[p] = "compile"
      BY <1>5, <2>2
    <3>. QED
      BY <1>9, <2>2, <3>1
  <2>3. CASE Kept1(p) /\ Kept1(q)
    <3>1. ASSUME NEW x \in Process, at'[x] = "compile", Kept1(x)
          PROVE  at[x] = "compile"
      BY <1>1, <3>1, ReportStays
    <3>. QED
      BY <2>3, <3>1 DEF Exclusive, OneCompiler
  <2>. QED
    BY <1>2, <2>1, <2>2, <2>3
<1>. QED
  BY <1>8, <1>10, NextShields DEF Exclusive

LEMMA InitExclusive == WorkersInit => Exclusive
BY WorkersAssumption
DEF WorkersInit, Exclusive, Distinct, OneCompiler, Shielded

\* With heartbeats that are neither late nor broken, and come before the lease
\* they renew runs out, no two processes ever ask the model for the same epoch
\* of a task, however long the model takes and whoever crashes.
THEOREM CompilersStayAlone ==
  ASSUME Prompt, MaxErrors = 0, BeatEvery < LeaseWindow
  PROVE  WorkersSpec => []OneCompiler
<1>1. WorkersInit => Exclusive
  BY InitExclusive
<1>2. /\ Ground /\ Ground' /\ WorkersInv /\ Exclusive /\ [WorkersNext]_all
      => Exclusive'
  BY NextExclusive DEF WorkersInv
<1>3. WorkersSpec => []Exclusive
  BY <1>1, <1>2, GroundInvariant, WorkersInvariant, PTL DEF WorkersSpec
<1>4. Exclusive => OneCompiler
  BY DEF Exclusive
<1>. QED
  BY <1>3, <1>4, PTL
=============================================================================
