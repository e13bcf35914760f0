------------------------------ MODULE Preflight ------------------------------
(***************************************************************************)
(* The compatibility preflight (compile/compatibility.rs) before the first *)
(* admission of a run or of a posted batch, over the compile tables.       *)
(*                                                                         *)
(* The matrix of a domain pack names the versions it can live with.  The   *)
(* check looks for accepted pages of other versions and then, under        *)
(* another lock, for pending, running and dead tasks of other versions; a  *)
(* run that finds one admits nothing and leaves an alert in the review     *)
(* queue.  Nothing is locked between the two reads, nor between the second *)
(* one and the admissions it allows, and everybody else goes on meanwhile. *)
(*                                                                         *)
(* All versions of the matrix are part of content_hash, so that a row's    *)
(* hash says what it was made with.  A missing or malformed version is one *)
(* that no matrix accepts.                                                 *)
(***************************************************************************)
EXTENDS CompileStore

CONSTANTS
  Runner,    \* runs, posted batches and inspections
  Inspector, \* those that only report: domain check, Compatibility.Check
  Built,     \* the configuration a runner compiles with
  Matrix     \* what a configuration accepts: sets of versions, or Null

ASSUME RunnerAssumption ==
  /\ Inspector \subseteq Runner
  /\ \A r \in Runner : Built[r] \in Config
  /\ \A c \in Config : DOMAIN c.build = {"schema", "prompt", "artifact"}

VARIABLES
  check,     \* runner -> how far its check is
  alerts,    \* compatibility_conflict rows, by the identity in subject_json
  standing,  \* history: alien rows that were there ever since its check began
  carried,   \* history: hashes some alien row has had ever since then
  met        \* history: an alien row was there at some moment of the check

checks == <<vars, check, alerts, standing, carried, met>>

-----------------------------------------------------------------------------
(* What a matrix does not accept.                                          *)

\* check_artifact_field and check_semver_field: pages have no schema and no
\* prompt version, tasks have all four.
AlienPage(m, c) == c.pack \notin m.pack \/ c.build.artifact \notin m.artifact
AlienTask(m, c) ==
  \/ AlienPage(m, c)
  \/ c.build.schema \notin m.schema
  \/ c.build.prompt \notin m.prompt

Row(table, key, hash) == [table |-> table, key |-> key, hash |-> hash]

\* compatibility_page_identities and compatibility_task_snapshots.
Pages == {Row("pages", e, page[e].hash) : e \in DOMAIN page}
Tasks == {Row("compile_tasks", k, task[k].hash) :
            k \in {j \in DOMAIN task :
                     task[j].status \in {"pending", "running", "dead"}}}

AlienPages(r) ==
  {x \in Pages : AlienPage(Matrix[Built[r]], x.hash.config)}
AlienTasks(r) ==
  {x \in Tasks : AlienTask(Matrix[Built[r]], x.hash.config)}
Aliens(r) == AlienPages(r) \cup AlienTasks(r)
Hashes(rows) == {x.hash : x \in rows}

-----------------------------------------------------------------------------
(* The check of one runner.                                                *)

Forget(r) ==
  /\ standing' = [standing EXCEPT ![r] = {}]
  /\ carried' = [carried EXCEPT ![r] = {}]
  /\ met' = [met EXCEPT ![r] = FALSE]

\* A run with --skip-compatibility-check: has_existing_compile_data, once at
\* the start of the command, which ends if the database holds anything.
\* Without a matrix there is nothing to skip.
SkipCheck(r) ==
  /\ check[r] = "idle" /\ Matrix[Built[r]] # Null /\ r \notin Inspector
  /\ Pages = {} /\ Tasks = {}
  /\ check' = [check EXCEPT ![r] = "cleared"]
  /\ UNCHANGED <<vars, alerts, standing, carried, met>>

ReadPages(r) ==
  /\ check[r] = "idle" /\ Matrix[Built[r]] # Null
  /\ check' = [check EXCEPT ![r] = IF AlienPages(r) = {} THEN "pages_fit"
                                   ELSE "pages_alien"]
  /\ standing' = [standing EXCEPT ![r] = Aliens(r)]
  /\ carried' = [carried EXCEPT ![r] = Hashes(Aliens(r))]
  /\ met' = [met EXCEPT ![r] = Aliens(r) # {}]
  /\ UNCHANGED <<vars, alerts>>

FaultyReadTasks(r) ==
  /\ check[r] \in {"pages_fit", "pages_alien"}
  /\ check' = [check EXCEPT ![r] = IF AlienTasks(r) = {} THEN "cleared"
                                   ELSE "refused"]
  /\ Forget(r)
  /\ UNCHANGED <<vars, alerts>>
ReadTasks(r) ==
  /\ check[r] \in {"pages_fit", "pages_alien"}
  /\ check' = [check EXCEPT
        ![r] = IF check[r] = "pages_fit" /\ AlienTasks(r) = {}
                 THEN "cleared" ELSE "refused"]
  /\ Forget(r)
  /\ UNCHANGED <<vars, alerts>>

\* insert_compatibility_conflict_review, in a transaction of its own: one row
\* for an identity, however often it is refused and whatever was decided.
Alert(r) ==
  /\ check[r] = "refused" /\ r \notin Inspector
  /\ alerts' = alerts \cup {Built[r]}
  /\ check' = [check EXCEPT ![r] = "idle"]
  /\ UNCHANGED <<vars, standing, carried, met>>

\* The run is over, or an error or a crash ends it, at whatever point.
Stop(r) ==
  /\ check[r] # "idle"
  /\ check' = [check EXCEPT ![r] = "idle"]
  /\ Forget(r)
  /\ UNCHANGED <<vars, alerts>>

-----------------------------------------------------------------------------
(* What goes on meanwhile.                                                 *)

\* One check clears all admissions of a run; a run without a matrix needs
\* none.
AdmitCleared(r) ==
  /\ r \notin Inspector
  /\ check[r] = "cleared" \/ Matrix[Built[r]] = Null
  /\ \E s \in Source, p \in Policy, force \in BOOLEAN :
       Admit(s, Built[r], p, force)

\* Everything of the store but admission is done by others, unchecked.
Work ==
  \/ \E s \in Seeded : UpsertFacts(s)
  \/ \E ids \in SUBSET TaskKey, r \in Run : Claim(ids, r)
  \/ \E a \in Issued : Heartbeat(a)
  \/ \E a \in Issued, h \in ContentHash : Publish(a, h)
  \/ \E a \in Issued, divergent \in BOOLEAN : InvalidOutput(a, divergent)
  \/ \E a \in Issued, retry_after \in RetryAfter : Retryable(a, retry_after)
  \/ \E a \in Issued : Permanent(a)
  \/ Recover
  \/ \E k \in DOMAIN task : \E epoch \in 1..task[k].epoch :
       QuarantinePreflight(k, epoch)
  \/ Tick
  \/ NewDay

\* The histories of the checks that are between their two reads.
Between(r) == check[r] \in {"pages_fit", "pages_alien"}

Follow ==
  /\ standing' = [r \in Runner |->
       IF Between(r) THEN standing[r] \cap Aliens(r)' ELSE {}]
  /\ carried' = [r \in Runner |->
       IF Between(r) THEN carried[r] \cap Hashes(Aliens(r))' ELSE {}]
  /\ met' = [r \in Runner |->
       Between(r) /\ (met[r] \/ Aliens(r)' # {})]

-----------------------------------------------------------------------------
PreflightInit ==
  /\ Init
  /\ check = [r \in Runner |-> "idle"]
  /\ alerts = {}
  /\ standing = [r \in Runner |-> {}]
  /\ carried = [r \in Runner |-> {}]
  /\ met = [r \in Runner |-> FALSE]

PreflightNext ==
  \/ \E r \in Runner :
       \/ SkipCheck(r)
       \/ ReadPages(r)
       \/ ReadTasks(r)
       \/ Alert(r)
       \/ Stop(r)
  \/ /\ Work \/ \E r \in Runner : AdmitCleared(r)
     /\ Follow
     /\ UNCHANGED <<check, alerts>>

PreflightSpec == PreflightInit /\ [][PreflightNext]_checks

-----------------------------------------------------------------------------
(* What a check promises, although nothing is locked between its reads.    *)

\* A row that was alien all the time since the check began is found, and a
\* check that refuses has met an alien row: work that is over, or that was
\* taken over by a configuration the matrix accepts, refuses nobody.
ChecksAreExact ==
  [][\A r \in Runner : Between(r) =>
       /\ check'[r] = "cleared" => standing[r] = {}
       /\ check'[r] = "refused" => met[r]]_checks

\* step8-consistency-state-machine.en.md, 6.4: every accepted page and every
\* pending, running and dead task is checked.  What a running task publishes
\* between the two reads is in neither of them: the page was not there when
\* the pages were read, and the task is over when the tasks are.
AlienWorkIsFound ==
  [][\A r \in Runner : Between(r) /\ check'[r] = "cleared" =>
       carried[r] = {}]_checks
=============================================================================
