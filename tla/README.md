# Wiktor in TLA+

This directory specifies the parts of Wiktor whose correctness depends on the
order in which things happen, and the algorithms that decide what is stored and
what is found. The specifications are translated from the code of this repository;
TLC checks them on small instances, and TLAPS proves the most important properties
for all values of the constants. `PROJECT.json` maps every definition to the lines it
translates and lists the runs, the hazards and the theorems.

Wiktor compiles sources (raw records with declared fields) into pages with an LLM,
keeps the declared fields as facts, derives a graph of phrases from the pages, and
answers queries from all three. All state but the vector index is in one SQLite
database. The compile queue, budgets, leases, publication, review queue, feedback
intake and graph builds are tables of it, and several processes or tasks work on them
at once: the CLI, the server's worker and handlers, the lease reaper, the heartbeat
tasks, the reviewer.

## The system's parts

| Part | State it keeps | Operations | What is hard, and what makes it correct |
|---|---|---|---|
| **Compile store** `kernel/compile_store.rs` | facts, source heads, tasks, attempts, pages, generations, run and day budgets, review rows | admit, claim, heartbeat, publish, finish with failure, recover leases, preflight quarantine | late, repeated and lost calls by many holders; three budgets; epochs. Leases are fenced, an epoch is accepted once, nothing is overspent, no task is stranded, the planes stay ordered |
| **Facts plane** `kernel/sqlite.rs`, `schema/facts.rs` | `facts`, `fact_refs`, FTS | upsert under a revision CAS, filter, search | written from two paths (admission, seed). Facts never go back; a filter means what it says |
| **Executor and lease services** `compile/executor.rs`, `compile/lease.rs` | none that lasts; task leases and heartbeat tasks in memory | run (preflight, admit batch, claim loop, compile, judge, publish), heartbeat, reaper pass | heartbeat and work race; a worker can die at any await; the worker's configuration may differ from the task's. Every admitted task ends, or somebody is told |
| **Compatibility** `compile/compatibility.rs` | alerts in the review queue | check before the first admission of a run or a batch | two reads without a common lock, and admissions long after them. Whatever stands is found, nothing that is over refuses anybody |
| **Hash, policy, projection** `compile/hash.rs`, `compile/config.rs` | none | `content_hash`, `snapshot_hash`, `prepare_source`, validation of limits | what is in which hash decides what is recompiled |
| **Contract, quality, consistency** `compile/{contract,quality,consistency}.rs` | none | decode, validate refs and assertions, score, compare with related pages | pure functions with numeric edges. An accepted page says only what its source says |
| **LLM clients** `compile/{llm,mock}.rs` | none | one request | classification of failures into the three kinds the store knows |
| **Feedback store, review queue** `kernel/feedback_store.rs` | feedback rows, review rows | ingest (idempotent), propose, approve, ignore | a review is decided while its task moves on; repeated ingestion. A decision is made once and means work for somebody |
| **QUG store and build** `kernel/qug_store.rs`, `query_engine/qug/` | builds, snapshots, edges, the mirror `qug_edges` | assemble, derive, publish, load, rewrite a query | two builds at once; pages published meanwhile. A published graph is the graph of the pages of that moment |
| **Query engine, cache** `query_engine/` | LRU cache keyed by generation | search | an answer computed across a publication and remembered after it |
| **Vectors** `embedding/`, `traits/vector_store.rs`, `wiktor-vector-qdrant` | external points | upsert, search | not transactional with SQLite; old points stay |
| **Server** `wiktor-server` | rate-limit windows, metrics, worker task | route, authenticate, limit, run the worker, shut down | shutdown during work; clocks read before locks |
| **Feedback analyzer** `wiktor-feedback`, `commands/feedback.rs` | report files | read a window, propose reviews, write reports | repeated proposals; a command that stops half way |
| **Seed, migrations, evaluation, CLI, console, adapters** | schema rows | run once, or pass through | not concurrent with themselves |

How they interact: the CLI and the server's worker call the executor, which calls
the store; the reaper and the heartbeats call the store by themselves; approval of
a review row admits a task again; the analyzer turns logs and feedback into review
rows; graph builds and searches read what was published. Every public method of the
SQLite kernel takes the connection's mutex and runs one `BEGIN IMMEDIATE`
transaction. Therefore each method is one atomic action of the models, and the
interleavings are those of whole methods. What a caller knows between two calls may
be stale, and that is where the properties aim.

## How the modules hang together

```
CompileStore ---- CompileWorkers (servers and CLI runs; implements CompileStore)
  |  |  |-------- Preflight      (checks before admissions; implements CompileStore)
  |  |----------- ReviewQueue    (decisions; revivals are steps of its own)
  |-------------- DocumentedClaims
PublishedGraph <- QugBuilds (implements it) ---- Serving (implements QugBuilds)
                                   FactFilters --/  |
                                        \------- Rewriting
Judgement + Rewriting ---- Grounding (accepted pages -> graph -> rewritten query)
FeedbackLoop
```

### Compile tables

* **CompileStore** models `compile_store.rs`. A table is a function from the keys of
  its rows:

  | Variable | Table |
  |---|---|
  | `facts` | `facts` (one row per entity; see *Not modelled*) |
  | `head` | `compile_source_heads` |
  | `task`, `next_id` | `compile_tasks`, by (entity, source revision, pack version) |
  | `attempt` | `compile_attempts`, by (task, epoch, attempt number) |
  | `page`, `generation` | `pages`, and the generation counter |
  | `runs`, `days`, `day` | `compile_runs`, `compile_daily_budget`, the UTC day |
  | `review` | the rows of `review_queue` about tasks |

  | Action | Method |
  |---|---|
  | `Admit` with `Skip`, `Merge`, `Restart`, `InsertTask` | `admit_compile_on_conn` and the branches it ends in |
  | `UpsertFacts` | `EntityStore::upsert_facts` (`wiktor seed`) |
  | `Claim` with `Lease`, `Defer` | `claim_in_transaction`: the candidate is leased, or only the budget rows are opened |
  | `Heartbeat`, `Publish` | `heartbeat_compile`, `publish_in_transaction` |
  | `InvalidOutput`, `Retryable`, `Permanent` | `finish_failure_in_transaction`, one per `CompileFailure` |
  | `Recover` | `recover_compile_leases` |
  | `QuarantinePreflight` | `quarantine_compile_preflight` |
  | `Tick`, `NewDay` | the clock |

  A call that the store refuses changes nothing and is a stutter. The callers are
  the most general ones: any attempt that was ever issued may be presented again at
  any time, under any outcome. So a worker that dies is one that presents nothing
  more, a lost answer is one that is presented twice, and a late one is presented
  after recovery. A lease token is the attempt it was issued for, which is what makes
  tokens unique (`next_token` is a UUID). `lease_expires_at` and `next_attempt_at`
  are kept relative to the clock; `Horizon` bounds for how long overdue tasks keep
  their relative age.

* **DocumentedClaims** states what `docs/design` says of these tables and the code
  does not do.

* **CompileWorkers** extends `CompileStore` with the processes that call it: servers
  (`worker.rs` with the reaper of `lease.rs`, and `Compile.Admit` beside it) and CLI
  runs (`executor.rs`). A step is what happens between two await points, so that the
  clock and every other process can move in between.

  | Variable | In the code |
  |---|---|
  | `at` | where the task of the process is |
  | `holds`, `answer`, `beat` | the `TaskLease` of `process_lease`, what the model answered, the timer of `LeaseHeartbeat` |
  | `picked` | the ids `list_due_compile_task_ids` gave a worker |
  | `run` | the locals of `run_real_scheduling`: what is left to scan, `seen`, `queued`, `retry_at`, the wait budget, `CompileStats` |
  | `reaping` | whether a server's reaper task still runs |
  | `halts`, `errors` | bounds on stops and crashes, and on errors of reapers and heartbeats |

  | Action | Code |
  |---|---|
  | `StartRun`, `Offered`, `BatchEnds` | `run_real`; one scanned record; from admission to scheduling |
  | `ClaimQueued`, `Decide`, `Wake` | the claim of the scheduling loop; what it does with `Ok(None)`; the end of its sleep |
  | `StartServer`, `List`, `ClaimPicked`, `Stop` | `CompileWorker::spawn` and `run_loop` |
  | `PostedIn` | `admit_batch` for `Compile.Admit` |
  | `Reap`, `ReaperFails` | one pass of `LeaseReaper`; a pass that errs, which ends it |
  | `Beat`, `Answer`, `Report` | one heartbeat; the model answers and the heartbeat is joined; `publish_compile` or `fail_lease` |
  | `Fail`, `Crash` | any `?` of `process_lease`; the process is killed |
  | `Second` | the clock, with the timers that follow it |

  `Own` gives each process its configuration: `normalize_page` computes the page's
  hash with the worker's policy and schema and the lease's context.

* **Preflight** extends `CompileStore` with the compatibility check. A `Runner` is a
  run, a posted batch or an inspection; `ReadPages` and `ReadTasks` are the two reads
  of `StandardCompatibilityChecker::check`, between which anything else may happen;
  `Alert` is the review row a refused run leaves, in a transaction of its own;
  `AdmitCleared` is an admission after a check, `SkipCheck` the flag
  `--skip-compatibility-check`. `Work` is every other step of the tables, unchecked.
  A configuration's `Matrix` says which versions it accepts. `standing`, `carried`
  and `met` are histories of one check and only the properties read them.

* **ReviewQueue** extends `CompileStore` with the decisions of a reviewer. The rows
  about tasks are `CompileStore`'s `review`; the others are `queue`, by subject. A
  decision and what it admits are one transaction and one action
  (`ApproveProposal`, `ApproveDeadLetter`, `ApproveConflict`, `ApproveNotice`,
  `IgnoreRow`, `IgnoreTaskRow`); `Suggest` is what the analyzer inserts. `Readmit`
  brings a dead task back with the source, context and policy archived in its row.

### Feedback

* **FeedbackLoop** models `POST /feedback` as the steps of a handler (`Arrive`, `Acquire`
  a slot of the rate limiter, `Store` the batch, `Answer`), the query log, a restart of
  the server, and the numbers of the rows: `lastId` is what `AUTOINCREMENT` gave out last,
  and an insert that `ON CONFLICT DO NOTHING` ignores may use up `Waste` numbers, which
  SQLite leaves open; so ids have gaps. The analysis is `wiktor feedback analyze`: `Load`
  reads logs and events of a window in one transaction and computes the suggestions,
  `Insert` queues them, `Write` renames one report file at a time, and `Abort` may end it
  anywhere.

### Graph and search

* **PublishedGraph** is the abstract specification of the graph store: two variables,
  the accepted pages and the published graph of every pack version; a publication sets
  a version's graph to the graph of the pages of that moment, at once.
* **QugBuilds** is the detailed one: `Assemble` takes the snapshot and derives the edges,
  `AskHash` and `AskIdentity` are the reads that may reuse a build, `PublishBuild`
  compares the snapshot with the accepted pages in its transaction and writes the
  build, the superseded one and the mirror. `Abandon` stops a builder between any two of
  these. `PublishPage` is what the compile store does to pages meanwhile; `Reload` is
  an engine taking the published graph, or finding it stale.
* **Serving** extends `QugBuilds` and `Rewriting` with `QueryEngine::search`: one action
  per read (`ReadKey`, `Hit`, `Miss`, `Retry`, `FullText`, `Vectors`, `Fuse`, `Remember`),
  the cache with eviction, `wiktor vector build` in two steps, writes of facts, restarts.
  `Planned` is the query as the server's graph rewrites it: the terms, and the filters
  that scope the answer, which are the request's with the conditions of the matched edges
  merged into them. So a question without a filter may be scoped by facts. `asof`, the
  number of facts writes when a search began, is a history that only the properties read.
* **FactFilters** is what a filter means (`filter_where`), and the one relaxation;
  **Rewriting** is `QugGraph::rewrite` with `push_merged`: the loops of the code as
  recursive functions over positions, one step of a loop as an operator of its own
  (`PushIf`, `Loop`), so that the proofs can unfold them.

### From sources to searches

* **Judgement** is what becomes of a model's answer: `decode_response`, the validator of
  refs and assertions, the scores as exact fractions, the arbiter over related pages,
  the gates. Texts are sequences of words, so that a quote is a subsequence of
  neighbouring words. `Judge` and `Revise` are its actions.
* **Grounding** puts `Judgement` and `Rewriting` together: accepted pages give the graph
  its aliases and tags, and a query is rewritten over it, merged with the caller's
  filters, and relaxed once. `Load` is a server taking a graph, at its start or at a
  reload; `loaded` keeps the pages that it is of, while the accepted ones go on to other
  revisions, and `Ask` rewrites with what was loaded, or without a graph.

### Constants and faults

**MCCompileStore**, **MCCompileWorkers**, **MCPreflight**, **MCReviewQueue**,
**MCFeedbackLoop**, **MCServing** and **MCGrounding** have the constants of the runs.

Definitions named `Faulty...` are not part of a model. Each is the form that the next
definition would take with a plausible bug in it (a dropped guard, an off-by-one, a
forgotten row), and the mutant list of `PROJECT.json` says which property notices.

## Runs

States are distinct states found by TLC.

| Run | What happens in it | What it shows | States |
|---|---|---|---|
| `preflight` | one source under three configurations (an old build without a matrix, a new one that refuses it, an operator's next one), two retries, one recompile, two epochs, a lease of two ticks, Retry-After of none, 0 and 9 (clamped to 2), quarantine of oversized input, forced admissions, checks that start, are refused, end or die at any time | `LeaseOwnership`, `OneAcceptancePerEpoch`, `OpenTasksHaveRetriesLeft`, `DeadTasksAreEscalated`, `HeadsNameTheirTask`, `TerminalUntilNewEpoch`, `OutcomesAreFinal`; and of the checks `ChecksAreExact` | 599,689 |
| `revisions` | one revision offered with two contents under two packs, so that it has two tasks; a facts-only successor whose facts may be imported first; an oversized body | `OneSnapshotPerRevision`, `PagesAreBacked`, `PlanesAreOrdered`, `PublishIsFenced`, `RevisionsNeverRegress` | 444,136 |
| `budgets` | two tasks, two run ids, two days, three policies with and without a daily budget | `LedgersAgree`, `ClaimsAreCharged` | 430,658 |
| `worker_mixed` | a run over two revisions of a drink and an oversized one, in batches of one; a server with another schema, to which the drink and a rival snapshot of it are posted; a lease of one second, one error of a reaper or heartbeat | `StatsAddUp`, `StoreIsKept` (the composition implements `CompileStore`'s `Spec`), `RunsReleaseTheirLeases` | 300,276 |
| `worker_live` | a server and a run over one task that is also posted, with force; Retry-After of none and 2 against a wait budget of 1; any number of internal errors, one stop or crash | `OneCompiler`, `EveryTaskIsDecided`, `RunsEnd`, and the type invariant of tables and processes | 151,054 |
| `reviews` | a revision and a facts-only successor, a policy under which one failure is a death; a proposal, a sample and a notice; any order of work, deaths and decisions, two epochs | `ConflictsAreConverted`, `DecisionsAreFinal`, `ApprovalsAreWork`, `RevivalsAreFenced` | 155,316 |
| `feedback` | two clients with batches that share keys, two domains, a limit of one per window of one second, which rolls over, one crash; an insert that is ignored uses up a number; an analysis that reads, queues and writes, again and again | `BatchesAreWhole`, `CountersAgree`, `ReportsAreBacked`, `AnswersAgree` | 1,305,742 |
| `serving` | five loads: two builders against two publications; two builds of packs that differ in their field types only; a search against publications, indexing and restarts; a filtered search against a write of facts; and a search without a filter whose words call for one in the graph | `BuildsKeepThePromise` (`QugBuilds` implements `PublishedGraph`), `GraphsAreCurrent`, `MirrorIsTheNewestBuild`, `CacheIsCurrent`, `CachedChunksAreCurrent` | 714,068 |
| `grounding` | two drinks with two revisions; answers that are sound or wrong in one of some thirty ways, and a graph that is loaded and lags them; queries with up to two filters over graphs with up to two configured conditions | `AcceptedPagesAreGrounded`, `ArbiterIsSilent`, `MergeIsExact`, `RelaxationOnlyWidens`, `TermsAreQuoted` | 18,269 |
| `regress` | a revision, a facts-only successor, two model versions | violates `PageRevisionsNeverRegress` | |
| `preflight_race` | as `preflight` | violates `AlienWorkIsFound` | |
| `relaxation` | as `grounding` | violates `UnboundIsUnrestricted` | |

The bounds, and why they are enough.

*Compile tables.* Time is relative and needs no bound. `MaxEpoch` is 2 where epochs
matter: an epoch that was left, and its successor, are all that an old holder can
confuse; in `revisions`, where tasks and not epochs compete, it is 1. A lease window of
2 separates a lease that is about to expire from one that has been renewed; where
renewal does not matter it is 1. Two retries give a first failure and the last, and
reach the backoff table's first entry; one recompile separates the epoch that may be
recompiled from the one that may not. Two entities are what two tasks need to compete for
one run's budget; two runs and two days are what the run and day ledgers need to be
mixed up. The budgets are small enough to run out in each of the three ledgers before
the others.

*Preflight.* Three configurations are the least with which a page and a task can be alien
to different runners: the new build accepts nothing of the old one, and the next one
accepts the old one's pages and not its tasks. One source suffices, since a check looks
at rows one by one, and what it can miss is a row that moves from one table to the other.

*Processes.* One server and one CLI run are the smallest system in which a task is
claimed under somebody else's feet; more of either only repeats the pairs.
`Concurrency` (how many ids a worker lists) is 1, its default. `MaxWait` stands for
`MAX_BACKOFF_WAIT_SECONDS` and is small so that it does run out. `LeaseSeconds` is the
policy's `lease_seconds`, which no configuration file can change and which therefore
always is the tables' window; two seconds are the smallest for which the heartbeat
comes before the end. Workers give every pass a run id of its own, so the budget of a
run never binds them: `Pass` stands for all of these ids and the batch budget is large.

*Feedback.* Of two batches, one has two new events, and the other repeats a key of the
first with other content and has an event whose log may be of another domain, or not
there yet; posted by two clients, they give every way in which a batch can be known or
refused in part. `MinEvents` 2 and `MaxItems` 1 make the threshold and the cap bind. The
limiter's window is one second and admits one request, and `MaxTime` is 1: the window of
second 0 fills up and rolls over in second 1. `Waste` 1 is enough for gaps.

*Graph and search.* `MaxPublications` and `MaxBuilds` are 2: a page that is republished
after a snapshot, and a build that supersedes one. Each `Load` spends the states on one
race; the packs `Milk` and `Retyped` differ in what no hash covers, `Milk` and `Next2` in
their version. `Called` builds a graph with a configured word that asks for a price, so
that facts are written under an answer to a question that has no filter. `MaxMatches` (16)
and `MaxTerms` (64) are the code's.

*Judging.* Of the three kinds of `Domain`, one only compiles pages, one loads graphs of
them and asks, and one merges filters without pages. Where graphs are loaded, `Linked`
leaves out answers that are refused, and pages without an alias or a tag, which add
nothing to a graph; and a tag can be the whole note of a revision, so that the next
revision's sources do not have it any more and a lagging graph does. An answer has up to
two sections, refs and assertions; `SlipRefs` has one slip of every kind the contract
knows, and the other answers differ from the sound one in how an assertion uses its refs
or in what stands outside the sections. `MCSource` gives the two drinks words in common,
so that a ref of the one fits the other. Conditions of every kind the code merges meet
each other; lists of references come from three references, so that two lists have
something in common or nothing, which is what `MergeIsExact` depends on.

`CHECK_DEADLOCK` stays on where a clock never stops; it is off in `feedback` and `serving`,
where the bounds let everything come to rest. Symmetry is used for run ids, clients and
builders only, in runs without liveness properties.

Deadlock is not the liveness question of this program; a task that waits for ever is.
`FairWorkersSpec` states what the processes give: timers fire (`Second`, `Beat`, `Reap`),
tokio polls a task that can go on (the steps of a run, of a worker's loop and of a
report), a request to a model ends (its client has a timeout), and a server that is down
is started again. It does not assume that nothing fails: a process may meet an internal
error each time it holds a lease, and `worker_live` shows that even then every task ends,
since each lease that is recovered costs a retry. Stops and crashes are finite
(`MaxHalts`), and reapers meet no error in that run (`MaxErrors` is 0), for a reaper that
errs never comes back (below): `EveryTaskIsDecided` promises nothing after that. `Prompt`
is the assumption of `OneCompiler`: no second passes between a heartbeat's time and the
heartbeat.

## Refinements

| Detailed | Abstract | What is hidden | Checked by | Proved by |
|---|---|---|---|---|
| `CompileWorkers` | `CompileStore` | the memory of the processes | `StoreIsKept` in `worker_mixed` | `ProcessesKeepTheStore` |
| `Preflight` | `CompileStore` | checks and alerts | | `PreflightKeepsTheStore` |
| `QugBuilds` | `PublishedGraph` | builds, snapshots, builders, the mirror | `BuildsKeepThePromise` in `serving` | `BuildsImplementPromise` |
| `Serving` | `QugBuilds` | searches, cache, index, facts | `BuildsKeepThePromise` in `serving` | `ServingImplementsBuilds`, `ServingKeepsThePromise` |

`ReviewQueue` is no refinement of `CompileStore`: a decision changes the row of a dead
letter or a conflict in the same step that admits its task, and the store decides
nothing. Its proofs carry the invariants over one by one.

## Where the documents and the code differ

Three divergences are shown by runs.

1. **A page can go back to an older revision** (`regress`). Publication compares the
   head's `desired_hash` with the task's, not the revision. A revision that changes
   only facts has the same hash, so a task of revision 1 that is still running after
   revision 2 was published puts `pages.source_revision` back to 1.
2. **A check can miss work that becomes a page** (`preflight_race`). The accepted pages
   are read under one lock and the tasks under another. A running task of an
   incompatible configuration that publishes in between is in neither.
3. **A range relaxed to nothing restricts everything** (`relaxation`). The upper bound of
   a range without a lower one is dropped and the empty range stays; filters that make
   no clause have no candidate.

The others were met while modelling; the models do what the code does.

*Compile store and workers*

* Going back to an earlier configuration may compile nothing: the row of the earlier pack
  version is terminal and has the same hash, so it stays as it is, and the head wants a
  hash that no page has (`compile_store.rs:1170`, against step 4's rollback).
* A claim does not look at the head (`compile_store.rs:1281`): work is charged that
  publication can only refuse.
* A task budget that is too small leaves the task pending and first in every claim
  (`compile_store.rs:1308`), whereas step 4 makes it terminal.
* The reaper ends at its first error (`lease.rs:97`), and the server, which looks at it
  only when it stops itself, goes on without one.
* `admit_batch` has no preflight of sizes (`executor.rs:480`): an oversized or empty
  record that is posted is queued, whereas a run refuses it.
* The tables lease for a constant of their own, `LEASE_WINDOW_SECONDS`
  (`compile_store.rs:48`); the policy's `lease_seconds` only sets how often a heartbeat
  comes, half of it (`lease.rs:119`). No pack can change it, but a caller of the library
  can, `validate` allows it (`config.rs:415`), and from 600 on the first heartbeat comes
  after the lease has ended. `CompilersStayAlone` asks for what the default gives.
* A run reports an open budget circuit when somebody else has claimed its task, because a
  task that it has not failed itself counts as due (`executor.rs:859`). Shutdown cancels
  no active task: `run_loop` looks at its token between tasks.
* A replayed publication answers the entity's newest generation, not its own
  (`compile_store.rs:1486`).
* `HeartbeatHandle` has no `Drop` (`lease.rs:204`): after a panic of the model call the
  heartbeat would keep the lease alive. Panics are not modelled.

*Compatibility*

* step 8 has the alert inserted in the transaction of the admission; the code uses one of
  its own.
* A check covers the domain of the first record of the first batch; `--skip-...` looks at
  the database once before the run.
* A dead task of an old pack refuses every later run until it is decided; a decided alert
  swallows the later refusals of the same identity, whose `reason_json` stays the first's.
* A matrix is not compared with the pack's own versions (`config.rs:443`), so that a pack
  can exclude itself. Pages of `wiktor seed` have no `quality_policy` and so no versions.
  Approval of a dead letter admits without a check.

*Review queue and feedback*

* A task that dies again after its dead letter was decided gets no new one, since the
  unique key has no epoch (`feedback_store.rs:1615`).
* Approving the dead letter of an older pack takes the head back to that pack
  (`feedback_store.rs:983`), as its guard compares revision and snapshot only. Approval of
  a conflict does not ask whether the task is dead.
* The review service commits and may answer an error afterwards.
* `rate_limit.rs:69`: the clock is read before the lock, so a request of an older window
  resets the newer one.
* step 6 deduplicates suggestions by domain and query; the subject also holds log ids and
  counts, so that the same query is proposed again, and a page is not when its new window
  has the same counts.
* Only `post_feedback` has a rate limit, whereas step 7 says every handler. The page of a
  rating is not checked. `received_at` is read before the transaction.
* Two analyses, or one that stops, can leave three report files of different reports.

*Graph and search*

* `invalidate_entity_ids` is never called, against step 14 and `cache.rs:17`: facts, seeds
  and vectors change without a new generation, and filtered or vector answers outlive
  them, and so do answers to questions without a filter whose words match an edge with a
  condition (`mod.rs:506`). `CacheIsCurrent` says which answers are current: those that
  facts do not scope, and those with no facts written since their search began.
* The source hash covers the `qug` section of `domain.yaml` and not the field types, which
  decide what an intent's filter is (`GraphsAreCurrent` says up to what).
* A server does not load the graph anew after `QugBuild`; `wiktor serve` refuses to start on
  a stale build, where steps 5 and 13 have it fall back.
* step 5 has concurrent builders recheck the active hash; the snapshot is what is rechecked.
* The mirror is emptied by domain and not by version. `wiktor vector build` deletes no old
  points.
* Two lists of references for a field are merged into their intersection (`qug.rs:383`,
  `qug.rs:445`), so that an entity with several references that meets the one list by one
  and the other by another is lost; as soon as a query matches any node, that happens to
  two conditions of the caller's own as well. `MergeIsExact` is about entities that meet
  all lists of a field by a reference the lists have in common (`HaveCommonRef`).
* step 3 has no cap on matches and terms where the code has 16 and 64; a longer phrase
  hides the negation in a shorter one.

*Judging*

* The default arbiter has nothing to compare for a page that could be accepted
  (`ArbiterIsSilent`), so that the consistency score of step 8 is absent for every page
  it was meant for.
* `require_source_refs` changes nothing, because a citation of 1 is required anyway:
  `PagesAreAlwaysGrounded` needs no hypothesis about it.

## Proofs

Everything below is proved for all sources, configurations, policies, processes, pages,
packs and bounds, from the assumptions named in the modules (`SourceAssumption`,
`PolicyAssumption`, `TimeAssumption`, `TokenAssumption`, `WorkersAssumption`,
`RunnerAssumption`, `ReviewAssumption`, `FeedbackAssumption`, `QugAssumption`,
`NilAssumption`, `ServingAssumption`, `JudgementAssumption`, `RewritingAssumption`,
`GroundingAssumption`), which TLC evaluates in the runs. One theorem,
`CompilersStayAlone`, has hypotheses of its own.

* **CompileStoreProofs.** `TypeCorrect`: `Spec => []TypeOK`, one lemma per action;
  `PutTable` and `UpdateTable` carry a table through an insert and an update, `TaskEdits` a
  row through its columns. `FencingInvariant`: `Spec => []FencingInv`, and from it
  `LeasesAreOwned` and `NoTaskIsStranded`.

  `LeaseOwnership` is not inductive. That the holder of a running task is its newest
  attempt needs to know that a new attempt is not already in the table, hence that no
  attempt is ahead of its task's epoch and counter (`Belongs`). That no reservation is
  left without a holder when a task is claimed again needs to know that pending rows
  have no token and no result (`WellFormed`). The same facts give that an epoch is
  accepted at most once (`AcceptedOnce`, `EndsItsEpoch`). `FencingInv` is the
  conjunction. The proof goes through the six ways in which an action may change the two
  tables (lemmas `Touch`, `Insert`, `Renew`, `Retire`, `Record`, `Close`, `Grant`), then
  shows of each action which of them it is; `Recover`, which changes many rows at once,
  is done directly.

* **CompileStoreHistory** relates the tables to each other over time. Every step is an
  admission of one source or work on tasks that exist (`StepWork`), and work changes a
  row only in the few ways `Worked` and `Kept` name. From that alone `TerminalUntilNewEpoch`
  and `OutcomesAreFinal` follow. Two more invariants are inductive on top of it: `Planes`
  (facts, heads, tasks and pages are ordered by revision, all tasks of a revision have its
  one snapshot) gives `PlanesAreOrdered`, `OneSnapshotPerRevision`, `HeadsNameTheirTask`,
  `RevisionsNeverRegress`; `Outcomes` (what an accepted attempt has left in pages, tasks and
  the generation counter) gives `PagesAreBacked`, `DeadTasksAreEscalated`,
  `OneAcceptancePerEpoch` (a count, by cardinalities) and `PublishIsFenced`.
  `ClaimsAreCharged` is read off `Claim`. `LedgersAlwaysAgree` is about sums over the
  attempts of a task, a run or a day, of which the library knows nothing. A sum of
  reservations is the number of reserved tokens, each counted as a pair of its attempt and
  its number, so that a claim adds a set of pairs that is disjoint from the others and the
  theorems about cardinalities apply.

* **CompileWorkersProofs.** `ProcessesKeepTheStore`: `WorkersSpec => StoreIsKept`, for any
  number of servers and runs. That a step of a process is one that `CompileStore` allows
  needs to know that the lease it presents was issued and that the ids it has in mind are
  task ids, which is the invariant `Memory`; leases stay issued because no action deletes
  an attempt (`AttemptsStay`). Hence everything proved of `CompileStore` holds of the
  processes: `WorkersOwnTheirLeases`, `WorkersStrandNoTask`, `WorkersKeepHistory`.

  The processes' own memory needs more. `Fit` ties a lease, an answer and a heartbeat to
  the place of a process (`WorkersAreWellTyped`). `Accounts` says that the task a run has
  in hand is not in its queue as well and that the queue holds entities it has seen, each
  once; otherwise a report could take a task out of the queue twice, and `StatsAlwaysAddUp`
  would not follow step by step. `LeasesAreReleased` goes through the answers of a report.

  `CompilersStayAlone` is the deepest of them: it relates a clock of the tables to the
  clocks of the processes. `Guarded` says that the task of a compiling process has moved
  to another epoch, is decided, or is leased to this process for at least as long as the
  next heartbeat takes; only an expired lease can be claimed or recovered within its
  epoch. `Distinct` says that no two processes hold one lease. It assumes `Prompt`,
  `MaxErrors = 0` (no heartbeat meets an error, after which it would stop) and
  `BeatEvery < LeaseWindow`, which the defaults give (150 seconds and 300). Without any
  one of the three a second process may claim the task while the first still asks the
  model; publication is fenced all the same.

* **PreflightProofs.** `PreflightKeepsTheStore`, and `ChecksAreAlwaysExact`: if the pages
  were found to fit, what was alien then and ever since is no page, hence a task, and the
  second read finds it; if they were not, or the second read finds a task, there was an
  alien row at that moment.

* **ReviewQueueProofs.** A revival is no step of `CompileStore`, so `Tables` (types,
  fencing, heads, and that a task's hash fits its key) is shown to survive it first. Then
  `DecisionsAreFinal`; `ConflictsAreConverted` from the invariant `Converted`, which
  follows a conversion from its insertion; `ApprovalsAreWork`, by cases on what admission
  answers; `RevivalsAreFenced`.

* **ServingProofs** is about builds and searches. The invariant `QugInv` says what a build
  is: the edges and the hash of one snapshot under one pack, of which at most one per
  version is published. A publication whose snapshot equals the accepted pages therefore
  publishes their graph, which is `PublishedGraph`'s step; every other action stutters
  (`BuildsImplementPromise`). `GraphsAreCurrent` needs only that the hash determines what
  it frames. `MirrorIsTheNewestBuild` adds that the rows of a build whose page was
  published since are of an older generation, and that the owner of an edge is the one
  page of least rank (`LeastNatural`).

  `ServingImplementsBuilds`, and with it the promise. For the cache the invariant follows
  an answer from the generation it was keyed with through every read of the search:
  whatever was read still holds unless a page has been published since, and then the key
  is not of the newest generation, or facts were written since and the plan has filters
  (`Settled`). `Planned` has to stay as it is during a search for that, which it does
  because a restart, the only step that loads a graph, forgets searches and cache.

* **FeedbackLoopProofs.** `FeedbackInv` has a part per property: every row of the table came
  in a batch that is there as a whole, and has a number of its own (`RowsHold`: ids are at
  most `lastId`, and what a batch adds is above it); the server's counter is the number of
  rows less what a crash or an answer under way has not counted (`CountersHold`, over
  cardinalities); evidence names logs of its domain, and what a command has loaded is
  queued from its insertion on (`QueueHolds`). A batch is stored by a loop over its
  events, of which an invariant shows what it adds (`AddsBatch`). `AnswersAlwaysAgree`
  follows because neither rows nor logs are ever changed (`TableGrows`, `LogsGrow`).

* **GroundingProofs**, about answers and queries, for one inductive invariant, `GroundingInv`.
  * `ArbiterIsAlwaysSilent`: a key is compared only if it occurs twice, a clean page cites
    its own entity only, and all related pages were clean for theirs.
  * `PagesAreAlwaysGrounded`: a citation of one means that no assertion is left without a
    valid ref (`CitationIsWhole`, by cardinalities); the text of an accepted page is joined
    from quotes of such refs, and these are passages of the named revision. No policy
    is assumed.
  * `MergeIsAlwaysExact`: the rewritten conditions together let an entity through exactly
    if the graph's and the caller's do (up to `HaveCommonRef`). `push_merged` is a loop over
    the conditions so far, so one `PushIf` is shown to keep the meaning of the list it is given
    (`PushIsSound`, with `Keeps` as what a row keeps), and so does a loop of them.
    `MergedMeansAll` states it of any graph and query.
  * `RelaxationAlwaysWidens` and `RelaxingWidens`: the one relaxation loses no row that passed
    before, whatever the filters, and drops nothing but a range.
  * `TermsAreAlwaysQuoted`: every term of a rewritten query is the query's own, or a configured
    one, or words of the source of a page that the server's graph was loaded from; that
    page may be no longer accepted. It needs `PagesAreAlwaysGrounded`'s invariant, since a
    node's alias and tags are quotes of a page, and that loaded pages were accepted once
    (`LoadedInv`).

  The induction theorems of the library cannot be instantiated here, so a loop is unfolded
  by hand: a recursive function over the positions of a list exists by a finite run, and
  what holds at 0 and passes from each position to the next holds throughout, because a
  least position where it fails (`LeastNatural`) would have a predecessor (`Throughout`).

Only model-checked: `EveryTaskIsDecided` and `RunsEnd`, since liveness under fairness and
`ENABLED` are beyond TLAPS here. Every other property of a passing run is stated by a
theorem. The three runs that end in a violation show what the code does on an
instance, and no theorem says more about them.

## Not modelled, and why

* Per-field facts. `write_facts_cas` keeps a row per (entity, field) and a field that
  a newer revision lacks keeps its old row. `raw_to_facts` requires every declared
  field, so with one schema the rows of an entity move together, and `CompileStore`
  has one row per entity.
* Canonical JSON and BLAKE3: the hashes are the records of what goes into them.
* SQLite, WAL and litestream: a transaction is one step and is durable.
* The LLM, embeddings, qdrant, Meilisearch, HTTP and gRPC: their answers are choices. The
  LLM arbiter, which replaces the rule based one when configured, is such an answer.
* Scores of searches: BM25, vector distances and reciprocal ranks are numbers that no
  property tells apart; a search returns a set of pages, as if `top_k` were large.
* `now` is read by the callers just before a call, and by a worker before it lists;
  the models of the compile tables take the clock at the transaction, `FeedbackLoop` as
  the code does. The wake margin of 50 ms and the reaper's period are left out, the latter
  for fairness.
* Records that `prepare_source` refuses, `--limit`, the dry run, the size limits of texts,
  the wording of canonical markdown.
* Panics: a crash ends a process together with its heartbeats and its reaper.
* Token usage: a reservation is never refunded by the code, and reported usage is
  stored and never compared with anything.
* Read-only queries, except where their answer is used for a later write.
* Evaluation, reports as documents, console, data adapters, schema generation, seeds,
  migrations, metrics, authentication, routing and most of the command line: sequential
  code over files or pure input and output. They are a large part of the repository by
  lines, as are inline tests, row structures and comments in two languages; the lines the
  modules stand for are those that decide what is stored, published, answered or retried.

## What is left

1. Per-field facts under schemas that change, with an abstract register per field.
2. Panics that leave a heartbeat behind, and shutdown of the listeners, in
   `CompileWorkers`.
3. Approved reviews that a worker then compiles: `ReviewQueue` under `CompileWorkers`, with
   liveness (an approved task is decided).
4. Proofs: `OneCompiler` when heartbeats may err, as a statement about how many processes
   an epoch can have; the tables' liveness as a measure that each recovered lease
   decreases, of which TLAPS could check the steps; a refinement for `FeedbackLoop` and
   one for `ReviewQueue`, whose abstract specifications are not written yet.
