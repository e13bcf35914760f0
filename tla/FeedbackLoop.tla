----------------------------- MODULE FeedbackLoop -----------------------------
(***************************************************************************)
(* The feedback loop: POST /feedback of wiktor-server with its rate        *)
(* limiter and its idempotent store (kernel/feedback_store.rs), the query  *)
(* log that events refer to, and `wiktor feedback analyze`, which turns a  *)
(* window of both into review suggestions and report files.                *)
(*                                                                         *)
(* Handlers run concurrently.  What one does between two locks or          *)
(* transactions is one action: arriving, taking a slot of the limiter,     *)
(* storing the batch, answering.                                           *)
(***************************************************************************)
EXTENDS Integers, FiniteSets, Sequences, TLC

CONSTANTS
  Domain, Client, Analyst,
  LogShape,      \* [domain, query, empty, filtered, relaxed, failed]
  Batch,         \* [domain, tenant, events]: what clients post
  AcceptedPage,  \* <<domain, page>>: the accepted pages
  Command,       \* [domain, from, to, enrich]: analyze command lines
  Titled,        \* query -> the pack's least entity of that title, or Null
  Null,
  MinEvents, MaxItems, MaxEvents,        \* --min-events and the code's caps
  Window, MaxPerWindow,                  \* of the limiter: 60 and 120
  Waste,         \* the numbers an ignored insert uses up: SQLite leaves it open
  MaxLogs, MaxTime, MaxCrashes           \* bounds

ASSUME FeedbackAssumption ==
  /\ MinEvents \in Nat \ {0} /\ Window \in Nat \ {0}
  /\ MaxPerWindow \in Nat \ {0} /\ MaxLogs \in Nat /\ MaxTime \in Nat
  /\ Waste \in Nat
  /\ IsFiniteSet(Client)
  /\ \A b \in Batch :
       /\ b.domain \in Domain /\ b.tenant \in Domain
       /\ b.events \in Seq({b.events[i] : i \in DOMAIN b.events})

VARIABLES
  now,       \* the clock, in seconds
  logs,      \* query_logs: log_id -> [shape, at]
  events,    \* feedback_events: <<domain, key>> -> the row
  lastId,    \* the number AUTOINCREMENT gave out last
  limit,     \* FixedWindowLimiter.windows: domain -> [start, count]
  post,      \* what every client's request has got to
  ingested,  \* the server's counter of new events
  queue,     \* review_queue: subject -> [status, logs]
  analysis,  \* what every analyze command has got to
  file,      \* the report files of the default directory
  known,     \* history: number of events when the server started
  crashes

server == <<limit, post, ingested, known, crashes>>
feedback == <<now, logs, events, lastId, queue, analysis, file, server>>

-----------------------------------------------------------------------------
(* The query log and the clock.                                            *)

\* insert_query_log, at the end of a search.
Log(shape) ==
  /\ Len(logs) < MaxLogs
  /\ logs' = Append(logs, [shape |-> shape, at |-> now])
  /\ UNCHANGED <<now, events, lastId, queue, analysis, file, server>>

Tick ==
  /\ now < MaxTime
  /\ now' = now + 1
  /\ UNCHANGED <<logs, events, lastId, queue, analysis, file, server>>

-----------------------------------------------------------------------------
(* POST /feedback.                                                         *)

Idle == [phase |-> "idle"]
To(c, record) == post' = [post EXCEPT ![c] = record]

\* A client posts, again perhaps after a lost answer.  A batch for another
\* domain than the key's is refused; then try_acquire reads the clock, before
\* it takes the lock.
Arrive(c, b) ==
  /\ post[c].phase = "idle"
  /\ b.domain = b.tenant
  /\ To(c, [phase |-> "timed", batch |-> b, time |-> now])
  /\ UNCHANGED <<now, logs, events, lastId, queue, analysis, file, limit,
                 ingested, known, crashes>>

Refuse(c) == To(c, Idle)

WindowOf(t) == t - (t % Window)

\* try_acquire, under the lock: another window than the stored one is a new
\* window, also when it is an older one.
Acquire(c) ==
  LET d == post[c].batch.domain
      start == WindowOf(post[c].time)
      used == IF limit[d].start = start THEN limit[d].count ELSE 0
  IN  /\ post[c].phase = "timed"
      /\ IF used >= MaxPerWindow
         THEN /\ limit' = [limit EXCEPT ![d] = [start |-> start,
                                                count |-> used]]
              /\ Refuse(c)
         ELSE /\ limit' = [limit EXCEPT ![d] = [start |-> start,
                                                count |-> used + 1]]
              /\ To(c, [post[c] EXCEPT !.phase = "admitted"])
      /\ UNCHANGED <<now, logs, events, lastId, queue, analysis, file, ingested,
                     known, crashes>>

\* One event's shape, as the handler and validate_feedback_input check it.
WellFormed(e) ==
  /\ e.key # Null /\ e.log > 0
  /\ CASE e.kind = "rate" -> e.rating \in 1..5
       [] OTHER -> e.rating = Null /\ e.page # Null
  /\ e.meta \in {"small", "none"}

\* page_exists, for the pages of clicks and adoptions only.
PagesExist(b) ==
  \A i \in DOMAIN b.events :
    b.events[i].kind # "rate" => <<b.domain, b.events[i].page>> \in AcceptedPage

Valid(b) ==
  /\ Len(b.events) \in 1..MaxEvents
  /\ \A i \in DOMAIN b.events : WellFormed(b.events[i])
  /\ PagesExist(b)

\* The log an event names must exist, in the domain of the batch.
FaultyRefersToLog(e, d) == e.log \in DOMAIN logs
RefersToLog(e, d) == e.log \in DOMAIN logs /\ logs[e.log].shape.domain = d

\* INSERT ... ON CONFLICT DO NOTHING: what is there stays.
Inserted(table, rows) ==
  [k \in DOMAIN table \cup DOMAIN rows |->
     IF k \in DOMAIN table THEN table[k] ELSE rows[k]]

\* insert_feedback_idempotent_on_conn: (domain, key) is unique.  The id of a
\* new row is above every number given out before; an insert that is ignored
\* may use numbers up, too.
FaultyStored(t, d, e, at) ==
  LET key == <<d, e.key>>
      new == key \notin DOMAIN t.rows
      row == [id |-> IF new THEN t.last + 1 ELSE t.rows[key].id, log |-> e.log,
              kind |-> e.kind, page |-> e.page, rating |-> e.rating, at |-> at]
  IN  [rows |-> (key :> row) @@ t.rows,
       last |-> t.last + (IF new THEN 1 ELSE Waste)]
Stored(t, d, e, at) ==
  [rows |-> Inserted(t.rows, [k \in {<<d, e.key>>} |->
     [id |-> t.last + 1, log |-> e.log, kind |-> e.kind, page |-> e.page,
      rating |-> e.rating, at |-> at]]),
   last |-> t.last + (IF <<d, e.key>> \in DOMAIN t.rows THEN Waste ELSE 1)]

\* The table after a sequence of events of domain d, in its order.
Rows(d, seq, at) ==
  LET after[n \in 0..Len(seq)] ==
        IF n = 0 THEN [rows |-> events, last |-> lastId]
        ELSE Stored(after[n - 1], d, seq[n], at)
  IN  after[Len(seq)]

\* The checks of the handler, the clock read before the transaction, and
\* insert_feedback_batch_idempotent, the transaction.
FaultyStore(c) ==
  LET b == post[c].batch
      Bad == {i \in DOMAIN b.events : ~RefersToLog(b.events[i], b.domain)}
      n == IF Bad = {} THEN Len(b.events)
           ELSE (CHOOSE i \in Bad : \A j \in Bad : i <= j) - 1
  IN  /\ post[c].phase = "admitted"
      /\ Valid(b)
      /\ LET table == Rows(b.domain, SubSeq(b.events, 1, n), now)
         IN  events' = table.rows /\ lastId' = table.last
      /\ IF Bad = {}
         THEN To(c, [phase |-> "stored", batch |-> b,
                     new |-> Cardinality(DOMAIN events')
                               - Cardinality(DOMAIN events)])
         ELSE Refuse(c)
      /\ UNCHANGED <<now, logs, queue, analysis, file, limit, ingested, known,
                     crashes>>
Store(c) ==
  LET b == post[c].batch
  IN  /\ post[c].phase = "admitted"
      /\ IF /\ Valid(b)
            /\ \A i \in DOMAIN b.events : RefersToLog(b.events[i], b.domain)
         THEN \E at \in post[c].time..now :
                /\ LET table == Rows(b.domain, b.events, at)
                   IN  events' = table.rows /\ lastId' = table.last
                /\ To(c, [phase |-> "stored", batch |-> b,
                          new |-> Cardinality(DOMAIN events')
                                    - Cardinality(DOMAIN events)])
         ELSE Refuse(c) /\ UNCHANGED <<events, lastId>>
      /\ UNCHANGED <<now, logs, queue, analysis, file, limit, ingested, known,
                     crashes>>

\* The counters and the answer: every key with its row's id and time.
FaultyCounted(p) == Len(p.batch.events)
Counted(p) == p.new

Answer(c) ==
  /\ post[c].phase = "stored"
  /\ ingested' = ingested + Counted(post[c])
  /\ To(c, Idle)
  /\ UNCHANGED <<now, logs, events, lastId, queue, analysis, file, limit, known,
                 crashes>>

\* The server dies and restarts: requests, counters and windows are gone.
Crash ==
  /\ crashes < MaxCrashes
  /\ crashes' = crashes + 1
  /\ post' = [c \in Client |-> Idle]
  /\ limit' = [d \in Domain |-> [start |-> 0, count |-> 0]]
  /\ ingested' = 0 /\ known' = Cardinality(DOMAIN events)
  /\ UNCHANGED <<now, logs, events, lastId, queue, analysis, file>>

-----------------------------------------------------------------------------
(* wiktor feedback analyze.                                                *)

\* load_feedback_window: logs by their own time, events by theirs, and both
\* in one read transaction.
Loaded(d, from, to) ==
  [domain |-> d,
   logs |-> {i \in DOMAIN logs : logs[i].shape.domain = d
                                   /\ logs[i].at \in from..to},
   events |-> {k \in DOMAIN events : k[1] = d /\ events[k].at \in from..to}]

\* hit_count = 0, but for what hard filters emptied and no relaxation saved.
Unanswered(i) ==
  LET l == logs[i].shape IN l.empty /\ ~(l.filtered /\ ~l.relaxed)

QuerySubjects(w, signal, action, chosen) ==
  {[domain |-> w.domain, action |-> action, signal |-> signal, query |-> q,
    logs |-> {i \in chosen : logs[i].shape.query = q}] :
      q \in {logs[i].shape.query : i \in chosen}}

\* An adoption, or a rating of 4 or 5.
Adopts(e) == e.kind = "adopt" \/ (e.kind = "rate" /\ e.rating >= 4)

AdoptionBelowThreshold(adopted, count) == adopted * 100 < count * 20

\* The subject of a page has counts, and no log ids.
PageSubjects(w) ==
  LET Of(p) == {k \in w.events : events[k].page = p}
      Adopted(p) == {k \in Of(p) : Adopts(events[k])}
      Low == {p \in {events[k].page : k \in w.events} \ {Null} :
                /\ Cardinality(Of(p)) >= MinEvents
                /\ AdoptionBelowThreshold(Cardinality(Adopted(p)),
                                          Cardinality(Of(p)))}
  IN  {[domain |-> w.domain, action |-> "supplemental_compile",
        signal |-> "low_quality", page |-> p, count |-> Cardinality(Of(p)),
        adopted |-> Cardinality(Adopted(p))] : p \in Low}

Failed(i) == logs[i].shape.failed

ZeroRecall(w) ==
  QuerySubjects(w, "zero_recall", "supplemental_compile",
                {i \in w.logs : Unanswered(i)})
RewriteFailures(w) ==
  QuerySubjects(w, "rewrite_failure", "query_template",
                {i \in w.logs : Failed(i)})

\* enrich_zero_recall_inputs: the subject grows by the entity's source.
Enriched(s) ==
  IF Titled[s.query] = Null THEN s
  ELSE Inserted(s, [entity |-> Titled[s.query]])

\* analyze_window_with: too many items of a class are an error.
WithinCaps(w) ==
  \A S \in {ZeroRecall(w), RewriteFailures(w), PageSubjects(w)} :
    Cardinality(S) <= MaxItems

Suggestions(w, enrich) ==
  (IF enrich THEN {Enriched(s) : s \in ZeroRecall(w)} ELSE ZeroRecall(w))
    \cup RewriteFailures(w) \cup PageSubjects(w)

\* The evidence stored with a suggestion.
Evidence(w, s) ==
  IF s.signal = "low_quality"
  THEN {events[k].log : k \in {x \in w.events : events[x].page = s.page}}
  ELSE s.logs

\* run_analyze up to the analysis, over what it has loaded.
Load(a, x) ==
  LET w == Loaded(x.domain, x.from, x.to)
  IN  /\ analysis[a].phase = "idle"
      /\ x.from <= x.to
      /\ WithinCaps(w)
      /\ analysis' = [analysis EXCEPT ![a] =
           [phase |-> "loaded", rows |-> [s \in Suggestions(w, x.enrich) |->
                                           Evidence(w, s)]]]
      /\ UNCHANGED <<now, logs, events, lastId, queue, file, server>>

\* insert_review_suggestions: ON CONFLICT (domain, action, subject) DO NOTHING.
FaultyInsert(a) ==
  LET rows == analysis[a].rows
  IN  /\ analysis[a].phase = "loaded"
      /\ queue' = IF DOMAIN queue \cap DOMAIN rows # {} THEN queue
                  ELSE Inserted(queue, [s \in DOMAIN rows |->
                         [status |-> "pending", logs |-> rows[s]]])
      /\ analysis' = [analysis EXCEPT ![a].phase = "zh"]
      /\ UNCHANGED <<now, logs, events, lastId, file, server>>
Insert(a) ==
  LET rows == analysis[a].rows
  IN  /\ analysis[a].phase = "loaded"
      /\ queue' = Inserted(queue, [s \in DOMAIN rows |->
                     [status |-> "pending", logs |-> rows[s]]])
      /\ analysis' = [analysis EXCEPT ![a].phase = "zh"]
      /\ UNCHANGED <<now, logs, events, lastId, file, server>>

\* write_report_files: three files, each renamed into place, one after the
\* other, whoever else writes there.
NextFile(f) == CASE f = "zh" -> "en" [] f = "en" -> "json" [] OTHER -> "idle"

Write(a) ==
  LET x == analysis[a]
  IN  /\ x.phase \in DOMAIN file
      /\ file' = [file EXCEPT ![x.phase] = DOMAIN x.rows]
      /\ analysis' = [analysis EXCEPT ![a] =
           IF NextFile(x.phase) = "idle" THEN Idle
           ELSE [x EXCEPT !.phase = NextFile(x.phase)]]
      /\ UNCHANGED <<now, logs, events, lastId, queue, server>>

\* An error, or the command is killed: what it has done stays.
Abort(a) ==
  /\ analysis[a].phase # "idle"
  /\ analysis' = [analysis EXCEPT ![a] = Idle]
  /\ UNCHANGED <<now, logs, events, lastId, queue, file, server>>

-----------------------------------------------------------------------------
FeedbackInit ==
  /\ now = 0 /\ logs = << >> /\ events = << >> /\ lastId = 0
  /\ queue = << >>
  /\ analysis = [a \in Analyst |-> Idle]
  /\ file = [f \in {"zh", "en", "json"} |-> {}]
  /\ limit = [d \in Domain |-> [start |-> 0, count |-> 0]]
  /\ post = [c \in Client |-> Idle]
  /\ ingested = 0 /\ known = 0 /\ crashes = 0

FeedbackNext ==
  \/ \E shape \in LogShape : Log(shape)
  \/ Tick
  \/ \E c \in Client :
       \/ \E b \in Batch : Arrive(c, b)
       \/ Acquire(c) \/ Store(c) \/ Answer(c)
  \/ Crash
  \/ \E a \in Analyst :
       \/ \E x \in Command : Load(a, x)
       \/ Insert(a) \/ Write(a) \/ Abort(a)

FeedbackSpec == FeedbackInit /\ [][FeedbackNext]_feedback

-----------------------------------------------------------------------------
(* What clients, operators and reviewers may rely on.                      *)

\* However often a key is posted, with whatever event and after whatever crash,
\* every answer about it is the same: the row it is read from stays as the
\* first post made it, and it is about a log of the key's domain.  New rows
\* come after it: their ids are above the ids there are.
AnswersAgree ==
  [][\A k \in DOMAIN events :
       /\ k \in DOMAIN events' /\ events'[k] = events[k]
       /\ logs'[events[k].log].shape.domain = k[1]
       /\ \A x \in DOMAIN events' \ DOMAIN events :
            events'[x].id > events[k].id]_feedback

\* A batch is stored as a whole: an event that is there came in a batch all of
\* whose keys are there, and no two events answer with one id.
BatchesAreWhole ==
  /\ \A k \in DOMAIN events : \E b \in Batch :
       /\ b.domain = k[1]
       /\ \E i \in DOMAIN b.events :
            b.events[i].key = k[2] /\ b.events[i].log = events[k].log
       /\ \A i \in DOMAIN b.events :
            <<b.domain, b.events[i].key>> \in DOMAIN events
  /\ \A j, k \in DOMAIN events : events[j].id = events[k].id => j = k

\* The server's counter of new events tells how many rows were added since it
\* started, but for the requests that are about to be answered: replays, keys
\* that come twice in a batch and lost answers are not counted.
Uncounted ==
  UNION {{c} \X (1..post[c].new) : c \in {x \in Client :
                                           post[x].phase = "stored"}}
CountersAgree ==
  known + ingested + Cardinality(Uncounted) = Cardinality(DOMAIN events)

\* Whatever a report file proposes is in the review queue, also when the
\* command failed half way or two commands wrote over each other's files; and
\* the evidence of a row are logs of its domain.
ReportsAreBacked ==
  /\ \A f \in DOMAIN file : file[f] \subseteq DOMAIN queue
  /\ \A s \in DOMAIN queue :
       /\ queue[s].logs # {}
       /\ \A i \in queue[s].logs :
            i \in DOMAIN logs /\ logs[i].shape.domain = s.domain
=============================================================================
