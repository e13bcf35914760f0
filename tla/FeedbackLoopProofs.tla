-------------------------- MODULE FeedbackLoopProofs --------------------------
(***************************************************************************)
(* Proofs about FeedbackLoop: acknowledgements never change, batches are   *)
(* stored as a whole, the server's counter is right and every report file  *)
(* is backed by the queue, for all clients, batches and commands and any   *)
(* length of a batch.                                                      *)
(***************************************************************************)
EXTENDS FeedbackLoop, FiniteSetTheorems, NaturalsInduction, TLAPS

-----------------------------------------------------------------------------
(* The rows after a batch.                                                 *)

\* A set of numbers has a least one.
LEMMA LeastNatural ==
  ASSUME NEW T, T \subseteq Nat, T # {}
  PROVE  \E x \in T : \A y \in T : x <= y
<1> DEFINE R == OpToRel(<, Nat)
<1>1. IsWellFoundedOn(R, Nat)
  BY NatLessThanWellFounded
<1>2. PICK x \in T : \A y \in T : ~(<<y, x>> \in R)
  <2> HIDE DEF R
  <2> QED
    BY <1>1, WFMin
<1>3. \A m, n \in Nat : <<m, n>> \in R <=> m < n
  BY DEF OpToRel
<1> HIDE DEF R
<1>4. ASSUME NEW y \in T PROVE x <= y
  <2>1. x \in Nat /\ y \in Nat
    OBVIOUS
  <2>2. ~(y < x)
    BY <1>2, <1>3, <2>1
  <2> QED
    BY <2>1, <2>2
<1> QED
  BY <1>4

\* A table whose ids are distinct, and none above the last number given out.
Numbered(t) ==
  /\ IsFiniteSet(DOMAIN t.rows)
  /\ t.last \in Nat
  /\ \A k \in DOMAIN t.rows : t.rows[k].id \in 0..t.last
  /\ \A j, k \in DOMAIN t.rows : t.rows[j].id = t.rows[k].id => j = k

\* Storing one event adds its row, above all numbers before, or nothing.
Adds(next, t, key, e) ==
  /\ Numbered(next)
  /\ t.last <= next.last
  /\ DOMAIN next.rows = DOMAIN t.rows \cup {key}
  /\ \A k \in DOMAIN t.rows : next.rows[k] = t.rows[k]
  /\ key \notin DOMAIN t.rows =>
       next.rows[key].log = e.log /\ next.rows[key].id > t.last

LEMMA StoredAdds ==
  ASSUME NEW t, NEW d, NEW e, NEW at, Numbered(t)
  PROVE  Adds(Stored(t, d, e, at), t, <<d, e.key>>, e)
<1> DEFINE key == <<d, e.key>>
           table == t.rows
           next == Stored(t, d, e, at).rows
           last == Stored(t, d, e, at).last
           row == [id |-> t.last + 1, log |-> e.log, kind |-> e.kind,
                   page |-> e.page, rating |-> e.rating, at |-> at]
<1>0. /\ next = [k \in DOMAIN table \cup {key} |->
                   IF k \in DOMAIN table THEN table[k] ELSE row]
      /\ last = t.last + (IF key \in DOMAIN table THEN Waste ELSE 1)
  BY DEF Stored, Inserted, key
<1>1. /\ t.last \in Nat /\ Waste \in Nat /\ IsFiniteSet(DOMAIN table)
      /\ \A k \in DOMAIN table : table[k].id \in 0..t.last
      /\ \A j, k \in DOMAIN table : table[j].id = table[k].id => j = k
  BY FeedbackAssumption DEF FeedbackAssumption, Numbered
<1>2. row.id = t.last + 1 /\ row.log = e.log
  OBVIOUS
<1> HIDE DEF row, key, table, next, last
<1>3. DOMAIN next = DOMAIN table \cup {key} /\ IsFiniteSet(DOMAIN next)
  BY <1>0, <1>1, FS_AddElement
<1>4. last \in Nat /\ t.last <= last
  BY <1>0, <1>1
<1>5. \A k \in DOMAIN table : next[k] = table[k]
  BY <1>0
<1>6. key \notin DOMAIN table => next[key] = row /\ last = t.last + 1
  BY <1>0
<1>7. ASSUME NEW k \in DOMAIN next PROVE next[k].id \in 0..last
  <2>1. CASE k \in DOMAIN table
    BY <2>1, <1>1, <1>4, <1>5
  <2>2. CASE k \notin DOMAIN table
    BY <2>2, <1>1, <1>2, <1>3, <1>6
  <2> QED
    BY <2>1, <2>2
<1>8. ASSUME NEW j \in DOMAIN next, NEW k \in DOMAIN next,
             next[j].id = next[k].id
      PROVE  j = k
  <2>1. \A x \in DOMAIN table : key \notin DOMAIN table =>
          next[x].id # next[key].id
    BY <1>1, <1>2, <1>5, <1>6
  <2> QED
    BY <2>1, <1>1, <1>3, <1>5, <1>8
<1>9. Numbered(Stored(t, d, e, at))
  BY <1>3, <1>4, <1>7, <1>8 DEF Numbered, next, last
<1>10. key \notin DOMAIN table => next[key].log = e.log /\ next[key].id > t.last
  BY <1>1, <1>2, <1>6
<1> QED
  BY <1>3, <1>4, <1>5, <1>9, <1>10 DEF Adds, next, last, key, table

\* The loop of a batch is defined for every number of its events: f[m] is the
\* table after the first m.
Table == [rows |-> events, last |-> lastId]

Loop(f, n, d, seq, at) ==
  f = [m \in 0..n |-> IF m = 0 THEN Table
                      ELSE Stored(f[m - 1], d, seq[m], at)]

LEMMA LoopExists ==
  ASSUME NEW d, NEW seq, NEW at, NEW n \in Nat
  PROVE  \E f : Loop(f, n, d, seq, at)
<1> DEFINE Bad == {m \in Nat : ~ \E f : Loop(f, m, d, seq, at)}
<1>1. SUFFICES ASSUME Bad # {} PROVE FALSE
  OBVIOUS
<1>2. PICK x \in Bad : \A y \in Bad : x <= y
  BY <1>1, LeastNatural
<1>3. CASE x = 0
  <2>1. Loop([m \in 0..0 |-> Table], 0, d, seq, at)
    BY DEF Loop
  <2> QED
    BY <1>2, <1>3, <2>1
<1>4. CASE x # 0
  <2>1. x - 1 \in Nat /\ x \in Nat /\ x - 1 \notin Bad
    BY <1>2, <1>4
  <2>2. PICK f : Loop(f, x - 1, d, seq, at)
    BY <2>1
  <2> DEFINE g == [m \in 0..x |-> IF m = x THEN Stored(f[x - 1], d, seq[x], at)
                                  ELSE f[m]]
  <2>3. ASSUME NEW m \in 0..x
        PROVE  g[m] = IF m = 0 THEN Table ELSE Stored(g[m - 1], d, seq[m], at)
    <3>1. CASE m = x
      <4>1. g[m] = Stored(f[x - 1], d, seq[x], at) /\ g[m - 1] = f[x - 1]
        BY <3>1, <2>1, <1>4
      <4> QED
        BY <4>1, <3>1, <1>4
    <3>2. CASE m # x
      <4>1. m \in 0..(x - 1) /\ g[m] = f[m]
        BY <3>2, <2>1
      <4>2. f[m] = IF m = 0 THEN Table ELSE Stored(f[m - 1], d, seq[m], at)
        BY <2>2, <4>1 DEF Loop
      <4>3. m # 0 => g[m - 1] = f[m - 1]
        BY <4>1, <2>1
      <4> QED
        BY <4>1, <4>2, <4>3
    <3> QED
      BY <3>1, <3>2
  <2>4. Loop(g, x, d, seq, at)
    <3>1. g = [m \in 0..x |-> g[m]]
      OBVIOUS
    <3> HIDE DEF g
    <3> QED
      BY <3>1, <2>3 DEF Loop
  <2> QED
    BY <2>1, <2>4, <1>2
<1> QED
  BY <1>3, <1>4

\* What a batch does to the table, whatever its length: it adds the rows of
\* the keys that were not there, each with the log of one of its events, and
\* with ids above those given out before.
AddsBatch(t, d, seq) ==
  /\ Numbered(t)
  /\ DOMAIN t.rows = DOMAIN events \cup {<<d, seq[i].key>> : i \in DOMAIN seq}
  /\ \A k \in DOMAIN events : t.rows[k] = events[k]
  /\ \A k \in DOMAIN t.rows \ DOMAIN events :
       /\ t.rows[k].id > lastId
       /\ \E i \in DOMAIN seq :
            k = <<d, seq[i].key>> /\ t.rows[k].log = seq[i].log

LEMMA RowsAre ==
  ASSUME NEW X, NEW d, NEW seq \in Seq(X), NEW at, Numbered(Table)
  PROVE  AddsBatch(Rows(d, seq, at), d, seq)
<1> DEFINE N == Len(seq)
           f == CHOOSE g : Loop(g, N, d, seq, at)
           Came(k, t, n) ==
             \E i \in 1..n : k = <<d, seq[i].key>> /\ t.rows[k].log = seq[i].log
           Good(n) ==
             /\ Numbered(f[n])
             /\ lastId <= f[n].last
             /\ DOMAIN f[n].rows = DOMAIN events
                                    \cup {<<d, seq[i].key>> : i \in 1..n}
             /\ \A k \in DOMAIN events : f[n].rows[k] = events[k]
             /\ \A k \in DOMAIN f[n].rows \ DOMAIN events :
                  f[n].rows[k].id > lastId /\ Came(k, f[n], n)
<1>1. N \in Nat /\ DOMAIN seq = 1..N
  OBVIOUS
<1>2. Loop(f, N, d, seq, at)
  BY <1>1, LoopExists
<1>3. Rows(d, seq, at) = f[N]
  BY DEF Rows, Loop, Table
<1> HIDE DEF f
<1>4. \A m \in 0..N : f[m] = IF m = 0 THEN Table
                              ELSE Stored(f[m - 1], d, seq[m], at)
  BY <1>2 DEF Loop
<1>5. Good(0)
  <2>1. f[0] = Table /\ lastId \in Nat /\ Numbered(f[0])
    BY <1>4, <1>1 DEF Numbered, Table
  <2>2. f[0].rows = events /\ f[0].last = lastId
    BY <2>1 DEF Table
  <2>3. DOMAIN f[0].rows = DOMAIN events \cup {<<d, seq[i].key>> : i \in 1..0}
    <3>1. \A i : i \notin 1..0
      OBVIOUS
    <3>2. {<<d, seq[i].key>> : i \in 1..0} = {}
      BY <3>1, Zenon
    <3> QED
      BY <2>2, <3>2
  <2>4. DOMAIN f[0].rows \ DOMAIN events = {}
    BY <2>2
  <2> HIDE DEF Came
  <2> QED
    BY <2>1, <2>2, <2>3, <2>4
<1>6. ASSUME NEW n \in 0..N, n # 0, Good(n - 1) PROVE Good(n)
  <2>1. f[n] = Stored(f[n - 1], d, seq[n], at)
    BY <1>4, <1>6
  <2> DEFINE old == f[n - 1]
             key == <<d, seq[n].key>>
  <2>2. /\ Numbered(f[n]) /\ old.last <= f[n].last
        /\ DOMAIN f[n].rows = DOMAIN old.rows \cup {key}
        /\ \A k \in DOMAIN old.rows : f[n].rows[k] = old.rows[k]
        /\ key \notin DOMAIN old.rows =>
             f[n].rows[key].log = seq[n].log /\ f[n].rows[key].id > old.last
    <3>1. Numbered(old)
      BY <1>6
    <3> HIDE DEF old, key
    <3>2. Adds(f[n], old, key, seq[n])
      BY <2>1, <3>1, StoredAdds DEF old, key
    <3> QED
      BY <3>2 DEF Adds
  <2> HIDE DEF old
  <2>3. n \in 1..n /\ 1..n = 1..(n - 1) \cup {n}
    BY <1>1, <1>6
  <2>4. DOMAIN f[n].rows = DOMAIN events \cup {<<d, seq[i].key>> : i \in 1..n}
    BY <2>2, <2>3, <1>6 DEF old
  <2>5. \A k \in DOMAIN events : f[n].rows[k] = events[k]
    BY <2>2, <1>6 DEF old
  <2>6. /\ lastId \in Nat /\ old.last \in Nat /\ f[n].last \in Nat
        /\ lastId <= old.last /\ lastId <= f[n].last
    <3>1. lastId \in Nat /\ old.last \in Nat /\ f[n].last \in Nat
      BY <2>2, <1>6 DEF Numbered, Table, old
    <3>2. lastId <= old.last
      BY <1>6 DEF old
    <3> QED
      BY <2>2, <3>1, <3>2
  <2>7. ASSUME NEW k \in DOMAIN f[n].rows \ DOMAIN events
        PROVE  f[n].rows[k].id > lastId /\ Came(k, f[n], n)
    <3>1. CASE k \in DOMAIN old.rows
      <4>1. old.rows[k].id > lastId /\ Came(k, old, n - 1)
        BY <3>1, <2>7, <1>6 DEF old
      <4>2. PICK i \in 1..(n - 1) :
              k = <<d, seq[i].key>> /\ old.rows[k].log = seq[i].log
        BY <4>1
      <4>3. f[n].rows[k] = old.rows[k] /\ i \in 1..n
        BY <3>1, <2>2, <2>3
      <4> QED
        BY <4>1, <4>2, <4>3
    <3>2. CASE k \notin DOMAIN old.rows
      <4>1. k = key
        BY <3>2, <2>2, <2>7
      <4>2. f[n].rows[k].log = seq[n].log /\ f[n].rows[k].id > old.last
        BY <4>1, <3>2, <2>2
      <4>3. f[n].rows[k].id \in Int
        BY <2>2, <2>7 DEF Numbered
      <4> QED
        BY <4>1, <4>2, <4>3, <2>3, <2>6
    <3> QED
      BY <3>1, <3>2
  <2> QED
    BY <2>2, <2>4, <2>5, <2>6, <2>7
<1> DEFINE Bad == {n \in 0..N : ~Good(n)}
<1>7. Bad = {}
  <2> SUFFICES ASSUME Bad # {} PROVE FALSE
    OBVIOUS
  <2>1. PICK x \in Bad : \A y \in Bad : x <= y
    <3>1. Bad \subseteq Nat
      BY <1>1
    <3> HIDE DEF Bad
    <3> QED
      BY <3>1, LeastNatural
  <2>2. x # 0 /\ x \in 0..N
    BY <2>1, <1>5
  <2>3. x - 1 \in 0..N /\ x - 1 \notin Bad
    BY <2>1, <2>2, <1>1
  <2> QED
    BY <1>6, <2>1, <2>2, <2>3
<1>8. Good(N)
  BY <1>7, <1>1
<1> QED
  BY <1>1, <1>3, <1>8 DEF AddsBatch

-----------------------------------------------------------------------------
(* The inductive invariant.                                                *)

LogRow == [shape : LogShape, at : Nat]
Request ==
  {Idle} \cup [phase : {"timed", "admitted"}, batch : Batch, time : Nat]
         \cup [phase : {"stored"}, batch : Batch, new : Nat]
File == {"zh", "en", "json"}

\* The parts of the state have their shapes.
Shapes ==
  /\ now \in Nat
  /\ logs \in Seq(LogRow)
  /\ post \in [Client -> Request]
  /\ known \in Nat /\ ingested \in Nat
  /\ DOMAIN file = File
  /\ DOMAIN analysis = Analyst

\* A row of the table came in a batch that is there as a whole.
CameWhole(k) ==
  \E b \in Batch :
    /\ b.domain = k[1]
    /\ \E i \in DOMAIN b.events :
         b.events[i].key = k[2] /\ b.events[i].log = events[k].log
    /\ \A i \in DOMAIN b.events : <<b.domain, b.events[i].key>> \in DOMAIN events

\* The counter of the server, over finitely many requests.
CountersHold == IsFiniteSet(Uncounted) /\ CountersAgree

\* What a row or a piece of evidence refers to is a log of its domain.
IsLogOf(i, d) == i \in DOMAIN logs /\ logs[i].shape.domain = d

RowsHold ==
  /\ Numbered(Table)
  /\ \A k \in DOMAIN events : CameWhole(k) /\ IsLogOf(events[k].log, k[1])

Backed(s, evidence) ==
  evidence # {} /\ \A i \in evidence : IsLogOf(i, s.domain)

\* What a command has loaded is backed, and from its insertion on queued.
CommandHolds(x) ==
  \/ x = Idle
  \/ /\ x = [phase |-> x.phase, rows |-> x.rows]
     /\ x.phase \in {"loaded"} \cup File
     /\ \A s \in DOMAIN x.rows : Backed(s, x.rows[s])
     /\ x.phase \in File => DOMAIN x.rows \subseteq DOMAIN queue

QueueHolds ==
  /\ \A s \in DOMAIN queue : Backed(s, queue[s].logs)
  /\ \A f \in File : file[f] \subseteq DOMAIN queue
  /\ \A a \in Analyst : CommandHolds(analysis[a])

FeedbackInv == Shapes /\ RowsHold /\ CountersHold /\ QueueHolds

\* It implies the three invariants.
LEMMA InvImplies ==
  FeedbackInv => BatchesAreWhole /\ CountersAgree /\ ReportsAreBacked
<1> SUFFICES ASSUME FeedbackInv
             PROVE  BatchesAreWhole /\ CountersAgree /\ ReportsAreBacked
  OBVIOUS
<1>1. BatchesAreWhole
  BY DEF FeedbackInv, RowsHold, CameWhole, Numbered, Table, BatchesAreWhole
<1>2. ReportsAreBacked
  BY DEF FeedbackInv, Shapes, QueueHolds, Backed, IsLogOf, ReportsAreBacked
<1> QED
  BY <1>1, <1>2 DEF FeedbackInv, CountersHold

LEMMA InvInitially == FeedbackInit => FeedbackInv
<1> SUFFICES ASSUME FeedbackInit PROVE FeedbackInv
  OBVIOUS
<1>1. Shapes
  BY DEF FeedbackInit, Shapes, Request, File, Idle
<1>2. DOMAIN events = {}
  BY DEF FeedbackInit
<1>3. IsFiniteSet(DOMAIN events) /\ Cardinality(DOMAIN events) = 0
  BY <1>2, FS_EmptySet
<1>4. RowsHold
  BY <1>2, <1>3 DEF FeedbackInit, RowsHold, Numbered, Table
<1>5. CountersHold
  <2>1. Uncounted = {}
    BY DEF FeedbackInit, Uncounted, Idle
  <2>2. IsFiniteSet(Uncounted) /\ Cardinality(Uncounted) = 0
    BY <2>1, FS_EmptySet
  <2> QED
    BY <1>3, <2>2 DEF FeedbackInit, CountersHold, CountersAgree
<1>6. QueueHolds
  <2>1. \A a \in Analyst : analysis[a] = Idle
    BY DEF FeedbackInit
  <2>2. DOMAIN queue = {} /\ \A f \in File : file[f] = {}
    BY DEF FeedbackInit, File
  <2> QED
    BY <2>1, <2>2 DEF QueueHolds, CommandHolds
<1> QED
  BY <1>1, <1>4, <1>5, <1>6 DEF FeedbackInv

-----------------------------------------------------------------------------
(* What only grows.                                                        *)

\* The query log only grows, and a log stays what it is.
LogsGrow ==
  /\ DOMAIN logs \subseteq DOMAIN logs'
  /\ \A i \in DOMAIN logs : logs'[i] = logs[i]

LEMMA LogGrows ==
  ASSUME Shapes, NEW shape \in LogShape, Log(shape)
  PROVE  LogsGrow /\ logs' \in Seq(LogRow)
<1> DEFINE row == [shape |-> shape, at |-> now]
<1>1. row \in LogRow /\ logs \in Seq(LogRow)
  BY DEF Shapes, LogRow
<1>2. logs' = Append(logs, row)
  BY DEF Log
<1> HIDE DEF row
<1> QED
  BY <1>1, <1>2 DEF LogsGrow

\* So what is backed stays backed.
LEMMA LogsStay ==
  ASSUME LogsGrow, NEW i, NEW d, IsLogOf(i, d)
  PROVE  IsLogOf(i, d)'
  BY DEF LogsGrow, IsLogOf

LEMMA StaysBacked ==
  ASSUME LogsGrow, NEW s, NEW evidence, Backed(s, evidence)
  PROVE  Backed(s, evidence)'
  BY DEF LogsGrow, IsLogOf, Backed

\* A step that leaves the table alone keeps its rows in order.
LEMMA RowsStay ==
  ASSUME RowsHold, LogsGrow, UNCHANGED <<events, lastId>>
  PROVE  RowsHold'
<1>1. Numbered(Table)'
  BY DEF RowsHold, Numbered, Table
<1>2. ASSUME NEW k \in DOMAIN events
      PROVE  CameWhole(k)' /\ IsLogOf(events[k].log, k[1])'
  <2>1. CameWhole(k)'
    BY DEF RowsHold, CameWhole
  <2> QED
    BY <2>1, LogsStay DEF RowsHold
<1> QED
  BY <1>1, <1>2 DEF RowsHold

\* A step that leaves queue, commands and files alone keeps them backed.
LEMMA QueueStays ==
  ASSUME QueueHolds, LogsGrow, UNCHANGED <<queue, analysis, file>>
  PROVE  QueueHolds'
<1>1. ASSUME NEW s \in DOMAIN queue PROVE Backed(s, queue[s].logs)'
  BY StaysBacked DEF QueueHolds
<1>2. ASSUME NEW a \in Analyst PROVE CommandHolds(analysis[a])'
  <2> DEFINE x == analysis[a]
  <2>1. CommandHolds(x)
    BY DEF QueueHolds
  <2> HIDE DEF x
  <2>2. CommandHolds(x)'
    BY <2>1, StaysBacked DEF CommandHolds, x
  <2> QED
    BY <2>2 DEF x
<1> QED
  BY <1>1, <1>2 DEF QueueHolds

\* The rows that a request is about to be told of.
Awaited(c) == IF post[c].phase = "stored" THEN 1..post[c].new ELSE {}

LEMMA UncountedIs ==
  \A x : x \in Uncounted <=> \E c \in Client : \E i \in Awaited(c) : x = <<c, i>>
<1> DEFINE S == {x \in Client : post[x].phase = "stored"}
           Of(c) == {c} \X (1..post[c].new)
<1>1. \A x : x \in Uncounted <=> \E c \in S : x \in Of(c)
  BY DEF Uncounted
<1>2. \A c, x : x \in Of(c) <=> \E i \in 1..post[c].new : x = <<c, i>>
  OBVIOUS
<1> HIDE DEF Of
<1> QED
  BY <1>1, <1>2 DEF Awaited

\* One request more or less changes their number by its own.
RowsOf(c, n) == {<<c, i>> : i \in 1..n}

LEMMA OneRequestMore ==
  ASSUME NEW S, NEW c, NEW n \in Nat, IsFiniteSet(S), \A i : <<c, i>> \notin S
  PROVE  /\ IsFiniteSet(S \cup RowsOf(c, n))
         /\ Cardinality(S \cup RowsOf(c, n)) = Cardinality(S) + n
<1> DEFINE R == {<<c, i>> : i \in 1..n}
           f == [i \in 1..n |-> <<c, i>>]
<1>1. f \in Bijection(1..n, R)
  BY DEF Bijection, Injection, Surjection, IsInjective
<1>2. IsFiniteSet(1..n) /\ Cardinality(1..n) = n
  BY FS_Interval
<1>3. IsFiniteSet(R) /\ Cardinality(R) = n
  BY <1>1, <1>2, FS_Bijection DEF ExistsBijection
<1>4. S \cap R = {}
  OBVIOUS
<1> HIDE DEF R
<1>5. IsFiniteSet(S \cup R)
        /\ Cardinality(S \cup R)
             = Cardinality(S) + Cardinality(R) - Cardinality(S \cap R)
  BY <1>3, FS_Union
<1>6. Cardinality(S) \in Nat /\ Cardinality(S \cap R) = 0
  BY <1>4, FS_EmptySet, FS_CardinalityType
<1> QED
  BY <1>3, <1>5, <1>6 DEF R, RowsOf

LEMMA UncountedIsNext ==
  \A x : x \in Uncounted' <=>
          \E c \in Client : \E i \in Awaited(c)' : x = <<c, i>>
<1>1. (\A x : x \in Uncounted <=>
               \E c \in Client : \E i \in Awaited(c) : x = <<c, i>>)'
  BY UncountedIs, PTL
<1> QED
  BY <1>1

\* A request that moves between states without such rows changes nothing.
LEMMA SameUncounted ==
  ASSUME \A c \in Client : Awaited(c)' = Awaited(c)
  PROVE  Uncounted' = Uncounted
<1>1. \A x : x \in Uncounted' <=> x \in Uncounted
  BY UncountedIs, UncountedIsNext
<1>2. Uncounted' \subseteq Uncounted /\ Uncounted \subseteq Uncounted'
  BY <1>1
<1> QED
  BY <1>2

LEMMA CountersStay ==
  ASSUME CountersHold, UNCHANGED <<known, ingested, events>>,
         Uncounted' = Uncounted
  PROVE  CountersHold'
  BY DEF CountersHold, CountersAgree

-----------------------------------------------------------------------------
(* Every step keeps the invariant.                                         *)

\* Of the query log and the clock.
LEMMA LogKeeps ==
  ASSUME FeedbackInv, (\E shape \in LogShape : Log(shape)) \/ Tick
  PROVE  FeedbackInv' /\ LogsGrow
<1>1. /\ UNCHANGED <<events, lastId, queue, analysis, file, post, known,
                     ingested>>
      /\ now' \in Nat
  <2>1. CASE \E shape \in LogShape : Log(shape)
    BY <2>1 DEF Log, server, FeedbackInv, Shapes
  <2>2. CASE Tick
    BY <2>2 DEF Tick, server, FeedbackInv, Shapes
  <2> QED
    BY <2>1, <2>2
<1>2. LogsGrow /\ logs' \in Seq(LogRow)
  <2>1. CASE \E shape \in LogShape : Log(shape)
    BY <2>1, LogGrows DEF FeedbackInv
  <2>2. CASE Tick
    BY <2>2 DEF Tick, LogsGrow, FeedbackInv, Shapes
  <2> QED
    BY <2>1, <2>2
<1>3. Shapes'
  BY <1>1, <1>2 DEF FeedbackInv, Shapes
<1>4. Uncounted' = Uncounted
  BY <1>1 DEF Uncounted
<1> QED
  BY <1>1, <1>2, <1>3, <1>4, RowsStay, QueueStays, CountersStay DEF FeedbackInv

\* Of a request, but for the transaction and the answer.
LEMMA ArriveKeeps ==
  ASSUME FeedbackInv, NEW c \in Client,
         (\E b \in Batch : Arrive(c, b)) \/ Acquire(c)
  PROVE  FeedbackInv' /\ LogsGrow
<1>1. /\ UNCHANGED <<now, events, lastId, queue, analysis, file, logs, known,
                     ingested>>
      /\ LogsGrow
  BY DEF Arrive, Acquire, LogsGrow
<1>2. \E r \in Request : /\ post' = [post EXCEPT ![c] = r]
                        /\ post[c].phase # "stored" /\ r.phase # "stored"
  <2>1. ASSUME NEW b \in Batch, Arrive(c, b)
        PROVE  \E r \in Request : /\ post' = [post EXCEPT ![c] = r]
                                /\ post[c].phase # "stored"
                                /\ r.phase # "stored"
    <3> DEFINE r == [phase |-> "timed", batch |-> b, time |-> now]
    <3>1. r \in Request /\ r.phase = "timed"
      BY DEF Request, FeedbackInv, Shapes
    <3> QED
      BY <2>1, <3>1 DEF Arrive, To
  <2>2. CASE Acquire(c)
    <3>1. post[c] \in Request /\ post[c].phase = "timed"
      BY <2>2 DEF Acquire, FeedbackInv, Shapes
    <3>2. post[c] \in [phase : {"timed", "admitted"}, batch : Batch, time : Nat]
      BY <3>1 DEF Request, Idle
    <3>3. [post[c] EXCEPT !.phase = "admitted"] \in Request
      BY <3>2 DEF Request
    <3>4. [post[c] EXCEPT !.phase = "admitted"].phase = "admitted"
      BY <3>2
    <3>5. Idle \in Request /\ Idle.phase = "idle"
      BY DEF Request, Idle
    <3>6. \/ To(c, Idle) \/ To(c, [post[c] EXCEPT !.phase = "admitted"])
      BY <2>2 DEF Acquire, Refuse
    <3> QED
      BY <3>1, <3>3, <3>4, <3>5, <3>6 DEF To
  <2> QED
    BY <2>1, <2>2
<1>3. PICK r \in Request : /\ post' = [post EXCEPT ![c] = r]
                          /\ post[c].phase # "stored" /\ r.phase # "stored"
  BY <1>2
<1>4. Shapes'
  BY <1>1, <1>3 DEF FeedbackInv, Shapes
<1>5. \A x \in Client : Awaited(x)' = Awaited(x)
  BY <1>3 DEF Awaited, FeedbackInv, Shapes
<1>6. Uncounted' = Uncounted
  BY <1>5, SameUncounted
<1> QED
  BY <1>1, <1>4, <1>6, RowsStay, QueueStays, CountersStay DEF FeedbackInv

\* What a table that has grown by a whole batch still promises.
TableGrows ==
  /\ DOMAIN events \subseteq DOMAIN events'
  /\ \A k \in DOMAIN events :
       /\ events'[k] = events[k]
       /\ \A x \in DOMAIN events' \ DOMAIN events :
            events'[x].id > events[k].id

LEMMA StoredBatch ==
  ASSUME FeedbackInv, UNCHANGED logs, NEW b \in Batch, NEW at,
         \A i \in DOMAIN b.events : RefersToLog(b.events[i], b.domain),
         events' = Rows(b.domain, b.events, at).rows,
         lastId' = Rows(b.domain, b.events, at).last
  PROVE  RowsHold' /\ TableGrows
<1> DEFINE X == {b.events[i] : i \in DOMAIN b.events}
           t == Rows(b.domain, b.events, at)
<1>1. b.events \in Seq(X) /\ Numbered(Table)
  BY FeedbackAssumption DEF FeedbackAssumption, FeedbackInv, RowsHold
<1> HIDE DEF X
<1>2. /\ Numbered(t)
      /\ DOMAIN events' = DOMAIN events
            \cup {<<b.domain, b.events[i].key>> : i \in DOMAIN b.events}
      /\ \A k \in DOMAIN events : events'[k] = events[k]
      /\ \A k \in DOMAIN events' \ DOMAIN events :
           /\ events'[k].id > lastId
           /\ \E i \in DOMAIN b.events :
                /\ k = <<b.domain, b.events[i].key>>
                /\ events'[k].log = b.events[i].log
  <2>1. AddsBatch(t, b.domain, b.events)
    BY <1>1, RowsAre
  <2>2. events' = t.rows
    OBVIOUS
  <2> HIDE DEF t
  <2> QED
    BY <2>1, <2>2 DEF AddsBatch
<1>3. TableGrows
  <2>1. \A k \in DOMAIN events : events[k].id \in 0..lastId
    BY <1>1 DEF Numbered, Table
  <2>2. \A x \in DOMAIN events' : events'[x].id \in Int
    BY <1>2 DEF Numbered
  <2>3. lastId \in Nat
    BY <1>1 DEF Numbered, Table
  <2>4. ASSUME NEW k \in DOMAIN events, NEW x \in DOMAIN events' \ DOMAIN events
        PROVE  events'[x].id > events[k].id
    BY <2>1, <2>2, <2>3, <1>2
  <2> HIDE DEF t
  <2> QED
    BY <2>4, <1>2 DEF TableGrows
<1>4. ASSUME NEW k \in DOMAIN events'
      PROVE  CameWhole(k)' /\ IsLogOf(events[k].log, k[1])'
  <2>1. CASE k \in DOMAIN events
    <3>1. CameWhole(k) /\ IsLogOf(events[k].log, k[1]) /\ events'[k] = events[k]
      BY <2>1, <1>2 DEF FeedbackInv, RowsHold
    <3>2. CameWhole(k)'
      BY <3>1, <1>3 DEF CameWhole, TableGrows
    <3> QED
      BY <3>1, <3>2 DEF IsLogOf
  <2>2. CASE k \notin DOMAIN events
    <3>1. PICK i \in DOMAIN b.events : /\ k = <<b.domain, b.events[i].key>>
                                       /\ events'[k].log = b.events[i].log
      BY <2>2, <1>2, <1>4
    <3>2. CameWhole(k)'
      BY <3>1, <1>2 DEF CameWhole
    <3>3. IsLogOf(events[k].log, k[1])'
      BY <3>1 DEF IsLogOf, RefersToLog
    <3> QED
      BY <3>2, <3>3
  <2> QED
    BY <2>1, <2>2
<1>5. Numbered(Table)'
  <2>1. events' = t.rows /\ lastId' = t.last
    OBVIOUS
  <2> HIDE DEF t
  <2> QED
    BY <1>2, <2>1 DEF Numbered, Table
<1> QED
  BY <1>3, <1>4, <1>5 DEF RowsHold

\* The transaction adds as many rows as it will tell its client of.
LEMMA StoreKeeps ==
  ASSUME FeedbackInv, NEW c \in Client, Store(c)
  PROVE  FeedbackInv' /\ LogsGrow /\ TableGrows
<1> DEFINE b == post[c].batch
           size == Cardinality(DOMAIN events)
<1>1. /\ UNCHANGED <<now, logs, queue, analysis, file, known, ingested>>
      /\ LogsGrow
  BY DEF Store, LogsGrow
<1>2. QueueHolds'
  BY <1>1, QueueStays DEF FeedbackInv
<1>3. post[c].phase = "admitted" /\ b \in Batch
  BY DEF Store, FeedbackInv, Shapes, Request, Idle
<1>4. CASE To(c, Idle) /\ UNCHANGED <<events, lastId>>
  <2>1. Shapes'
    BY <1>1, <1>4 DEF To, FeedbackInv, Shapes, Request
  <2>2. \A x \in Client : Awaited(x)' = Awaited(x)
    BY <1>3, <1>4 DEF Awaited, To, FeedbackInv, Shapes, Idle
  <2>3. Uncounted' = Uncounted
    BY <2>2, SameUncounted
  <2> QED
    BY <1>1, <1>2, <1>4, <2>1, <2>3, RowsStay, CountersStay
       DEF FeedbackInv, TableGrows
<1>5. CASE /\ \A i \in DOMAIN b.events : RefersToLog(b.events[i], b.domain)
           /\ \E at : /\ events' = Rows(b.domain, b.events, at).rows
                      /\ lastId' = Rows(b.domain, b.events, at).last
           /\ To(c, [phase |-> "stored", batch |-> b,
                     new |-> Cardinality(DOMAIN events') - size])
  <2> DEFINE n == Cardinality(DOMAIN events') - size
  <2>1. RowsHold' /\ TableGrows
    BY <1>1, <1>3, <1>5, StoredBatch
  <2>2. size \in Nat /\ n \in Nat /\ Cardinality(DOMAIN events') = size + n
    <3>1. IsFiniteSet(DOMAIN events) /\ IsFiniteSet(DOMAIN events')
      BY <2>1 DEF FeedbackInv, RowsHold, Numbered, Table
    <3>2. size \in Nat /\ Cardinality(DOMAIN events') \in Nat
      BY <3>1, FS_CardinalityType
    <3>3. size <= Cardinality(DOMAIN events')
      BY <2>1, <3>1, FS_Subset DEF TableGrows
    <3> QED
      BY <3>2, <3>3
  <2> HIDE DEF n, b
  <2>3. post' = [post EXCEPT ![c] = [phase |-> "stored", batch |-> b, new |-> n]]
    BY <1>5 DEF To, n, b
  <2>4. Shapes'
    <3>1. [phase |-> "stored", batch |-> b, new |-> n] \in Request
      BY <1>3, <2>2 DEF Request, b
    <3> QED
      BY <1>1, <2>3, <3>1 DEF FeedbackInv, Shapes
  <2>5. /\ Awaited(c) = {} /\ Awaited(c)' = 1..n
        /\ \A x \in Client \ {c} : Awaited(x)' = Awaited(x)
    BY <1>3, <2>3 DEF Awaited, FeedbackInv, Shapes
  <2>6. Uncounted' = Uncounted \cup {<<c, i>> : i \in 1..n}
    <3>1. ASSUME NEW x \in Uncounted'
          PROVE  x \in Uncounted \/ \E i \in 1..n : x = <<c, i>>
      <4>1. PICK y \in Client : \E i \in Awaited(y)' : x = <<y, i>>
        BY <3>1, UncountedIsNext
      <4>2. CASE y = c
        BY <4>1, <4>2, <2>5
      <4>3. CASE y # c
        BY <4>1, <4>3, <2>5, UncountedIs
      <4> QED
        BY <4>2, <4>3
    <3>2. ASSUME NEW x, x \in Uncounted \/ \E i \in 1..n : x = <<c, i>>
          PROVE  x \in Uncounted'
      <4>1. CASE x \in Uncounted
        <5>1. PICK y \in Client : \E i \in Awaited(y) : x = <<y, i>>
          BY <4>1, UncountedIs
        <5>2. Awaited(y)' = Awaited(y)
          BY <5>1, <2>5
        <5> QED
          BY <5>1, <5>2, UncountedIsNext
      <4>2. CASE \E i \in 1..n : x = <<c, i>>
        BY <4>2, <2>5, UncountedIsNext
      <4> QED
        BY <3>2, <4>1, <4>2
    <3> QED
      BY <3>1, <3>2
  <2>7. \A i : <<c, i>> \notin Uncounted
    BY UncountedIs, <2>5
  <2>8. IsFiniteSet(Uncounted') /\ Cardinality(Uncounted') = Cardinality(Uncounted) + n
    <3> DEFINE T == Uncounted \cup RowsOf(c, n)
    <3>1. IsFiniteSet(Uncounted) /\ n \in Nat
      BY <2>2 DEF FeedbackInv, CountersHold
    <3>2. IsFiniteSet(T) /\ Cardinality(T) = Cardinality(Uncounted) + n
      BY <2>7, <3>1, OneRequestMore
    <3> HIDE DEF T
    <3> QED
      BY <2>6, <3>2 DEF T, RowsOf
  <2>9. CountersHold'
    <3>1. Cardinality(Uncounted) \in Nat
      BY FS_CardinalityType DEF FeedbackInv, CountersHold
    <3> QED
      BY <1>1, <2>2, <2>8, <3>1
         DEF FeedbackInv, Shapes, CountersHold, CountersAgree
  <2> QED
    BY <1>1, <1>2, <2>1, <2>4, <2>9 DEF FeedbackInv
<1> QED
  BY <1>4, <1>5 DEF Store, Refuse

\* An answer counts the rows its request has added.
LEMMA AnswerKeeps ==
  ASSUME FeedbackInv, NEW c \in Client, Answer(c)
  PROVE  FeedbackInv' /\ LogsGrow
<1> DEFINE n == post[c].new
<1>1. /\ UNCHANGED <<now, events, lastId, logs, queue, analysis, file, known>>
      /\ LogsGrow
  BY DEF Answer, LogsGrow
<1>2. post[c].phase = "stored" /\ n \in Nat
  BY DEF Answer, FeedbackInv, Shapes, Request, Idle
<1>3. post' = [post EXCEPT ![c] = Idle] /\ ingested' = ingested + n
  BY DEF Answer, To, Counted
<1> HIDE DEF n
<1>4. Shapes'
  <2>1. Idle \in Request
    BY DEF Request
  <2>2. ingested' \in Nat
    BY <1>2, <1>3 DEF FeedbackInv, Shapes
  <2> QED
    BY <1>1, <1>3, <2>1, <2>2 DEF FeedbackInv, Shapes
<1>5. /\ Awaited(c) = 1..n /\ Awaited(c)' = {}
      /\ \A x \in Client \ {c} : Awaited(x)' = Awaited(x)
  BY <1>2, <1>3 DEF Awaited, FeedbackInv, Shapes, Idle, n
<1>6. Uncounted = Uncounted' \cup RowsOf(c, n)
  <2>1. \A x : x \in Uncounted <=>
                x \in Uncounted' \cup {<<c, i>> : i \in 1..n}
    BY UncountedIs, UncountedIsNext, <1>5
  <2> QED
    BY <2>1 DEF RowsOf
<1>7. \A i : <<c, i>> \notin Uncounted'
  BY UncountedIsNext, <1>5
<1>8. IsFiniteSet(Uncounted')
  BY <1>6, FS_Subset DEF FeedbackInv, CountersHold
<1>9. Cardinality(Uncounted) = Cardinality(Uncounted') + n
  BY <1>2, <1>6, <1>7, <1>8, OneRequestMore
<1>10. CountersHold'
  <2>1. Cardinality(Uncounted') \in Nat
    BY <1>8, FS_CardinalityType
  <2>2. known + ingested + Cardinality(Uncounted) = Cardinality(DOMAIN events)
    BY DEF FeedbackInv, CountersHold, CountersAgree
  <2>3. known' + ingested' + Cardinality(Uncounted') = Cardinality(DOMAIN events')
    BY <1>1, <1>2, <1>3, <1>9, <2>1, <2>2 DEF FeedbackInv, Shapes
  <2> QED
    BY <1>8, <2>3 DEF CountersHold, CountersAgree
<1> QED
  BY <1>1, <1>4, <1>10, RowsStay, QueueStays DEF FeedbackInv

\* A crash forgets the requests and the counter, and counts from there.
LEMMA CrashKeeps ==
  ASSUME FeedbackInv, Crash
  PROVE  FeedbackInv' /\ LogsGrow
<1>1. /\ UNCHANGED <<now, events, lastId, logs, queue, analysis, file>>
      /\ LogsGrow
  BY DEF Crash, LogsGrow
<1>2. Cardinality(DOMAIN events) \in Nat
  BY FS_CardinalityType DEF FeedbackInv, RowsHold, Numbered, Table
<1>3. Shapes'
  BY <1>1, <1>2 DEF Crash, FeedbackInv, Shapes, Request
<1>4. Uncounted' = {}
  BY DEF Crash, Uncounted, Idle
<1>5. IsFiniteSet(Uncounted') /\ Cardinality(Uncounted') = 0
  BY <1>4, FS_EmptySet
<1>6. CountersHold'
  BY <1>1, <1>2, <1>5 DEF Crash, CountersHold, CountersAgree
<1> QED
  BY <1>1, <1>3, <1>6, RowsStay, QueueStays DEF FeedbackInv

-----------------------------------------------------------------------------
(* The analysis.                                                           *)

\* The evidence of a class of queries are logs of the window.
LEMMA QuerySubjectsAreBacked ==
  ASSUME NEW w, NEW signal, NEW action, NEW chosen,
         \A i \in chosen : IsLogOf(i, w.domain),
         NEW s \in QuerySubjects(w, signal, action, chosen)
  PROVE  /\ s.domain = w.domain /\ s.signal = signal
         /\ {"domain", "signal", "logs"} \subseteq DOMAIN s
         /\ "entity" \notin DOMAIN s
         /\ Backed(s, s.logs)
<1>1. PICK q \in {logs[i].shape.query : i \in chosen} :
        s = [domain |-> w.domain, action |-> action, signal |-> signal,
             query |-> q, logs |-> {i \in chosen : logs[i].shape.query = q}]
  BY DEF QuerySubjects
<1>2. PICK i \in chosen : logs[i].shape.query = q
  OBVIOUS
<1> QED
  BY <1>1, <1>2 DEF Backed

\* Naming the entity of a query leaves the rest of its subject.
LEMMA EnrichedIs ==
  ASSUME NEW s, {"domain", "signal", "logs"} \subseteq DOMAIN s
  PROVE  /\ Enriched(s).domain = s.domain
         /\ Enriched(s).signal = s.signal
         /\ Enriched(s).logs = s.logs
  BY DEF Enriched, Inserted

\* The evidence about a page are the logs of its events.
LEMMA PageSubjectsAreBacked ==
  ASSUME NEW w, w.events \subseteq DOMAIN events,
         \A k \in w.events : IsLogOf(events[k].log, w.domain),
         NEW s \in PageSubjects(w)
  PROVE  s.signal = "low_quality" /\ Backed(s, Evidence(w, s))
<1>1. PICK p \in {events[k].page : k \in w.events} :
        s.domain = w.domain /\ s.signal = "low_quality" /\ s.page = p
  <2> DEFINE Of(p) == {k \in w.events : events[k].page = p}
             Adopted(p) == {k \in Of(p) : Adopts(events[k])}
             Low == {p \in {events[k].page : k \in w.events} \ {Null} :
                       /\ Cardinality(Of(p)) >= MinEvents
                       /\ AdoptionBelowThreshold(Cardinality(Adopted(p)),
                                                 Cardinality(Of(p)))}
  <2>1. \A p \in Low : p \in {events[k].page : k \in w.events}
    OBVIOUS
  <2>2. s \in {[domain |-> w.domain, action |-> "supplemental_compile",
                signal |-> "low_quality", page |-> p,
                count |-> Cardinality(Of(p)),
                adopted |-> Cardinality(Adopted(p))] : p \in Low}
    BY DEF PageSubjects
  <2> HIDE DEF Low, Of, Adopted
  <2>3. \E p \in Low : s = [domain |-> w.domain,
                             action |-> "supplemental_compile",
                             signal |-> "low_quality", page |-> p,
                             count |-> Cardinality(Of(p)),
                             adopted |-> Cardinality(Adopted(p))]
    BY <2>2
  <2> QED
    BY <2>1, <2>3
<1>2. PICK k \in w.events : events[k].page = p
  OBVIOUS
<1>3. Evidence(w, s) = {events[x].log : x \in {y \in w.events : events[y].page = p}}
  BY <1>1 DEF Evidence
<1> QED
  BY <1>1, <1>2, <1>3 DEF Backed

\* Whatever a command suggests is backed by what it has loaded.
LEMMA SuggestionsAreBacked ==
  ASSUME FeedbackInv, NEW d, NEW from, NEW to, NEW enrich,
         NEW s \in Suggestions(Loaded(d, from, to), enrich)
  PROVE  Backed(s, Evidence(Loaded(d, from, to), s))
<1> DEFINE w == Loaded(d, from, to)
<1>1. /\ w.domain = d /\ w.events \subseteq DOMAIN events
      /\ \A i \in w.logs : IsLogOf(i, w.domain)
      /\ \A k \in w.events : IsLogOf(events[k].log, w.domain)
  BY DEF Loaded, IsLogOf, FeedbackInv, RowsHold
<1> HIDE DEF w
<1>2. ASSUME NEW x \in ZeroRecall(w)
      PROVE  /\ x.signal = "zero_recall" /\ Backed(x, x.logs)
             /\ Enriched(x).signal = "zero_recall"
             /\ Backed(Enriched(x), Enriched(x).logs)
  <2>1. /\ x.signal = "zero_recall" /\ Backed(x, x.logs)
        /\ {"domain", "signal", "logs"} \subseteq DOMAIN x
    BY <1>1, QuerySubjectsAreBacked DEF ZeroRecall
  <2>2. /\ Enriched(x).domain = x.domain
        /\ Enriched(x).signal = x.signal
        /\ Enriched(x).logs = x.logs
    BY <2>1, EnrichedIs
  <2> QED
    BY <2>1, <2>2 DEF Backed
<1>3. ASSUME NEW x \in RewriteFailures(w)
      PROVE  x.signal = "rewrite_failure" /\ Backed(x, x.logs)
  BY <1>1, QuerySubjectsAreBacked DEF RewriteFailures
<1>4. ASSUME NEW x, x.signal # "low_quality", Backed(x, x.logs)
      PROVE  Backed(x, Evidence(w, x))
  BY <1>4 DEF Evidence
<1>5. s \in Suggestions(w, enrich)
  BY DEF w
<1>6. CASE s \in ZeroRecall(w)
  BY <1>2, <1>4, <1>6 DEF w
<1>7. CASE \E x \in ZeroRecall(w) : s = Enriched(x)
  BY <1>2, <1>4, <1>7 DEF w
<1>8. CASE s \in RewriteFailures(w)
  BY <1>3, <1>4, <1>8 DEF w
<1>9. CASE s \in PageSubjects(w)
  BY <1>1, <1>9, PageSubjectsAreBacked DEF w
<1> QED
  BY <1>5, <1>6, <1>7, <1>8, <1>9 DEF Suggestions

\* What a command does not touch is what it was.
LEMMA AnalysisKeeps ==
  ASSUME FeedbackInv,
         UNCHANGED <<now, logs, events, lastId, post, known, ingested>>,
         QueueHolds', DOMAIN file' = File, DOMAIN analysis' = Analyst
  PROVE  FeedbackInv' /\ LogsGrow
<1>1. LogsGrow
  BY DEF LogsGrow
<1>2. Shapes'
  BY DEF FeedbackInv, Shapes
<1>3. Uncounted' = Uncounted
  BY DEF Uncounted
<1> QED
  BY <1>1, <1>2, <1>3, RowsStay, CountersStay DEF FeedbackInv

\* What holds of a command stays when the queue only grows.
LEMMA CommandStays ==
  ASSUME UNCHANGED logs, DOMAIN queue \subseteq DOMAIN queue', NEW x,
         CommandHolds(x)
  PROVE  CommandHolds(x)'
<1>1. LogsGrow
  BY DEF LogsGrow
<1> QED
  BY <1>1, StaysBacked DEF CommandHolds

LEMMA LoadKeeps ==
  ASSUME FeedbackInv, NEW a \in Analyst, NEW x \in Command, Load(a, x)
  PROVE  FeedbackInv' /\ LogsGrow
<1> DEFINE w == Loaded(x.domain, x.from, x.to)
           rows == [s \in Suggestions(w, x.enrich) |-> Evidence(w, s)]
           loaded == [phase |-> "loaded", rows |-> rows]
<1>1. /\ UNCHANGED <<now, logs, events, lastId, queue, file, post, known,
                     ingested>>
      /\ analysis' = [analysis EXCEPT ![a] = loaded]
  BY DEF Load, server
<1>2. \A s \in DOMAIN rows : Backed(s, rows[s])
  BY SuggestionsAreBacked
<1> HIDE DEF rows
<1>3. CommandHolds(loaded)
  BY <1>2 DEF CommandHolds, File
<1> HIDE DEF loaded
<1>4. ASSUME NEW b \in Analyst PROVE CommandHolds(analysis[b])'
  <2>1. analysis'[b] = IF b = a THEN loaded ELSE analysis[b]
    BY <1>1 DEF FeedbackInv, Shapes
  <2>2. CommandHolds(analysis'[b])
    BY <2>1, <1>3 DEF FeedbackInv, QueueHolds
  <2> DEFINE y == analysis'[b]
  <2> HIDE DEF y
  <2>3. CommandHolds(y)
    BY <2>2 DEF y
  <2> QED
    BY <2>2, <1>1 DEF CommandHolds, Backed, IsLogOf
<1>5. QueueHolds'
  BY <1>1, <1>4 DEF FeedbackInv, QueueHolds, Backed, IsLogOf
<1> QED
  BY <1>1, <1>5, AnalysisKeeps DEF FeedbackInv, Shapes

LEMMA InsertKeeps ==
  ASSUME FeedbackInv, NEW a \in Analyst, Insert(a)
  PROVE  FeedbackInv' /\ LogsGrow
<1>1. /\ UNCHANGED <<now, logs, events, lastId, file, post, known, ingested>>
      /\ analysis' = [analysis EXCEPT ![a].phase = "zh"]
      /\ analysis[a].phase = "loaded"
  BY DEF Insert, server
<1>2. PICK rows : /\ analysis[a] = [phase |-> "loaded", rows |-> rows]
                  /\ \A s \in DOMAIN rows : Backed(s, rows[s])
  <2> DEFINE x == analysis[a]
  <2>1. CommandHolds(x) /\ x.phase = "loaded"
    BY <1>1 DEF FeedbackInv, QueueHolds
  <2> HIDE DEF x
  <2>2. /\ x = [phase |-> "loaded", rows |-> x.rows]
        /\ \A s \in DOMAIN x.rows : Backed(s, x.rows[s])
    BY <2>1 DEF CommandHolds, Idle
  <2> QED
    BY <2>2 DEF x
<1>3. /\ DOMAIN queue' = DOMAIN queue \cup DOMAIN rows
      /\ \A s \in DOMAIN queue : queue'[s] = queue[s]
      /\ \A s \in DOMAIN rows \ DOMAIN queue : queue'[s].logs = rows[s]
  BY <1>2 DEF Insert, Inserted
<1> DEFINE new == [phase |-> "zh", rows |-> rows]
<1>4. /\ analysis'[a] = new
      /\ \A b \in Analyst \ {a} : analysis'[b] = analysis[b]
      /\ DOMAIN analysis' = Analyst
  BY <1>1, <1>2 DEF FeedbackInv, Shapes
<1>5. \A s \in DOMAIN rows : Backed(s, rows[s])'
  BY <1>1, <1>2 DEF Backed, IsLogOf
<1>6. CommandHolds(new)'
  BY <1>3, <1>5 DEF CommandHolds, File
<1> HIDE DEF new
<1>7. ASSUME NEW b \in Analyst PROVE CommandHolds(analysis[b])'
  <2>1. CASE b = a
    BY <1>4, <1>6, <2>1 DEF CommandHolds, Backed, IsLogOf
  <2>2. CASE b # a
    <3>1. PICK y : y = analysis[b]
      OBVIOUS
    <3>2. CommandHolds(y) /\ analysis'[b] = y
      BY <1>4, <2>2, <3>1 DEF FeedbackInv, QueueHolds
    <3>3. CommandHolds(y)'
      BY <1>1, <1>3, <3>2, CommandStays
    <3> QED
      BY <3>2, <3>3 DEF CommandHolds, Backed, IsLogOf
  <2> QED
    BY <2>1, <2>2
<1>8. ASSUME NEW s \in DOMAIN queue' PROVE Backed(s, queue[s].logs)'
  BY <1>1, <1>2, <1>3 DEF FeedbackInv, QueueHolds, Backed, IsLogOf
<1>9. \A f \in File : file'[f] \subseteq DOMAIN queue'
  BY <1>1, <1>3 DEF FeedbackInv, QueueHolds
<1>10. QueueHolds'
  BY <1>7, <1>8, <1>9 DEF QueueHolds
<1> QED
  BY <1>1, <1>4, <1>10, AnalysisKeeps DEF FeedbackInv, Shapes

\* A report file is only written with what has been queued.
LEMMA WriteKeeps ==
  ASSUME FeedbackInv, NEW a \in Analyst, Write(a) \/ Abort(a)
  PROVE  FeedbackInv' /\ LogsGrow
<1> DEFINE old == analysis[a]
<1>1. UNCHANGED <<now, logs, events, lastId, queue, post, known, ingested>>
  BY DEF Write, Abort, server
<1>2. CommandHolds(old)
  BY DEF FeedbackInv, QueueHolds
<1>3. PICK y : CommandHolds(y) /\ analysis' = [analysis EXCEPT ![a] = y]
  <2>1. CASE Abort(a)
    BY <2>1 DEF Abort, CommandHolds
  <2>2. CASE Write(a)
    <3> DEFINE next == [old EXCEPT !.phase = NextFile(old.phase)]
    <3>1. old.phase \in File
      BY <2>2 DEF Write, FeedbackInv, Shapes
    <3>2. old # Idle
      BY <3>1 DEF Idle, File
    <3>3. NextFile(old.phase) = "idle" \/ NextFile(old.phase) \in File
      BY <3>1 DEF NextFile, File
    <3>4. NextFile(old.phase) \in File => CommandHolds(next)
      BY <1>2, <3>1, <3>2 DEF CommandHolds
    <3>5. analysis' = [analysis EXCEPT ![a] =
                         IF NextFile(old.phase) = "idle" THEN Idle ELSE next]
      BY <2>2 DEF Write
    <3>6. CommandHolds(Idle)
      BY DEF CommandHolds
    <3> HIDE DEF next, old
    <3> QED
      BY <3>3, <3>4, <3>5, <3>6
  <2> QED
    BY <2>1, <2>2
<1>4. DOMAIN file' = File /\ \A f \in File : file'[f] \subseteq DOMAIN queue'
  <2>1. CASE Abort(a)
    BY <2>1 DEF Abort, FeedbackInv, Shapes, QueueHolds
  <2>2. CASE Write(a)
    <3>1. old.phase \in File
      BY <2>2 DEF Write, FeedbackInv, Shapes
    <3>2. DOMAIN old.rows \subseteq DOMAIN queue
      BY <1>2, <3>1 DEF CommandHolds, Idle, File
    <3> QED
      BY <1>1, <2>2, <3>1, <3>2 DEF Write, FeedbackInv, Shapes, QueueHolds
  <2> QED
    BY <2>1, <2>2
<1>5. ASSUME NEW b \in Analyst PROVE CommandHolds(analysis[b])'
  <2>1. analysis'[b] = IF b = a THEN y ELSE analysis[b]
    BY <1>3 DEF FeedbackInv, Shapes
  <2>2. CommandHolds(analysis'[b])
    BY <1>3, <2>1 DEF FeedbackInv, QueueHolds
  <2> QED
    BY <2>2, <1>1 DEF CommandHolds, Backed, IsLogOf
<1>6. QueueHolds'
  BY <1>1, <1>4, <1>5 DEF FeedbackInv, QueueHolds, Backed, IsLogOf
<1> QED
  BY <1>1, <1>3, <1>4, <1>6, AnalysisKeeps DEF FeedbackInv, Shapes

\* What a step of the loop may do to logs and table.
LEMMA InvIsKept ==
  FeedbackInv /\ [FeedbackNext]_feedback => FeedbackInv' /\ LogsGrow /\ TableGrows
<1> SUFFICES ASSUME FeedbackInv, [FeedbackNext]_feedback
             PROVE  FeedbackInv' /\ LogsGrow /\ TableGrows
  OBVIOUS
<1>1. ASSUME UNCHANGED events PROVE TableGrows
  BY <1>1 DEF TableGrows
<1>2. CASE (\E shape \in LogShape : Log(shape)) \/ Tick
  BY <1>1, <1>2, LogKeeps DEF Log, Tick
<1>3. ASSUME NEW c \in Client, (\E b \in Batch : Arrive(c, b)) \/ Acquire(c)
      PROVE  FeedbackInv' /\ LogsGrow /\ TableGrows
  BY <1>1, <1>3, ArriveKeeps DEF Arrive, Acquire
<1>4. ASSUME NEW c \in Client, Store(c)
      PROVE  FeedbackInv' /\ LogsGrow /\ TableGrows
  BY <1>4, StoreKeeps
<1>5. ASSUME NEW c \in Client, Answer(c)
      PROVE  FeedbackInv' /\ LogsGrow /\ TableGrows
  BY <1>1, <1>5, AnswerKeeps DEF Answer
<1>6. CASE Crash
  BY <1>1, <1>6, CrashKeeps DEF Crash
<1>7. ASSUME NEW a \in Analyst, NEW x \in Command, Load(a, x)
      PROVE  FeedbackInv' /\ LogsGrow /\ TableGrows
  BY <1>1, <1>7, LoadKeeps DEF Load
<1>8. ASSUME NEW a \in Analyst, Insert(a)
      PROVE  FeedbackInv' /\ LogsGrow /\ TableGrows
  BY <1>1, <1>8, InsertKeeps DEF Insert
<1>9. ASSUME NEW a \in Analyst, Write(a) \/ Abort(a)
      PROVE  FeedbackInv' /\ LogsGrow /\ TableGrows
  BY <1>1, <1>9, WriteKeeps DEF Write, Abort
<1>10. CASE UNCHANGED feedback
  <2>1. /\ UNCHANGED <<now, logs, events, lastId, post, known, ingested>>
        /\ UNCHANGED <<queue, analysis, file>>
    BY <1>10 DEF feedback, server
  <2>2. QueueHolds'
    BY <2>1, QueueStays DEF FeedbackInv, LogsGrow
  <2> QED
    BY <1>1, <2>1, <2>2, AnalysisKeeps DEF FeedbackInv, Shapes
<1> QED
  BY <1>2, <1>3, <1>4, <1>5, <1>6, <1>7, <1>8, <1>9, <1>10 DEF FeedbackNext

LEMMA InvAlways == FeedbackSpec => []FeedbackInv
<1>1. FeedbackInv /\ [FeedbackNext]_feedback => FeedbackInv'
  BY InvIsKept
<1> QED
  BY <1>1, InvInitially, PTL DEF FeedbackSpec

-----------------------------------------------------------------------------
(* The theorems.                                                           *)

\* A batch is stored as a whole or not at all, also when another batch, an
\* analysis or a crash comes between its checks and its transaction, and no two
\* rows have one id, however many numbers ignored inserts use up.
THEOREM BatchesAreStoredWhole == FeedbackSpec => []BatchesAreWhole
  BY InvAlways, InvImplies, PTL

\* The server's counter and the rows of the table differ by what a crash left
\* uncounted and by what answers under way will still count, replays included.
THEOREM CountersStayHonest == FeedbackSpec => []CountersAgree
  BY InvAlways, InvImplies, PTL

\* Whatever a report file proposes is a row of the review queue with its
\* evidence, wherever the analysis that wrote the file stopped.
THEOREM ReportsAreAlwaysBacked == FeedbackSpec => []ReportsAreBacked
  BY InvAlways, InvImplies, PTL

\* What a client is told about a key never changes: no batch, replay, crash or
\* analysis alters or removes a stored event or the log it is about, and what is
\* stored later has a greater id.
THEOREM AnswersAlwaysAgree == FeedbackSpec => AnswersAgree
<1>1. FeedbackInv /\ [FeedbackNext]_feedback =>
        \A k \in DOMAIN events :
          /\ k \in DOMAIN events' /\ events'[k] = events[k]
          /\ logs'[events[k].log].shape.domain = k[1]
          /\ \A x \in DOMAIN events' \ DOMAIN events :
               events'[x].id > events[k].id
  BY InvIsKept DEF FeedbackInv, RowsHold, IsLogOf, LogsGrow, TableGrows
<1>2. FeedbackInv /\ [FeedbackNext]_feedback =>
        [\A k \in DOMAIN events :
           /\ k \in DOMAIN events' /\ events'[k] = events[k]
           /\ logs'[events[k].log].shape.domain = k[1]
           /\ \A x \in DOMAIN events' \ DOMAIN events :
                events'[x].id > events[k].id]_feedback
  BY <1>1
<1> QED
  BY <1>2, InvAlways, PTL DEF FeedbackSpec, AnswersAgree

=============================================================================
