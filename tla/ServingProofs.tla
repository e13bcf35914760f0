----------------------------- MODULE ServingProofs -----------------------------
(***************************************************************************)
(* Proofs about Serving and the QugBuilds it extends.                      *)
(*                                                                         *)
(* Builds: they implement PublishedGraph, and engines only take graphs of  *)
(* the pages accepted at that moment, for all pages, packs, builders and   *)
(* engines.  The invariant says what a build is: the edges and the hash of *)
(* one snapshot under one pack, of which at most one per version is        *)
(* published.                                                              *)
(*                                                                         *)
(* Serving: searches, indexing and facts leave the builds' promise alone,  *)
(* and what the cache holds under the newest generation is what a search   *)
(* of this moment would find.  That invariant follows an answer from the   *)
(* generation it was keyed with, through the reads of the search, into the *)
(* cache: whatever was read holds still unless a page has been published   *)
(* since, and then the key is old.                                         *)
(***************************************************************************)
EXTENDS Serving, WellFoundedInduction, TLAPS

Row == [content : Content, gen : 1..MaxPublications]
Snapshot == [Page -> {None} \cup Row]
Job == {Waiting} \cup
         [phase : {"asks", "same", "derived"}, pack : Pack, snapshot : Snapshot]
Status == {"published", "superseded"}

\* What a builder makes of a snapshot under a pack.
BuildOf(k, snapshot, status) ==
  [version |-> k.version,
   source |-> SourceHash(k, snapshot, GraphOf(snapshot, k)),
   status |-> status,
   page_edges |-> PageEdges(snapshot),
   intent_edges |-> IntentEdges(k)]
Build == {BuildOf(k, snapshot, status) :
            k \in Pack, snapshot \in Snapshot, status \in Status}

PagesOK ==
  /\ latest \in 0..MaxPublications
  /\ pages \in Snapshot
  /\ \A p \in Page : pages[p] # None => pages[p].gen <= latest

Is(i, v) == builds[i].version = v /\ builds[i].status = "published"

BuildsOK ==
  /\ builds \in Seq(Build)
  /\ \A v \in Version : \A i, j \in 1..Len(builds) :
       Is(i, v) /\ Is(j, v) => i = j

QugInv ==
  /\ PagesOK
  /\ builder \in [Builder -> Job]
  /\ BuildsOK
  /\ DOMAIN engine = Engine

-----------------------------------------------------------------------------
(* Lemmas about the published build of a version.                          *)

\* A build is one of the tuple of its pack and snapshot.
LEMMA BuildIs ==
  ASSUME NEW x \in Build
  PROVE  \E k \in Pack, snapshot \in Snapshot, status \in Status :
           x = BuildOf(k, snapshot, status)
  BY DEF Build

\* Superseding changes the status and nothing else.
LEMMA SupersededIs ==
  ASSUME NEW x \in Build
  PROVE  /\ [x EXCEPT !.status = "superseded"] \in Build
         /\ [x EXCEPT !.status = "superseded"].version = x.version
         /\ [x EXCEPT !.status = "superseded"].status = "superseded"
<1>1. PICK k \in Pack, snapshot \in Snapshot, status \in Status :
        x = BuildOf(k, snapshot, status)
  BY DEF Build
<1>2. [x EXCEPT !.status = "superseded"] = BuildOf(k, snapshot, "superseded")
  BY <1>1 DEF BuildOf
<1>3. "superseded" \in Status
  BY DEF Status
<1> QED
  BY <1>1, <1>2, <1>3 DEF Build, BuildOf

\* The active build of a version is its published one, or 0.
LEMMA ActiveIs ==
  ASSUME NEW v, builds \in Seq(Build)
  PROVE  /\ Active(v) \in 0..Len(builds)
         /\ Active(v) # 0 => Is(Active(v), v)
         /\ Active(v) = 0 => \A i \in 1..Len(builds) : ~Is(i, v)
<1> DEFINE S == {i \in DOMAIN builds :
                   builds[i].version = v /\ builds[i].status = "published"}
<1>1. DOMAIN builds = 1..Len(builds) /\ Len(builds) \in Nat
  OBVIOUS
<1>2. Active(v) = IF S = {} THEN 0 ELSE CHOOSE i \in S : TRUE
  BY DEF Active
<1>3. CASE S = {}
  BY <1>1, <1>2, <1>3 DEF Is
<1>4. CASE S # {}
  <2>1. Active(v) \in S
    BY <1>2, <1>4
  <2> QED
    BY <2>1, <1>1 DEF Is
<1> QED
  BY <1>3, <1>4

\* It is the only one.
LEMMA ActiveIsOnly ==
  ASSUME NEW v \in Version, BuildsOK, NEW i \in 1..Len(builds), Is(i, v)
  PROVE  Active(v) = i
<1>1. builds \in Seq(Build) /\ Len(builds) \in Nat
  BY DEF BuildsOK
<1>2. Active(v) \in 1..Len(builds) /\ Is(Active(v), v)
  BY <1>1, ActiveIs
<1> QED
  BY <1>2 DEF BuildsOK

\* The same two facts about the state after a step.
LEMMA ActiveIsNext ==
  ASSUME NEW v, builds' \in Seq(Build)
  PROVE  /\ Active(v)' \in 0..Len(builds')
         /\ Active(v)' # 0 => Is(Active(v), v)'
<1> DEFINE S == {i \in DOMAIN builds' :
                   builds'[i].version = v /\ builds'[i].status = "published"}
<1>1. Active(v)' = IF S = {} THEN 0 ELSE CHOOSE i \in S : TRUE
  BY DEF Active
<1>2. CASE S = {}
  BY <1>1, <1>2
<1>3. CASE S # {}
  <2>1. Active(v)' \in S
    BY <1>1, <1>3
  <2> QED
    BY <2>1 DEF Is
<1> QED
  BY <1>2, <1>3

LEMMA ActiveIsOnlyNext ==
  ASSUME NEW v \in Version, BuildsOK'
  PROVE  \A i \in 1..Len(builds') : Is(i, v)' => Active(v)' = i
<1> SUFFICES ASSUME NEW i \in 1..Len(builds'), Is(i, v)' PROVE Active(v)' = i
  OBVIOUS
<1>1. builds' \in Seq(Build) /\ Len(builds') \in Nat
  BY DEF BuildsOK
<1>2. Active(v)' \in 0..Len(builds') /\ (Active(v)' # 0 => Is(Active(v), v)')
  BY <1>1, ActiveIsNext
<1>3. Active(v)' # 0
  <2> DEFINE S == {n \in DOMAIN builds' :
                     builds'[n].version = v /\ builds'[n].status = "published"}
  <2>1. Active(v)' = IF S = {} THEN 0 ELSE CHOOSE n \in S : TRUE
    BY DEF Active
  <2>2. i \in S
    BY <1>1 DEF Is
  <2>3. Active(v)' \in DOMAIN builds'
    BY <2>1, <2>2
  <2> QED
    BY <2>3, <1>1
<1>4. Active(v)' \in 1..Len(builds')
  BY <1>1, <1>2, <1>3
<1> QED
  BY <1>2, <1>3, <1>4 DEF BuildsOK, Is
-----------------------------------------------------------------------------
(* The invariant.                                                          *)

LEMMA InvInitially == QugInit => QugInv
<1> SUFFICES ASSUME QugInit PROVE QugInv
  OBVIOUS
<1>1. PagesOK
  BY QugAssumption DEF QugInit, PagesOK, Snapshot
<1>2. builder \in [Builder -> Job]
  BY DEF QugInit, Job
<1>3. BuildsOK
  BY DEF QugInit, BuildsOK
<1>4. DOMAIN engine = Engine
  BY DEF QugInit
<1> QED
  BY <1>1, <1>2, <1>3, <1>4 DEF QugInv

\* A page is published under the next generation.
LEMMA PublishPageKeepsPages ==
  ASSUME PagesOK, NEW p \in Page, NEW c \in Content, PublishPage(p, c)
  PROVE  PagesOK'
<1> DEFINE g == IF pages[p] = None THEN 1 ELSE pages[p].gen + 1
           r == [content |-> c, gen |-> g]
<1>1. /\ latest' = latest + 1 /\ latest' \in 0..MaxPublications
      /\ latest \in Nat /\ MaxPublications \in Nat
  BY QugAssumption DEF PagesOK, PublishPage
<1>2. g \in 1..latest'
  <2>1. CASE pages[p] = None
    BY <2>1, <1>1
  <2>2. CASE pages[p] # None
    <3>1. pages[p] \in Row /\ pages[p].gen <= latest
      BY <2>2 DEF PagesOK, Snapshot
    <3>2. pages[p].gen \in 1..MaxPublications
      BY <3>1 DEF Row
    <3> QED
      BY <2>2, <3>1, <3>2, <1>1
  <2> QED
    BY <2>1, <2>2
<1>3. r \in Row /\ r.gen <= latest'
  BY <1>1, <1>2, QugAssumption DEF Row
<1>4. pages' = [pages EXCEPT ![p] = r]
  BY DEF PublishPage
<1>5. pages' \in Snapshot
  BY <1>3, <1>4 DEF PagesOK, Snapshot
<1>6. ASSUME NEW q \in Page, pages'[q] # None
      PROVE  pages'[q].gen <= latest'
  <2>1. CASE q = p
    BY <2>1, <1>3, <1>4 DEF PagesOK, Snapshot
  <2>2. CASE q # p
    <3>1. pages'[q] = pages[q] /\ pages[q] \in Row /\ pages[q].gen <= latest
      BY <2>2, <1>4, <1>6 DEF PagesOK, Snapshot
    <3>2. pages[q].gen \in 1..MaxPublications
      BY <3>1 DEF Row
    <3> QED
      BY <3>1, <3>2, <1>1
  <2> QED
    BY <2>1, <2>2
<1> QED
  BY <1>1, <1>5, <1>6 DEF PagesOK

\* What a job becomes is a job.
LEMMA JobsStayJobs ==
  ASSUME QugInv, NEW b \in Builder,
         \/ \E k \in Pack, f \in BOOLEAN : Assemble(b, k, f)
         \/ AskHash(b) \/ AskIdentity(b) \/ PublishBuild(b) \/ Abandon(b)
  PROVE  builder' \in [Builder -> Job]
<1>0. builder \in [Builder -> Job] /\ pages \in Snapshot
  BY DEF QugInv, PagesOK
<1>1. ASSUME NEW k \in Pack, NEW f \in BOOLEAN, Assemble(b, k, f)
      PROVE  builder' \in [Builder -> Job]
  <2>1. [phase |-> IF f THEN "derived" ELSE "asks", pack |-> k,
         snapshot |-> pages] \in Job
    BY <1>0 DEF Job
  <2> QED
    BY <1>0, <1>1, <2>1 DEF Assemble, At
<1>2. CASE AskHash(b)
  <2>1. builder[b] \in [phase : {"asks", "same", "derived"}, pack : Pack,
                        snapshot : Snapshot]
    BY <1>0, <1>2 DEF AskHash, Job, Waiting
  <2>2. ASSUME NEW ph \in {"same", "derived"}
        PROVE  [builder[b] EXCEPT !.phase = ph] \in Job
    BY <2>1 DEF Job
  <2>3. PICK ph \in {"same", "derived"} :
          builder' = [builder EXCEPT ![b] = [builder[b] EXCEPT !.phase = ph]]
    BY <1>2 DEF AskHash, At
  <2> QED
    BY <1>0, <2>2, <2>3
<1>3. CASE AskIdentity(b) \/ PublishBuild(b) \/ Abandon(b)
  <2>1. builder' = [builder EXCEPT ![b] = Waiting] /\ Waiting \in Job
    BY <1>3 DEF AskIdentity, PublishBuild, Abandon, At, Job
  <2> QED
    BY <1>0, <2>1
<1> QED
  BY <1>1, <1>2, <1>3

\* A published build is the graph of the pages at that moment, and what it
\* leaves of the others.
LEMMA PublishedIs ==
  ASSUME QugInv, NEW b \in Builder, PublishBuild(b), Unchanged(builder[b].snapshot)
  PROVE  \E k \in Pack :
           /\ builds' = Append(Superseded(k.version), BuildOf(k, pages, "published"))
           /\ UNCHANGED <<pages, engine>>
<1>1. builder[b] \in Job /\ builder[b].phase = "derived"
  BY DEF QugInv, PublishBuild
<1>2. builder[b].pack \in Pack
  BY <1>1 DEF Job, Waiting
<1>3. builder[b].snapshot = pages
  BY DEF Unchanged
<1>4. [version |-> builder[b].pack.version, source |-> HashOf(builder[b]),
       status |-> "published", page_edges |-> PageEdges(builder[b].snapshot),
       intent_edges |-> IntentEdges(builder[b].pack)]
        = BuildOf(builder[b].pack, pages, "published")
  BY <1>3 DEF BuildOf, HashOf
<1> QED
  BY <1>2, <1>4 DEF PublishBuild

\* Append leaves what was there and puts one more after it.
LEMMA AppendIs ==
  ASSUME NEW S, NEW s \in Seq(S), NEW x \in S
  PROVE  /\ Append(s, x) \in Seq(S) /\ Len(Append(s, x)) = Len(s) + 1
         /\ Append(s, x)[Len(s) + 1] = x
         /\ \A i \in 1..Len(s) : Append(s, x)[i] = s[i]
  OBVIOUS

\* The tables after Superseded and Append.
LEMMA AppendedIs ==
  ASSUME BuildsOK, NEW k \in Pack, pages \in Snapshot,
         builds' = Append(Superseded(k.version), BuildOf(k, pages, "published"))
  PROVE  /\ builds' \in Seq(Build)
         /\ Len(builds') = Len(builds) + 1
         /\ builds'[Len(builds) + 1] = BuildOf(k, pages, "published")
         /\ \A i \in 1..Len(builds) :
              builds'[i] = IF Is(i, k.version)
                           THEN [builds[i] EXCEPT !.status = "superseded"]
                           ELSE builds[i]
<1> DEFINE Old(i) == IF Is(i, k.version)
                     THEN [builds[i] EXCEPT !.status = "superseded"]
                     ELSE builds[i]
           new == BuildOf(k, pages, "published")
           old == Superseded(k.version)
<1>1. builds \in Seq(Build) /\ Len(builds) \in Nat
      /\ DOMAIN builds = 1..Len(builds)
  BY DEF BuildsOK
<1>2. \A i \in 1..Len(builds) : builds[i] \in Build
  BY <1>1
<1>3. \A i \in 1..Len(builds) : Old(i) \in Build
  BY <1>2, SupersededIs
<1>4. old = [i \in 1..Len(builds) |-> Old(i)]
  BY <1>1 DEF Superseded, Is
<1>5. old \in Seq(Build) /\ Len(old) = Len(builds)
  BY <1>1, <1>3, <1>4
<1>6. "published" \in Status
  BY DEF Status
<1>7. new \in Build
  BY <1>6 DEF Build
<1>8. builds' = Append(old, new)
  OBVIOUS
<1> HIDE DEF old, new
<1>9. /\ builds' \in Seq(Build) /\ Len(builds') = Len(builds) + 1
      /\ builds'[Len(builds) + 1] = new
      /\ \A i \in 1..Len(builds) : builds'[i] = old[i]
  <2>1. /\ Append(old, new) \in Seq(Build)
        /\ Len(Append(old, new)) = Len(old) + 1
        /\ Append(old, new)[Len(old) + 1] = new
        /\ \A i \in 1..Len(old) : Append(old, new)[i] = old[i]
    BY <1>5, <1>7, AppendIs
  <2> QED
    BY <2>1, <1>5, <1>8
<1> QED
  BY <1>4, <1>9 DEF new

LEMMA BuildsStayBuilds ==
  ASSUME QugInv, NEW b \in Builder, PublishBuild(b)
  PROVE  BuildsOK'
<1>0. BuildsOK /\ pages \in Snapshot
  BY DEF QugInv, PagesOK
<1>1. CASE ~Unchanged(builder[b].snapshot)
  <2>1. builds' = builds
    BY <1>1 DEF PublishBuild
  <2> QED
    BY <1>0, <2>1 DEF BuildsOK, Is
<1>2. CASE Unchanged(builder[b].snapshot)
  <2>1. PICK k \in Pack :
          builds' = Append(Superseded(k.version), BuildOf(k, pages, "published"))
    BY <1>2, PublishedIs
  <2>2. /\ builds' \in Seq(Build)
        /\ Len(builds') = Len(builds) + 1
        /\ builds'[Len(builds) + 1] = BuildOf(k, pages, "published")
        /\ \A i \in 1..Len(builds) :
             builds'[i] = IF Is(i, k.version)
                          THEN [builds[i] EXCEPT !.status = "superseded"]
                          ELSE builds[i]
    BY <2>1, <1>0, AppendedIs
  <2>3. builds \in Seq(Build) /\ Len(builds) \in Nat
    BY <1>0 DEF BuildsOK
  <2>4. ASSUME NEW i \in 1..Len(builds)
        PROVE  /\ builds'[i].version = builds[i].version
               /\ Is(i, k.version) => builds'[i].status = "superseded"
               /\ ~Is(i, k.version) => builds'[i].status = builds[i].status
    <3>1. builds[i] \in Build
      BY <2>3
    <3> QED
      BY <3>1, <2>2, SupersededIs
  <2>5. /\ builds'[Len(builds) + 1].version = k.version
        /\ builds'[Len(builds) + 1].status = "published"
    BY <2>2 DEF BuildOf
  <2>6. ASSUME NEW v \in Version, NEW i \in 1..Len(builds'),
               NEW j \in 1..Len(builds'), Is(i, v)', Is(j, v)'
        PROVE  i = j
    <3>1. \A n \in 1..Len(builds) : Is(n, v)' => v # k.version /\ Is(n, v)
      BY <2>4 DEF Is
    <3>2. \A n \in {Len(builds) + 1} : Is(n, v)' => v = k.version
      BY <2>5 DEF Is
    <3>3. CASE v = k.version
      BY <3>1, <3>3, <2>6, <2>2, <2>3
    <3>4. CASE v # k.version
      <4>1. i \in 1..Len(builds) /\ j \in 1..Len(builds)
        BY <3>2, <3>4, <2>6, <2>2, <2>3
      <4> QED
        BY <4>1, <3>1, <2>6, <1>0 DEF BuildsOK
    <3> QED
      BY <3>3, <3>4
  <2> QED
    BY <2>2, <2>6 DEF BuildsOK
<1> QED
  BY <1>1, <1>2

LEMMA InvIsKept == QugInv /\ [QugNext]_qvars => QugInv'
<1> SUFFICES ASSUME QugInv, [QugNext]_qvars PROVE QugInv'
  OBVIOUS
<1>1. ASSUME NEW p \in Page, NEW c \in Content, PublishPage(p, c)
      PROVE  QugInv'
  <2>1. PagesOK'
    BY <1>1, PublishPageKeepsPages DEF QugInv
  <2> QED
    BY <1>1, <2>1 DEF QugInv, BuildsOK, Is, PublishPage
<1>2. ASSUME NEW b \in Builder,
             \/ \E k \in Pack, f \in BOOLEAN : Assemble(b, k, f)
             \/ AskHash(b) \/ AskIdentity(b) \/ Abandon(b)
      PROVE  QugInv'
  <2>1. builder' \in [Builder -> Job]
    BY <1>2, JobsStayJobs
  <2>2. UNCHANGED <<pages, latest, builds, engine>>
    BY <1>2 DEF Assemble, AskHash, AskIdentity, Abandon
  <2> QED
    BY <2>1, <2>2 DEF QugInv, PagesOK, BuildsOK, Is
<1>3. ASSUME NEW b \in Builder, PublishBuild(b)
      PROVE  QugInv'
  <2>1. builder' \in [Builder -> Job]
    BY <1>3, JobsStayJobs
  <2>2. BuildsOK'
    BY <1>3, BuildsStayBuilds
  <2>3. UNCHANGED <<pages, latest, engine>>
    BY <1>3 DEF PublishBuild
  <2> QED
    BY <2>1, <2>2, <2>3 DEF QugInv, PagesOK
<1>4. ASSUME NEW e \in Engine, NEW k \in Pack, Reload(e, k)
      PROVE  QugInv'
  <2>1. UNCHANGED <<pages, latest, builds, builder>> /\ DOMAIN engine' = DOMAIN engine
    BY <1>4 DEF Reload
  <2> QED
    BY <2>1 DEF QugInv, PagesOK, BuildsOK, Is
<1>5. CASE UNCHANGED qvars
  BY <1>5 DEF qvars, QugInv, PagesOK, BuildsOK, Is
<1> QED
  BY <1>1, <1>2, <1>3, <1>4, <1>5 DEF QugNext

\* The tables always hold builds of snapshots, of which one per version is
\* published.
THEOREM BuildsAreOfSnapshots == QugSpec => []QugInv
  BY InvInitially, InvIsKept, PTL DEF QugSpec

-----------------------------------------------------------------------------
(* The refinement.                                                         *)

\* The graph a version shows, as BuildsKeepThePromise maps it.
Shown(v) == IF Active(v) = 0 THEN None
            ELSE EdgesIn(builds[Active(v)].page_edges)
                   \cup builds[Active(v)].intent_edges

LEMMA SnapshotsArePageSets ==
  Snapshot = [Page -> {None} \cup [content : Content, gen : 1..MaxPublications]]
  BY DEF Snapshot, Row

LEMMA NothingIsShownFirst ==
  ASSUME QugInit, NEW v \in Version
  PROVE  Shown(v) = None
<1>1. builds = <<>> /\ builds \in Seq(Build) /\ Len(builds) = 0
  BY DEF QugInit
<1>2. Active(v) = 0
  BY <1>1, ActiveIs
<1> QED
  BY <1>2 DEF Shown

\* A build that is published shows the graph of the accepted pages for its
\* version, and leaves what other versions show.
LEMMA PublishedIsShown ==
  ASSUME QugInv, QugInv', NEW k \in Pack, pages' = pages,
         builds' = Append(Superseded(k.version), BuildOf(k, pages, "published")),
         NEW v \in Version
  PROVE  Shown(v)' = IF v = k.version THEN GraphOf(pages, k) ELSE Shown(v)
<1>0. BuildsOK /\ BuildsOK' /\ pages \in Snapshot /\ Len(builds) \in Nat
      /\ builds \in Seq(Build) /\ builds' \in Seq(Build)
  BY DEF QugInv, BuildsOK, PagesOK
<1>1. /\ Len(builds') = Len(builds) + 1
      /\ builds'[Len(builds) + 1] = BuildOf(k, pages, "published")
      /\ \A i \in 1..Len(builds) :
           builds'[i] = IF Is(i, k.version)
                        THEN [builds[i] EXCEPT !.status = "superseded"]
                        ELSE builds[i]
  BY <1>0, AppendedIs
<1>2. \A i \in 1..Len(builds) : builds[i] \in Build
  BY <1>0
<1>3. CASE v = k.version
  <2>1. \A i \in {Len(builds')} : i \in 1..Len(builds') /\ Is(i, v)'
    BY <1>0, <1>1, <1>3 DEF Is, BuildOf
  <2>2. Active(v)' = Len(builds')
    <3>1. \A i \in 1..Len(builds') : Is(i, v)' => Active(v)' = i
      BY <1>0, ActiveIsOnlyNext
    <3> QED
      BY <2>1, <3>1
  <2>3. Active(v)' # 0 /\ builds'[Active(v)'] = BuildOf(k, pages, "published")
    BY <2>2, <1>0, <1>1
  <2>4. Shown(v)' = EdgesIn(PageEdges(pages)) \cup IntentEdges(k)
    <3>1. /\ builds'[Active(v)'].page_edges = PageEdges(pages)
          /\ builds'[Active(v)'].intent_edges = IntentEdges(k)
      <4> DEFINE new == BuildOf(k, pages, "published")
      <4>1. new.page_edges = PageEdges(pages) /\ new.intent_edges = IntentEdges(k)
        BY DEF BuildOf
      <4> HIDE DEF new
      <4>2. builds'[Active(v)'] = new
        BY <2>3 DEF new
      <4> QED
        BY <4>1, <4>2
    <3>2. Shown(v)' = EdgesIn(builds'[Active(v)'].page_edges)
                        \cup builds'[Active(v)'].intent_edges
      BY <2>3 DEF Shown, EdgesIn
    <3> QED
      BY <3>1, <3>2
  <2> QED
    BY <2>4, <1>3 DEF GraphOf
<1>4. CASE v # k.version
  <2>1. \A i \in 1..Len(builds) : Is(i, v) => builds'[i] = builds[i]
    BY <1>1, <1>4 DEF Is
  <2>2. \A i \in 1..Len(builds) : Is(i, v)' => Is(i, v)
    <3> SUFFICES ASSUME NEW i \in 1..Len(builds), Is(i, v)' PROVE Is(i, v)
      OBVIOUS
    <3>1. CASE Is(i, k.version)
      <4>1. builds'[i].status = "superseded"
        BY <3>1, <1>1, <1>2, SupersededIs
      <4> QED
        BY <4>1 DEF Is
    <3>2. CASE ~Is(i, k.version)
      BY <3>2, <1>1 DEF Is
    <3> QED
      BY <3>1, <3>2
  <2>3. CASE Active(v) = 0
    <3>1. \A i \in 1..Len(builds) : ~Is(i, v)'
      BY <2>2, <2>3, <1>0, ActiveIs
    <3>2. \A i \in 1..Len(builds') : ~Is(i, v)'
      BY <3>1, <1>0, <1>1, <1>4 DEF Is, BuildOf
    <3>3. Active(v)' \in 0..Len(builds') /\ (Active(v)' # 0 => Is(Active(v), v)')
      BY <1>0, ActiveIsNext
    <3>4. Active(v)' = 0
      BY <3>2, <3>3, <1>0, <1>1 DEF Is
    <3> QED
      BY <2>3, <3>4, <1>4 DEF Shown
  <2>4. CASE Active(v) # 0
    <3>1. Active(v) \in 1..Len(builds) /\ Is(Active(v), v)
      BY <2>4, <1>0, ActiveIs
    <3>2. builds'[Active(v)] = builds[Active(v)]
      BY <2>1, <3>1
    <3>3. \A i \in {Active(v)} : i \in 1..Len(builds') /\ Is(i, v)'
      BY <3>1, <3>2, <1>0, <1>1 DEF Is
    <3>4. Active(v)' = Active(v)
      <4>1. \A i \in 1..Len(builds') : Is(i, v)' => Active(v)' = i
        BY <1>0, ActiveIsOnlyNext
      <4> QED
        BY <3>3, <4>1
    <3> QED
      BY <3>2, <3>4, <1>4 DEF Shown
  <2> QED
    BY <2>3, <2>4
<1> QED
  BY <1>3, <1>4

\* All of what is shown, as the abstract variable.
Published == [v \in Version |-> Shown(v)]

LEMMA InitImplements == QugInit => Promise!Init
<1> SUFFICES ASSUME QugInit PROVE Promise!Init
  OBVIOUS
<1>1. pages \in Snapshot
  BY InvInitially DEF QugInv, PagesOK
<1>2. Published = [v \in Version |-> None]
  BY NothingIsShownFirst DEF Published
<1> QED
  BY <1>1, <1>2, SnapshotsArePageSets DEF Promise!Init, Published, Shown

LEMMA StepImplements ==
  QugInv /\ QugInv' /\ [QugNext]_qvars
    => [Promise!Next]_<<pages, Published>>
<1> SUFFICES ASSUME QugInv, QugInv', [QugNext]_qvars
             PROVE  Promise!Next \/ UNCHANGED <<pages, Published>>
  OBVIOUS
<1>1. ASSUME NEW p \in Page, NEW c \in Content, PublishPage(p, c)
      PROVE  Promise!Accept
  <2>1. pages' \in Snapshot
    BY DEF QugInv, PagesOK
  <2>2. builds' = builds
    BY <1>1 DEF PublishPage
  <2> QED
    BY <2>1, <2>2, SnapshotsArePageSets DEF Promise!Accept, Active
<1>2. ASSUME NEW b \in Builder, PublishBuild(b)
      PROVE  Promise!Next \/ UNCHANGED <<pages, Published>>
  <2>1. CASE ~Unchanged(builder[b].snapshot)
    <3>1. UNCHANGED <<pages, builds>>
      BY <1>2, <2>1 DEF PublishBuild
    <3> QED
      BY <3>1 DEF Published, Shown, Active
  <2>2. CASE Unchanged(builder[b].snapshot)
    <3>1. PICK k \in Pack :
            /\ builds' = Append(Superseded(k.version),
                               BuildOf(k, pages, "published"))
            /\ pages' = pages
      BY <1>2, <2>2, PublishedIs
    <3>2. k.version \in Version
      BY DEF Version
    <3>3. \A v \in Version :
            Shown(v)' = IF v = k.version THEN GraphOf(pages, k) ELSE Shown(v)
      BY <3>1, PublishedIsShown
    <3>4. Published' = [Published EXCEPT ![k.version] = GraphOf(pages, k)]
      BY <3>2, <3>3 DEF Published
    <3>5. Promise!Publish(k.version, k)
      BY <3>1, <3>4 DEF Promise!Publish, Published, Shown
    <3> QED
      BY <3>2, <3>5 DEF Promise!Next
  <2> QED
    BY <2>1, <2>2
<1>3. ASSUME UNCHANGED <<pages, builds>>
      PROVE  UNCHANGED <<pages, Published>>
  BY <1>3 DEF Published, Shown, Active
<1>4. ASSUME NEW b \in Builder,
             \/ \E k \in Pack, f \in BOOLEAN : Assemble(b, k, f)
             \/ AskHash(b) \/ AskIdentity(b) \/ Abandon(b)
      PROVE  UNCHANGED <<pages, builds>>
  BY <1>4 DEF Assemble, AskHash, AskIdentity, Abandon
<1>5. ASSUME NEW e \in Engine, NEW k \in Pack, Reload(e, k)
      PROVE  UNCHANGED <<pages, builds>>
  BY <1>5 DEF Reload
<1>6. CASE UNCHANGED qvars
  BY <1>6, <1>3 DEF qvars
<1> QED
  BY <1>1, <1>2, <1>3, <1>4, <1>5, <1>6 DEF QugNext, Promise!Next

\* Builds implement what the store promises: a version's graph changes at once,
\* and to the graph of the pages accepted at that moment.
THEOREM BuildsImplementPromise == QugSpec => BuildsKeepThePromise
<1>1. QugInv /\ QugInv' /\ [QugNext]_qvars
        => [Promise!Next]_<<pages, [v \in Version |->
             IF Active(v) = 0 THEN None
             ELSE EdgesIn(builds[Active(v)].page_edges)
                    \cup builds[Active(v)].intent_edges]>>
  BY StepImplements DEF Published, Shown
<1> QED
  BY <1>1, InitImplements, BuildsAreOfSnapshots, PTL
     DEF QugSpec, BuildsKeepThePromise, Promise!Spec

-----------------------------------------------------------------------------
(* Loading.                                                                *)

\* A build that is current is the graph of today's pages under a pack that
\* differs from the engine's in the field types at most.
LEMMA CurrentIs ==
  ASSUME NEW x \in Build, NEW k \in Pack, Current(x, k)
  PROVE  \E o \in Pack :
           /\ o.qug = k.qug /\ o.intents = k.intents
           /\ EdgesIn(x.page_edges) \cup x.intent_edges = GraphOf(pages, o)
<1>1. PICK o \in Pack, snapshot \in Snapshot, status \in Status :
        x = BuildOf(o, snapshot, status)
  BY BuildIs
<1>2. x.source = SourceHash(o, snapshot, GraphOf(snapshot, o))
  BY <1>1 DEF BuildOf
<1>3. o.qug = k.qug /\ o.intents = k.intents /\ snapshot = pages
  BY <1>2 DEF Current, SourceHash
<1>4. x.page_edges = PageEdges(snapshot) /\ x.intent_edges = IntentEdges(o)
  BY <1>1 DEF BuildOf
<1>5. EdgesIn(x.page_edges) \cup x.intent_edges = GraphOf(pages, o)
  BY <1>3, <1>4 DEF GraphOf
<1> QED
  BY <1>3, <1>5

LEMMA ReloadTakesTheCurrentGraph ==
  ASSUME QugInv, NEW e \in Engine, NEW k \in Pack, Reload(e, k),
         NEW o \in Engine, engine'[o] # engine[o], engine'[o].qug # None
  PROVE  \E p \in Pack : /\ p.qug = engine'[o].pack.qug
                          /\ p.intents = engine'[o].pack.intents
                          /\ engine'[o].qug = GraphOf(pages, p)
<1> DEFINE active == Active(k.version)
           x == builds[active]
<1>1. o = e /\ DOMAIN engine = Engine
  BY DEF Reload, QugInv
<1>2. active # 0 /\ Current(x, k)
        /\ engine'[o] = [qug |-> EdgesIn(x.page_edges) \cup x.intent_edges,
                         stale |-> FALSE, pack |-> k]
  BY <1>1 DEF Reload
<1>3. builds \in Seq(Build) /\ active \in 1..Len(builds)
  <2>1. builds \in Seq(Build) /\ Len(builds) \in Nat
    BY DEF QugInv, BuildsOK
  <2> QED
    BY <2>1, <1>2, ActiveIs
<1>4. x \in Build
  BY <1>3
<1> HIDE DEF x
<1>5. PICK p \in Pack :
        /\ p.qug = k.qug /\ p.intents = k.intents
        /\ EdgesIn(x.page_edges) \cup x.intent_edges = GraphOf(pages, p)
  BY <1>2, <1>4, CurrentIs
<1>6. engine'[o].pack = k
      /\ engine'[o].qug = EdgesIn(x.page_edges) \cup x.intent_edges
  BY <1>2
<1> QED
  BY <1>5, <1>6

\* Whatever is built and published meanwhile, an engine only takes the graph of
\* the pages accepted at that moment, up to the field types of its pack.
THEOREM GraphsAreAlwaysCurrent == QugSpec => GraphsAreCurrent
<1> DEFINE Taken(e) == \E k \in Pack : /\ k.qug = engine'[e].pack.qug
                                      /\ k.intents = engine'[e].pack.intents
                                      /\ engine'[e].qug = GraphOf(pages, k)
           A == \A e \in Engine :
                  engine'[e] # engine[e] /\ engine'[e].qug # None => Taken(e)
<1>1. QugInv /\ [QugNext]_qvars => [A]_qvars
  <2> SUFFICES ASSUME QugInv, QugNext, NEW o \in Engine,
                      engine'[o] # engine[o], engine'[o].qug # None
               PROVE  Taken(o)
    OBVIOUS
  <2>1. PICK e \in Engine, k \in Pack : Reload(e, k)
    BY DEF QugNext, PublishPage, Assemble, AskHash, AskIdentity, PublishBuild,
           Abandon
  <2> QED
    BY <2>1, ReloadTakesTheCurrentGraph
<1>2. [A]_qvars <=> [\A e \in Engine :
       engine'[e] # engine[e] /\ engine'[e].qug # None =>
         \E k \in Pack : /\ k.qug = engine'[e].pack.qug
                         /\ k.intents = engine'[e].pack.intents
                         /\ engine'[e].qug = GraphOf(pages, k)]_qvars
  OBVIOUS
<1> HIDE DEF A
<1> QED
  BY <1>1, <1>2, BuildsAreOfSnapshots, PTL DEF QugSpec, GraphsAreCurrent

-----------------------------------------------------------------------------
(* The mirror.                                                             *)

\* A set of numbers has a least one.
LEMMA LeastNatural ==
  ASSUME NEW T, T \subseteq Nat, T # {}
  PROVE  \E x \in T : \A y \in T : x <= y
<1> DEFINE R == OpToRel(<, Nat)
<1>1. IsWellFoundedOn(R, Nat)
  BY NatLessThanWellFounded
<1>2. PICK x \in T : \A y \in T : ~(<<y, x>> \in R)
  <2> HIDE DEF R
  <2> QED
    BY <1>1, WFMin
<1>3. \A m, n \in Nat : <<m, n>> \in R <=> m < n
  BY DEF OpToRel
<1> HIDE DEF R
<1>4. ASSUME NEW y \in T PROVE x <= y
  <2>1. x \in Nat /\ y \in Nat
    OBVIOUS
  <2>2. ~(y < x)
    BY <1>2, <1>3, <2>1
  <2> QED
    BY <2>1, <2>2
<1> QED
  BY <1>4

\* The page that keeps an edge is a page of the snapshot.
LEMMA EdgesAreOfPages ==
  ASSUME NEW snapshot \in Snapshot, NEW x \in PageEdges(snapshot)
  PROVE  /\ x.page \in Page /\ snapshot[x.page] # None
         /\ x.row = snapshot[x.page]
<1> DEFINE EdgesAt(p) == SynonymsOf(snapshot[p].content)
                        \cup HyponymsOf(snapshot[p].content)
           Has(e) == {p \in Accepted(snapshot) : e \in EdgesAt(p)}
           Owner(e) == CHOOSE p \in Has(e) :
                         \A q \in Has(e) : PageRank[p] <= PageRank[q]
           Edges == UNION {EdgesAt(p) : p \in Accepted(snapshot)}
<1>1. PICK e \in Edges :
        x = [page |-> Owner(e), edge |-> e, row |-> snapshot[Owner(e)]]
  BY DEF PageEdges
<1>2. Has(e) # {} /\ Has(e) \subseteq Accepted(snapshot)
  OBVIOUS
<1> HIDE DEF Has
<1>3. Owner(e) \in Has(e)
  <2> DEFINE T == {PageRank[p] : p \in Has(e)}
  <2>1. T \subseteq Nat /\ T # {}
    BY <1>2, QugAssumption DEF Accepted
  <2>2. PICK n \in T : \A m \in T : n <= m
    <3> HIDE DEF T
    <3> QED
      BY <2>1, LeastNatural
  <2>3. PICK p \in Has(e) : n = PageRank[p]
    OBVIOUS
  <2>4. \A q \in Has(e) : PageRank[p] <= PageRank[q]
    BY <2>2, <2>3
  <2> QED
    BY <2>4
<1>4. Owner(e) \in Accepted(snapshot)
  BY <1>2, <1>3
<1> HIDE DEF Owner
<1> QED
  BY <1>1, <1>4 DEF Accepted

\* Every edge of a build is of a page that is still accepted, in the same
\* generation or a later one.
RowsAreOld ==
  \A i \in 1..Len(builds) : \A x \in builds[i].page_edges :
    /\ x.page \in Page /\ pages[x.page] # None
    /\ x.row \in Row /\ x.row.gen <= pages[x.page].gen

InMirror(x, id) == [page |-> x.page, edge |-> x.edge, build |-> id]

MirrorOK ==
  mirror = IF builds = <<>> THEN {}
           ELSE LET last == builds[Len(builds)]
                IN  {[page |-> e.page, edge |-> e.edge, build |-> Len(builds)] :
                       e \in {x \in last.page_edges : pages[x.page] = x.row}}

MirrorInv == RowsAreOld /\ MirrorOK

\* A new generation of a page takes its edges out of the mirror, and no row of
\* a build is of the new generation.
LEMMA PublishPageKeepsMirror ==
  ASSUME QugInv, MirrorInv, NEW p \in Page, NEW c \in Content, PublishPage(p, c)
  PROVE  MirrorInv'
<1> DEFINE r == [content |-> c, gen |-> IF pages[p] = None THEN 1
                                        ELSE pages[p].gen + 1]
<1>1. /\ pages' = [pages EXCEPT ![p] = r] /\ builds' = builds
      /\ mirror' = {m \in mirror : m.page # p}
  BY DEF PublishPage
<1>2. pages \in Snapshot /\ MaxPublications \in Nat
  BY QugAssumption DEF QugInv, PagesOK
<1>3. \A q \in Page : pages[q] # None => pages[q] \in Row
  BY <1>2 DEF Snapshot
<1>4. r # None /\ pages'[p] = r
  <2>1. r \in [content : Content, gen : Nat]
    <3>1. pages[p] # None => pages[p].gen \in Nat
      BY <1>2, <1>3 DEF Row
    <3> QED
      BY <3>1
  <2> QED
    BY <2>1, <1>1, <1>2, QugAssumption DEF Snapshot
<1>5. \A q \in Page : q # p => pages'[q] = pages[q]
  BY <1>1, <1>2 DEF Snapshot
<1>6. ASSUME NEW i \in 1..Len(builds), NEW x \in builds[i].page_edges
      PROVE  /\ x.page \in Page /\ pages'[x.page] # None /\ x.row \in Row
             /\ x.row.gen <= pages'[x.page].gen
             /\ x.page = p => pages'[x.page] # x.row
  <2>1. /\ x.page \in Page /\ pages[x.page] # None /\ x.row \in Row
        /\ x.row.gen <= pages[x.page].gen
    BY DEF MirrorInv, RowsAreOld
  <2>2. x.row.gen \in Nat /\ pages[x.page].gen \in Nat
    BY <2>1, <1>2, <1>3 DEF Row
  <2>3. CASE x.page = p
    <3>1. pages'[x.page] = r /\ r.gen = pages[x.page].gen + 1
      BY <2>1, <2>3, <1>4
    <3>2. x.row.gen < r.gen
      BY <2>1, <2>2, <3>1
    <3> QED
      BY <2>1, <2>2, <2>3, <3>1, <3>2, <1>4
  <2>4. CASE x.page # p
    BY <2>1, <2>4, <1>5
  <2> QED
    BY <2>3, <2>4
<1>7. RowsAreOld'
  BY <1>1, <1>6 DEF RowsAreOld
<1>8. MirrorOK'
  <2>1. CASE builds = <<>>
    BY <1>1, <2>1 DEF MirrorInv, MirrorOK
  <2>2. CASE builds # <<>>
    <3> DEFINE last == builds[Len(builds)]
    <3>1. Len(builds) \in 1..Len(builds)
      BY <2>2 DEF QugInv, BuildsOK
    <3>2. \A x \in last.page_edges :
            pages'[x.page] = x.row <=> pages[x.page] = x.row /\ x.page # p
      BY <1>5, <1>6, <3>1
    <3>3. mirror = {InMirror(x, Len(builds)) :
                      x \in {y \in last.page_edges : pages[y.page] = y.row}}
      BY <2>2 DEF MirrorInv, MirrorOK, InMirror
    <3>4. \A x \in last.page_edges : InMirror(x, Len(builds)).page = x.page
      BY DEF InMirror
    <3> HIDE DEF last
    <3>5. mirror' = {InMirror(x, Len(builds)) :
                       x \in {y \in last.page_edges : pages'[y.page] = y.row}}
      BY <1>1, <3>2, <3>3, <3>4
    <3> QED
      BY <1>1, <2>2, <3>5 DEF MirrorOK, InMirror, last
  <2> QED
    BY <2>1, <2>2
<1> QED
  BY <1>7, <1>8 DEF MirrorInv

\* A published build fills the mirror with all of its edges.
LEMMA PublishBuildKeepsMirror ==
  ASSUME QugInv, MirrorInv, NEW b \in Builder, PublishBuild(b)
  PROVE  MirrorInv'
<1>0. BuildsOK /\ pages \in Snapshot /\ Len(builds) \in Nat
      /\ builds \in Seq(Build)
  BY DEF QugInv, BuildsOK, PagesOK
<1>1. CASE ~Unchanged(builder[b].snapshot)
  <2>1. UNCHANGED <<pages, builds, mirror>>
    BY <1>1 DEF PublishBuild
  <2> QED
    BY <2>1 DEF MirrorInv, MirrorOK, RowsAreOld
<1>2. CASE Unchanged(builder[b].snapshot)
  <2>1. PICK k \in Pack :
          /\ builds' = Append(Superseded(k.version), BuildOf(k, pages, "published"))
          /\ pages' = pages
    BY <1>2, PublishedIs
  <2>2. mirror' = {InMirror(x, Len(builds) + 1) : x \in PageEdges(pages)}
    BY <1>2 DEF PublishBuild, Unchanged, Mirrored, InMirror
  <2>3. /\ Len(builds') = Len(builds) + 1
        /\ builds'[Len(builds) + 1] = BuildOf(k, pages, "published")
        /\ \A i \in 1..Len(builds) :
             builds'[i] = IF Is(i, k.version)
                          THEN [builds[i] EXCEPT !.status = "superseded"]
                          ELSE builds[i]
    BY <2>1, <1>0, AppendedIs
  <2>4. \A i \in 1..Len(builds) : builds'[i].page_edges = builds[i].page_edges
    <3> SUFFICES ASSUME NEW i \in 1..Len(builds)
                 PROVE  builds'[i].page_edges = builds[i].page_edges
      OBVIOUS
    <3>1. builds[i] \in Build
      BY <1>0
    <3>2. [builds[i] EXCEPT !.status = "superseded"].page_edges
            = builds[i].page_edges
      BY <3>1 DEF Build, BuildOf
    <3> QED
      BY <3>2, <2>3
  <2>5. BuildOf(k, pages, "published").page_edges = PageEdges(pages)
    BY DEF BuildOf
  <2>6. \A x \in PageEdges(pages) :
          /\ x.page \in Page /\ pages[x.page] # None
          /\ x.row = pages[x.page]
    BY <1>0, EdgesAreOfPages
  <2>7. \A q \in Page : pages[q] # None =>
          pages[q] \in Row /\ pages[q].gen \in Nat
    BY <1>0, QugAssumption DEF Snapshot, Row
  <2>8. RowsAreOld'
    <3> SUFFICES ASSUME NEW i \in 1..(Len(builds) + 1),
                        NEW x \in builds'[i].page_edges
                 PROVE  /\ x.page \in Page /\ pages[x.page] # None
                        /\ x.row \in Row /\ x.row.gen <= pages[x.page].gen
      BY <2>1, <2>3 DEF RowsAreOld
    <3>1. CASE i = Len(builds) + 1
      <4>1. x \in PageEdges(pages)
        BY <3>1, <2>3, <2>5
      <4>2. x.row \in Row /\ x.row = pages[x.page] /\ x.row.gen \in Nat
        BY <4>1, <2>6, <2>7
      <4> QED
        BY <4>1, <4>2, <2>6
    <3>2. CASE i # Len(builds) + 1
      <4>1. i \in 1..Len(builds) /\ x \in builds[i].page_edges
        BY <3>2, <1>0, <2>4
      <4> QED
        BY <4>1 DEF MirrorInv, RowsAreOld
    <3> QED
      BY <3>1, <3>2
  <2>9. MirrorOK'
    <3>1. builds' # <<>> /\ builds'[Len(builds')].page_edges = PageEdges(pages)
      BY <2>3, <2>5, <1>0
    <3>2. PageEdges(pages) = {x \in PageEdges(pages) : pages[x.page] = x.row}
      BY <2>6
    <3>3. mirror' = {InMirror(y, Len(builds')) :
            y \in {x \in PageEdges(pages) : pages'[x.page] = x.row}}
      BY <2>1, <2>2, <2>3, <3>2
    <3> QED
      BY <3>1, <3>3 DEF MirrorOK, InMirror
  <2> QED
    BY <2>8, <2>9 DEF MirrorInv
<1> QED
  BY <1>1, <1>2

\* The mirror holds the newest build only, without the pages published since,
\* and one build of a version is published.
THEOREM MirrorIsAlwaysTheNewestBuild == QugSpec => []MirrorIsTheNewestBuild
<1>1. QugInit => MirrorInv
  BY DEF QugInit, MirrorInv, MirrorOK, RowsAreOld
<1>2. QugInv /\ MirrorInv /\ [QugNext]_qvars => MirrorInv'
  <2> SUFFICES ASSUME QugInv, MirrorInv, [QugNext]_qvars PROVE MirrorInv'
    OBVIOUS
  <2>1. ASSUME NEW p \in Page, NEW c \in Content, PublishPage(p, c)
        PROVE  MirrorInv'
    BY <2>1, PublishPageKeepsMirror
  <2>2. ASSUME NEW b \in Builder, PublishBuild(b)
        PROVE  MirrorInv'
    BY <2>2, PublishBuildKeepsMirror
  <2>3. ASSUME UNCHANGED <<pages, builds, mirror>>
        PROVE  MirrorInv'
    BY <2>3 DEF MirrorInv, MirrorOK, RowsAreOld
  <2>4. ASSUME NEW b \in Builder,
               \/ \E k \in Pack, f \in BOOLEAN : Assemble(b, k, f)
               \/ AskHash(b) \/ AskIdentity(b) \/ Abandon(b)
        PROVE  UNCHANGED <<pages, builds, mirror>>
    BY <2>4 DEF Assemble, AskHash, AskIdentity, Abandon
  <2>5. ASSUME NEW e \in Engine, NEW k \in Pack, Reload(e, k)
        PROVE  UNCHANGED <<pages, builds, mirror>>
    BY <2>5 DEF Reload
  <2>6. CASE UNCHANGED qvars
    BY <2>6, <2>3 DEF qvars
  <2> QED
    BY <2>1, <2>2, <2>3, <2>4, <2>5, <2>6 DEF QugNext
<1>3. QugInv /\ MirrorInv => MirrorIsTheNewestBuild
  <2> SUFFICES ASSUME QugInv, MirrorInv PROVE MirrorIsTheNewestBuild
    OBVIOUS
  <2>1. builds \in Seq(Build) /\ DOMAIN builds = 1..Len(builds)
    BY DEF QugInv, BuildsOK
  <2>2. \A x \in Build : x.version \in Version
    BY DEF Build, BuildOf, Version
  <2>3. \A i \in DOMAIN builds : builds[i].version \in Version
    BY <2>1, <2>2
  <2>4. \A i, j \in DOMAIN builds :
          /\ builds[i].status = "published" /\ builds[j].status = "published"
          /\ builds[i].version = builds[j].version
          => i = j
    BY <2>1, <2>3 DEF QugInv, BuildsOK, Is
  <2> QED
    BY <2>4 DEF MirrorInv, MirrorOK, MirrorIsTheNewestBuild
<1> QED
  BY <1>1, <1>2, <1>3, BuildsAreOfSnapshots, PTL DEF QugSpec

-----------------------------------------------------------------------------
(* Serving takes steps of QugBuilds.                                       *)

LEMMA ServingSteps ==
  ASSUME load \in Load, [ServingNext]_svars
  PROVE  /\ [QugNext]_qvars
         /\ load' \in Load
<1>1. /\ Server \in Engine /\ load.packs \subseteq Pack
      /\ load.force \subseteq BOOLEAN
  BY ServingAssumption
<1>2. CASE Change
  BY <1>1, <1>2 DEF Change, QugNext, retrieval
<1>3. ASSUME NEW k \in load.packs, Restart(k)
      PROVE  QugNext /\ load' = load
  BY <1>1, <1>3 DEF Restart, QugNext
<1>4. ASSUME NEW c \in Client,
             \/ \E q \in load.queries : ReadKey(c, q)
             \/ Hit(c) \/ Miss(c) \/ Retry(c) \/ FullText(c)
             \/ Vectors(c) \/ Fuse(c) \/ Remember(c)
      PROVE  UNCHANGED qvars /\ load' = load
  BY <1>4 DEF ReadKey, Hit, Miss, Retry, FullText, Vectors, Fuse, Remember
<1>5. ASSUME \/ \E k \in DOMAIN cache : Evict(k)
             \/ \E s \in Sku, row \in FactRow : WriteFacts(s, row)
             \/ IndexReads \/ IndexUpserts
      PROVE  UNCHANGED qvars /\ load' = load
  BY <1>5 DEF Evict, WriteFacts, IndexReads, IndexUpserts
<1>6. CASE UNCHANGED svars
  BY <1>6 DEF svars, retrieval
<1> QED
  BY <1>2, <1>3, <1>4, <1>5, <1>6 DEF ServingNext

\* However searches, indexing and restarts interleave with it, the store takes
\* steps of QugBuilds.
THEOREM ServingImplementsBuilds == ServingSpec => QugSpec
<1>1. ServingInit => QugInit /\ load \in Load
  BY DEF ServingInit
<1>2. load \in Load /\ [ServingNext]_svars => [QugNext]_qvars /\ (load \in Load)'
  BY ServingSteps
<1> QED
  BY <1>1, <1>2, PTL DEF ServingSpec, QugSpec

-----------------------------------------------------------------------------
(* The invariant.                                                          *)

\* An answer that began like this can still be what a search would find: no
\* page has been published since, and no facts written that scope it.
Settled(of) ==
  /\ of.gen = latest
  /\ Planned(of.query).filters = <<>> \/ of.asof = writes

\* A search began in the past.
Past(of) == of.gen \in 0..latest /\ of.asof \in 0..writes

ScopeOf(q) == Resolved(facts, Planned(q).filters)

ChunksOK(chunks) == \A h \in chunks : h.row = pages[h.page]

IsKeyed(s) ==
  /\ s.phase = "keyed"
  /\ s = [phase |-> "keyed", of |-> s.of]
IsRelaxed(s) ==
  LET f == Planned(s.of.query).filters
  IN  /\ s.phase = "relaxed"
      /\ f # <<>> /\ RelaxOnce(f) # Nil /\ RelaxOnce(f) # <<>>
      /\ Settled(s.of) => Candidates(facts, f) = {}
IsScoped(s) ==
  /\ s.phase = "scoped"
  /\ Settled(s.of) =>
       s.filters = ScopeOf(s.of.query).filters /\ s.scope = ScopeOf(s.of.query).scope
Searched(s) ==
  /\ s.phase \in {"text", "vectors"}
  /\ Settled(s.of) => s.texts = Found(s.of.query)
Answered(s) ==
  /\ s.phase = "fused"
  /\ Settled(s.of) => s.texts = Found(s.of.query)
  /\ s.of.gen = latest => ChunksOK(s.chunks)

SearchOK(s) ==
  \/ s = Ready
  \/ /\ Past(s.of)
     /\ IsKeyed(s) \/ IsRelaxed(s) \/ IsScoped(s) \/ Searched(s) \/ Answered(s)

\* What an entry of the cache is of.
EntryOf(k, answer) == [query |-> k[1], gen |-> k[2], asof |-> answer.asof]

EntryOK(k, answer) ==
  /\ Past(EntryOf(k, answer))
  /\ Settled(EntryOf(k, answer)) => answer.texts = Found(k[1])
  /\ k[2] = latest => ChunksOK(answer.chunks)

CacheOK == \A k \in DOMAIN cache : EntryOK(k, cache[k])

ServingInv ==
  /\ writes \in Nat
  /\ DOMAIN search = Client
  /\ \A c \in Client : SearchOK(search[c])
  /\ CacheOK

\* The server's graph decides what is made of a query.
LEMMA PlannedStays ==
  ASSUME engine'[Server].qug = engine[Server].qug
  PROVE  \A q : Planned(q)' = Planned(q)
  BY DEF Planned

\* Without filters, what is found does not depend on the facts.
LEMMA UnfilteredIs ==
  ASSUME NEW terms, NEW db
  PROVE  /\ Resolved(db, <<>>) = [filters |-> <<>>, scope |-> Everything]
         /\ TextHits(terms, <<>>, Everything) =
              {p \in Accepted(pages) :
                 \E i \in DOMAIN terms : Mentions(pages[p].content, terms[i])}
<1>1. Clauses(<<>>) = {}
  BY DEF Clauses
<1>2. TextHits(terms, <<>>, Everything) =
        {p \in Accepted(pages) :
           \E i \in DOMAIN terms : Mentions(pages[p].content, terms[i])}
  BY <1>1 DEF TextHits, InScope
<1>3. Resolved(db, <<>>) = [filters |-> <<>>, scope |-> Everything]
  BY DEF Resolved
<1> QED
  BY <1>2, <1>3

\* A step that leaves the pages, the generation and the server's graph alone,
\* and the facts or else counts their write.
Quiet ==
  /\ UNCHANGED <<pages, latest>>
  /\ engine'[Server].qug = engine[Server].qug
  /\ writes \in Nat
  /\ UNCHANGED <<facts, writes>> \/ writes' = writes + 1

\* After it, what is settled was settled before and finds the same.
LEMMA SettledStays ==
  ASSUME Quiet, NEW of, Past(of), Settled(of)'
  PROVE  /\ Settled(of)
         /\ ScopeOf(of.query)' = ScopeOf(of.query)
         /\ Found(of.query)' = Found(of.query)
         /\ Planned(of.query).filters # <<>> => facts' = facts
<1> DEFINE q == of.query
           f == Planned(q).filters
           t == Planned(q).terms
<1>1. Planned(q)' = Planned(q)
  BY PlannedStays DEF Quiet
<1>2. of.asof <= writes /\ of.asof \in Nat /\ writes \in Nat
  BY DEF Past, Quiet
<1>3. of.gen = latest /\ (f = <<>> \/ of.asof = writes')
  BY <1>1 DEF Settled, Quiet
<1>4. CASE f # <<>>
  <2>1. writes' # writes + 1
    BY <1>2, <1>3, <1>4
  <2>2. UNCHANGED <<facts, writes, pages>>
    BY <2>1 DEF Quiet
  <2>3. Settled(of)
    BY <1>3, <2>2 DEF Settled
  <2>4. ScopeOf(q)' = ScopeOf(q)
    BY <1>1, <2>2 DEF ScopeOf
  <2>5. \A terms, filters, scope :
          TextHits(terms, filters, scope)' = TextHits(terms, filters, scope)
    BY <2>2 DEF TextHits, Accepted
  <2>6. Found(q)' = Found(q)
    BY <1>1, <2>4, <2>5 DEF Found, ScopeOf
  <2> QED
    BY <2>2, <2>3, <2>4, <2>6
<1>5. CASE f = <<>>
  <2>1. Settled(of)
    BY <1>3, <1>5 DEF Settled
  <2>2. /\ ScopeOf(q) = [filters |-> <<>>, scope |-> Everything]
        /\ ScopeOf(q)' = [filters |-> <<>>, scope |-> Everything]
    BY <1>1, <1>5, UnfilteredIs DEF ScopeOf
  <2>3. TextHits(t, <<>>, Everything)' = TextHits(t, <<>>, Everything)
    <3>1. Clauses(<<>>) = {}
      BY DEF Clauses
    <3>2. t' = t
      BY <1>1
    <3> QED
      BY <3>1, <3>2 DEF TextHits, InScope, Accepted, Quiet
  <2>4. /\ Found(q) = TextHits(t, <<>>, Everything)
        /\ Found(q)' = TextHits(t, <<>>, Everything)'
    BY <2>2 DEF Found, ScopeOf
  <2> QED
    BY <1>5, <2>1, <2>2, <2>3, <2>4
<1> QED
  BY <1>4, <1>5

\* It leaves searches and answers as good as they were.
LEMMA QuietSteps ==
  ASSUME Quiet
  PROVE  /\ \A k, answer : EntryOK(k, answer) => EntryOK(k, answer)'
         /\ \A s : SearchOK(s) => SearchOK(s)'
<1>1. /\ latest' = latest /\ pages' = pages
      /\ writes \in Nat /\ (writes' = writes \/ writes' = writes + 1)
  BY DEF Quiet
<1>2. \A of : Past(of) => Past(of)'
  BY <1>1 DEF Past
<1>3. \A chunks : ChunksOK(chunks) => ChunksOK(chunks)'
  BY <1>1 DEF ChunksOK
<1>4. ASSUME NEW k, NEW answer, EntryOK(k, answer)
      PROVE  EntryOK(k, answer)'
  <2> DEFINE of == EntryOf(k, answer)
  <2>1. of.query = k[1]
    BY DEF EntryOf
  <2>2. Past(of) /\ (Settled(of) => answer.texts = Found(of.query))
        /\ (k[2] = latest => ChunksOK(answer.chunks))
    BY <1>4, <2>1 DEF EntryOK
  <2>3. Settled(of)' => answer.texts = Found(of.query)'
    BY <2>2, SettledStays
  <2>4. /\ Past(of)'
        /\ (k[2] = latest' => ChunksOK(answer.chunks)')
    BY <1>1, <1>2, <1>3, <2>2
  <2> QED
    BY <2>1, <2>3, <2>4 DEF EntryOK
<1>5. ASSUME NEW s, SearchOK(s)
      PROVE  SearchOK(s)'
  <2>1. CASE s = Ready
    BY <2>1 DEF SearchOK
  <2>2. CASE s # Ready
    <3>1. Past(s.of) /\ Past(s.of)'
      BY <1>2, <1>5, <2>2 DEF SearchOK
    <3>2. Settled(s.of)' =>
            /\ Settled(s.of)
            /\ ScopeOf(s.of.query)' = ScopeOf(s.of.query)
            /\ Found(s.of.query)' = Found(s.of.query)
            /\ Planned(s.of.query).filters # <<>> => facts' = facts
      BY <3>1, SettledStays
    <3>3. Planned(s.of.query)' = Planned(s.of.query)
      BY PlannedStays DEF Quiet
    <3>4. IsKeyed(s) => IsKeyed(s)'
      BY DEF IsKeyed
    <3>5. IsRelaxed(s) => IsRelaxed(s)'
      BY <3>2, <3>3 DEF IsRelaxed
    <3>6. IsScoped(s) => IsScoped(s)'
      BY <3>2 DEF IsScoped
    <3>7. Searched(s) => Searched(s)'
      BY <3>2 DEF Searched
    <3>8. Answered(s) => Answered(s)'
      BY <1>1, <1>3, <3>2 DEF Answered
    <3> QED
      BY <1>5, <2>2, <3>1, <3>4, <3>5, <3>6, <3>7, <3>8 DEF SearchOK
  <2> QED
    BY <2>1, <2>2
<1> QED
  BY <1>4, <1>5

\* A quiet step that leaves the searches alone and adds nothing to the cache.
LEMMA QuietKeeps ==
  ASSUME ServingInv, Quiet, search' = search,
         \A k \in DOMAIN cache' : k \in DOMAIN cache /\ cache'[k] = cache[k]
  PROVE  ServingInv'
<1>1. /\ \A k, answer : EntryOK(k, answer) => EntryOK(k, answer)'
      /\ \A s : SearchOK(s) => SearchOK(s)'
  BY QuietSteps
<1>2. CacheOK'
  BY <1>1 DEF ServingInv, CacheOK
<1>3. writes' \in Nat
  BY DEF Quiet
<1> QED
  BY <1>1, <1>2, <1>3 DEF ServingInv

\* A quiet step that moves one client on to a sound search.
LEMMA MoveOn ==
  ASSUME ServingInv, NEW c \in Client, NEW r, To(c, r),
         UNCHANGED <<qvars, facts, writes, cache>>, SearchOK(r)
  PROVE  ServingInv'
<1>1. Quiet
  BY DEF Quiet, qvars, ServingInv
<1>2. search' = [search EXCEPT ![c] = r] /\ DOMAIN search = Client
  BY DEF To, ServingInv
<1>3. \A d \in Client : SearchOK(search'[d])
  BY <1>2 DEF ServingInv
<1>4. /\ \A k, answer : EntryOK(k, answer) => EntryOK(k, answer)'
      /\ \A x : SearchOK(x) => SearchOK(x)'
  BY <1>1, QuietSteps
<1>5. CacheOK'
  BY <1>4 DEF ServingInv, CacheOK
<1>6. DOMAIN search' = Client /\ writes' \in Nat
  BY <1>2 DEF ServingInv
<1> QED
  BY <1>3, <1>4, <1>5, <1>6 DEF ServingInv

LEMMA ReadKeyKeeps ==
  ASSUME QugInv, ServingInv, NEW c \in Client, NEW q, ReadKey(c, q)
  PROVE  ServingInv'
<1> DEFINE of == [query |-> q, gen |-> latest, asof |-> writes]
           r == [phase |-> "keyed", of |-> of]
<1>1. Past(of)
  BY DEF QugInv, PagesOK, ServingInv, Past
<1>2. SearchOK(r)
  BY <1>1 DEF SearchOK, IsKeyed
<1> QED
  BY <1>2, MoveOn DEF ReadKey

LEMMA HitKeeps ==
  ASSUME ServingInv, NEW c \in Client, Hit(c)
  PROVE  ServingInv'
<1>1. SearchOK(Ready)
  BY DEF SearchOK
<1> QED
  BY <1>1, MoveOn DEF Hit

\* What an invariant search in a phase is.
LEMMA InPhase ==
  ASSUME ServingInv, NEW c \in Client, search[c].phase # "ready"
  PROVE  /\ Past(search[c].of)
         /\ search[c].phase = "keyed" => IsKeyed(search[c])
         /\ search[c].phase = "relaxed" => IsRelaxed(search[c])
         /\ search[c].phase = "scoped" => IsScoped(search[c])
         /\ search[c].phase \in {"text", "vectors"} => Searched(search[c])
         /\ search[c].phase = "fused" => Answered(search[c])
<1> DEFINE s == search[c]
<1>1. SearchOK(s) /\ s # Ready
  BY DEF ServingInv, Ready
<1> HIDE DEF s
<1>2. Past(s.of)
  BY <1>1 DEF SearchOK
<1>3. IsKeyed(s) \/ IsRelaxed(s) \/ IsScoped(s) \/ Searched(s) \/ Answered(s)
  BY <1>1 DEF SearchOK
<1>4. /\ IsKeyed(s) => s.phase = "keyed"
      /\ IsRelaxed(s) => s.phase = "relaxed"
      /\ IsScoped(s) => s.phase = "scoped"
      /\ Searched(s) => s.phase \in {"text", "vectors"}
      /\ Answered(s) => s.phase = "fused"
  BY DEF IsKeyed, IsRelaxed, IsScoped, Searched, Answered
<1>5. /\ s.phase = "keyed" => IsKeyed(s)
      /\ s.phase = "relaxed" => IsRelaxed(s)
      /\ s.phase = "scoped" => IsScoped(s)
      /\ s.phase \in {"text", "vectors"} => Searched(s)
      /\ s.phase = "fused" => Answered(s)
  BY <1>3, <1>4
<1> QED
  BY <1>2, <1>5 DEF s

LEMMA ScopedKeeps ==
  ASSUME ServingInv, NEW c \in Client, Past(search[c].of),
         NEW filters, NEW scope, Scoped(c, filters, scope),
         Settled(search[c].of) =>
           [filters |-> filters, scope |-> scope] = ScopeOf(search[c].of.query),
         UNCHANGED <<qvars, facts, writes, cache>>
  PROVE  ServingInv'
<1> DEFINE r == [phase |-> "scoped", of |-> search[c].of, filters |-> filters,
                 scope |-> scope]
<1>1. Settled(search[c].of) => /\ filters = ScopeOf(search[c].of.query).filters
                               /\ scope = ScopeOf(search[c].of.query).scope
  <2> DEFINE x == ScopeOf(search[c].of.query)
  <2> HIDE DEF x
  <2>1. [filters |-> filters, scope |-> scope] = x =>
          filters = x.filters /\ scope = x.scope
    OBVIOUS
  <2> QED
    BY <2>1 DEF x
<1>2. /\ r.phase = "scoped" /\ r.of = search[c].of
      /\ r.filters = filters /\ r.scope = scope
  OBVIOUS
<1>3. To(c, r)
  BY DEF Scoped
<1> HIDE DEF r
<1>4. SearchOK(r)
  BY <1>1, <1>2 DEF SearchOK, IsScoped
<1> QED
  BY <1>3, <1>4, MoveOn

LEMMA MissKeeps ==
  ASSUME ServingInv, NEW c \in Client, Miss(c)
  PROVE  ServingInv'
<1> DEFINE q == search[c].of.query
           f == Planned(q).filters
           relaxed == RelaxOnce(f)
<1>1. Past(search[c].of) /\ IsKeyed(search[c])
  BY InPhase DEF Miss
<1>2. UNCHANGED <<qvars, facts, writes, cache>>
  BY DEF Miss
<1>3. CASE f = <<>>
  <2>1. Scoped(c, f, Everything)
    BY <1>3 DEF Miss
  <2>2. [filters |-> f, scope |-> Everything] = ScopeOf(q)
    BY <1>3 DEF ScopeOf, Resolved
  <2> QED
    BY <1>1, <1>2, <2>1, <2>2, ScopedKeeps
<1>4. CASE f # <<>> /\ (Candidates(facts, f) # {} \/ relaxed = Nil)
  <2>1. Scoped(c, f, Candidates(facts, f))
    BY <1>4 DEF Miss
  <2>2. [filters |-> f, scope |-> Candidates(facts, f)] = ScopeOf(q)
    BY <1>4 DEF ScopeOf, Resolved
  <2> QED
    BY <1>1, <1>2, <2>1, <2>2, ScopedKeeps
<1>5. CASE /\ f # <<>> /\ ~(Candidates(facts, f) # {} \/ relaxed = Nil)
           /\ relaxed = <<>>
  <2>1. Scoped(c, relaxed, Everything)
    BY <1>5 DEF Miss
  <2>2. Everything # {}
    BY ServingAssumption
  <2>3. [filters |-> relaxed, scope |-> Everything] = ScopeOf(q)
    BY <1>5, <2>2 DEF ScopeOf, Resolved
  <2> QED
    BY <1>1, <1>2, <2>1, <2>3, ScopedKeeps
<1>6. CASE /\ f # <<>> /\ ~(Candidates(facts, f) # {} \/ relaxed = Nil)
           /\ relaxed # <<>>
  <2> DEFINE r == [phase |-> "relaxed", of |-> search[c].of]
  <2>1. To(c, [search[c] EXCEPT !.phase = "relaxed"])
    BY <1>6 DEF Miss
  <2>2. [search[c] EXCEPT !.phase = "relaxed"] = r
    BY <1>1 DEF IsKeyed
  <2>3. r.phase = "relaxed" /\ r.of = search[c].of
    OBVIOUS
  <2>4. Candidates(facts, f) = {} /\ relaxed # Nil
    BY <1>6
  <2>5. IsRelaxed(r)
    BY <1>6, <2>3, <2>4 DEF IsRelaxed
  <2>6. SearchOK(r)
    BY <1>1, <2>3, <2>5 DEF SearchOK
  <2> QED
    BY <2>1, <2>2, <2>6, <1>2, MoveOn
<1> QED
  BY <1>3, <1>4, <1>5, <1>6

LEMMA RetryKeeps ==
  ASSUME ServingInv, NEW c \in Client, Retry(c)
  PROVE  ServingInv'
<1> DEFINE q == search[c].of.query
           f == Planned(q).filters
           relaxed == RelaxOnce(f)
<1>1. Past(search[c].of) /\ IsRelaxed(search[c])
  BY InPhase DEF Retry
<1>2. /\ f # <<>> /\ relaxed # Nil /\ relaxed # <<>>
      /\ Settled(search[c].of) => Candidates(facts, f) = {}
  BY <1>1 DEF IsRelaxed
<1>3. UNCHANGED <<qvars, facts, writes, cache>>
  BY DEF Retry
<1>4. CASE Candidates(facts, relaxed) = {}
  <2>1. Scoped(c, f, {})
    BY <1>4 DEF Retry
  <2>2. Settled(search[c].of) => [filters |-> f, scope |-> {}] = ScopeOf(q)
    BY <1>2, <1>4 DEF ScopeOf, Resolved
  <2> QED
    BY <1>1, <1>3, <2>1, <2>2, ScopedKeeps
<1>5. CASE Candidates(facts, relaxed) # {}
  <2>1. Scoped(c, relaxed, Candidates(facts, relaxed))
    BY <1>5 DEF Retry
  <2>2. Settled(search[c].of) =>
          [filters |-> relaxed, scope |-> Candidates(facts, relaxed)] = ScopeOf(q)
    BY <1>2, <1>5 DEF ScopeOf, Resolved
  <2> QED
    BY <1>1, <1>3, <2>1, <2>2, ScopedKeeps
<1> QED
  BY <1>4, <1>5

\* Nothing is found in an empty scope, which is answered without a search.
LEMMA FullTextKeeps ==
  ASSUME ServingInv, NEW c \in Client, FullText(c)
  PROVE  ServingInv'
<1> DEFINE s == search[c]
           texts == TextHits(Planned(s.of.query).terms, s.filters, s.scope)
           none == [phase |-> "fused", of |-> s.of, texts |-> {}, chunks |-> {},
                    hits |-> {}]
           found == [phase |-> "text", of |-> s.of, scope |-> s.scope,
                     texts |-> texts]
<1>1. Past(s.of) /\ IsScoped(s)
  BY InPhase DEF FullText
<1>2. UNCHANGED <<qvars, facts, writes, cache>>
  BY DEF FullText
<1>3. Settled(s.of) => texts = Found(s.of.query)
  BY <1>1 DEF IsScoped, ScopeOf, Found
<1>4. CASE s.scope = {}
  <2>1. To(c, none)
    BY <1>4 DEF FullText, AnswerIs
  <2>2. texts = {}
    BY <1>4, ServingAssumption DEF TextHits, InScope
  <2>3. ChunksOK({})
    BY DEF ChunksOK
  <2>4. /\ none.phase = "fused" /\ none.of = s.of
        /\ none.texts = {} /\ none.chunks = {}
    OBVIOUS
  <2> HIDE DEF none, s, texts
  <2>5. SearchOK(none)
    BY <1>1, <1>3, <2>2, <2>3, <2>4 DEF SearchOK, Answered
  <2> QED
    BY <1>2, <2>1, <2>5, MoveOn
<1>5. CASE s.scope # {}
  <2>1. To(c, found)
    BY <1>5 DEF FullText
  <2>2. found.phase = "text" /\ found.of = s.of /\ found.texts = texts
    OBVIOUS
  <2> HIDE DEF found, s, texts
  <2>3. SearchOK(found)
    BY <1>1, <1>3, <2>2 DEF SearchOK, Searched
  <2> QED
    BY <1>2, <2>1, <2>3, MoveOn
<1> QED
  BY <1>4, <1>5

LEMMA VectorsKeeps ==
  ASSUME ServingInv, NEW c \in Client, Vectors(c)
  PROVE  ServingInv'
<1> DEFINE s == search[c]
           near == {h \in points : InScope(h.page, s.scope)}
           r == [phase |-> "vectors", of |-> s.of, scope |-> s.scope,
                 texts |-> s.texts, chunks |-> near]
<1>1. Past(s.of) /\ Searched(s)
  BY InPhase DEF Vectors
<1>2. UNCHANGED <<qvars, facts, writes, cache>> /\ To(c, r)
  BY DEF Vectors
<1>3. r.phase = "vectors" /\ r.of = s.of /\ r.texts = s.texts
  OBVIOUS
<1> HIDE DEF r, s
<1>4. SearchOK(r)
  BY <1>1, <1>3 DEF SearchOK, Searched
<1> QED
  BY <1>2, <1>4, MoveOn

\* What is kept of the chunks is of pages as they are accepted.
LEMMA FuseKeeps ==
  ASSUME ServingInv, NEW c \in Client, Fuse(c)
  PROVE  ServingInv'
<1> DEFINE s == search[c]
           kept == {h \in s.chunks : h.page \in Valid(s.chunks)}
           r == [phase |-> "fused", of |-> s.of, texts |-> s.texts,
                 chunks |-> kept, hits |-> Fused(s.texts, kept, s.scope)]
<1>1. Past(s.of) /\ Searched(s)
  BY InPhase DEF Fuse
<1>2. UNCHANGED <<qvars, facts, writes, cache>> /\ To(c, r)
  BY DEF Fuse, AnswerIs
<1>3. ChunksOK(kept)
  BY DEF ChunksOK, Valid
<1>4. /\ r.phase = "fused" /\ r.of = s.of
      /\ r.texts = s.texts /\ r.chunks = kept
  OBVIOUS
<1> HIDE DEF r, s, kept
<1>5. SearchOK(r)
  BY <1>1, <1>3, <1>4 DEF SearchOK, Searched, Answered
<1> QED
  BY <1>2, <1>5, MoveOn

LEMMA RememberKeeps ==
  ASSUME ServingInv, NEW c \in Client, Remember(c)
  PROVE  ServingInv'
<1> DEFINE s == search[c]
           answer == [texts |-> s.texts, chunks |-> s.chunks, hits |-> s.hits,
                      asof |-> s.of.asof]
           key == KeyOf(c)
<1>1. Past(s.of) /\ Answered(s)
  BY InPhase DEF Remember
<1>2. /\ search' = [search EXCEPT ![c] = Ready]
      /\ UNCHANGED <<pages, latest, engine, facts, writes>>
      /\ cache' = [k \in DOMAIN cache \cup {key} |->
                     IF k = key THEN answer ELSE cache[k]]
  BY DEF Remember, To, qvars
<1>3. key[1] = s.of.query /\ key[2] = s.of.gen
  BY DEF KeyOf
<1>4. /\ answer.texts = s.texts /\ answer.chunks = s.chunks
      /\ answer.asof = s.of.asof
  OBVIOUS
<1>5. EntryOK(key, answer)
  <2> DEFINE of == EntryOf(key, answer)
  <2>1. of.query = s.of.query /\ of.gen = s.of.gen /\ of.asof = s.of.asof
    BY <1>3, <1>4 DEF EntryOf
  <2> HIDE DEF of, s, answer, key
  <2>2. Past(of) /\ (Settled(of) => answer.texts = Found(key[1]))
    BY <1>1, <1>3, <1>4, <2>1 DEF Past, Settled, Answered
  <2>3. key[2] = latest => ChunksOK(answer.chunks)
    BY <1>1, <1>3, <1>4 DEF Answered
  <2> QED
    BY <2>2, <2>3 DEF EntryOK, of
<1> HIDE DEF answer, s, key
<1>6. Quiet
  BY <1>2 DEF Quiet, ServingInv
<1>7. /\ \A k, a : EntryOK(k, a) => EntryOK(k, a)'
      /\ \A x : SearchOK(x) => SearchOK(x)'
  BY <1>6, QuietSteps
<1>8. \A k \in DOMAIN cache' : EntryOK(k, cache'[k])
  BY <1>2, <1>5 DEF ServingInv, CacheOK
<1>9. CacheOK'
  BY <1>7, <1>8 DEF CacheOK
<1>10. /\ writes' \in Nat /\ DOMAIN search' = Client
       /\ \A d \in Client : SearchOK(search'[d])
  BY <1>2 DEF ServingInv, SearchOK
<1> QED
  BY <1>7, <1>9, <1>10 DEF ServingInv

LEMMA RestartKeeps ==
  ASSUME ServingInv, NEW k, Restart(k)
  PROVE  ServingInv'
  BY DEF Restart, ServingInv, SearchOK, CacheOK

\* A new generation makes every key an old one.
LEMMA PublishPageKeeps ==
  ASSUME QugInv, ServingInv, NEW p \in Page, NEW d \in Content, PublishPage(p, d),
         UNCHANGED retrieval
  PROVE  ServingInv'
<1>1. /\ latest' = latest + 1 /\ latest \in Nat /\ writes \in Nat
      /\ engine' = engine /\ UNCHANGED <<search, cache, writes, facts>>
  BY DEF PublishPage, retrieval, QugInv, PagesOK, ServingInv
<1>2. \A n \in 0..latest : n \in 0..latest' /\ n # latest'
  BY <1>1
<1>3. \A of : Past(of) => Past(of)' /\ ~Settled(of)' /\ of.gen # latest'
  BY <1>1, <1>2 DEF Past, Settled
<1>4. \A q : Planned(q)' = Planned(q)
  BY <1>1, PlannedStays
<1>5. ASSUME NEW s, SearchOK(s)
      PROVE  SearchOK(s)'
  <2>1. CASE s = Ready
    BY <2>1 DEF SearchOK
  <2>2. CASE s # Ready
    <3>1. Past(s.of)' /\ ~Settled(s.of)' /\ s.of.gen # latest'
      BY <1>3, <1>5, <2>2 DEF SearchOK
    <3>2. IsRelaxed(s) => IsRelaxed(s)'
      BY <1>4, <3>1 DEF IsRelaxed
    <3>3. /\ IsKeyed(s) => IsKeyed(s)'
          /\ IsScoped(s) => IsScoped(s)'
          /\ Searched(s) => Searched(s)'
          /\ Answered(s) => Answered(s)'
      BY <3>1 DEF IsKeyed, IsScoped, Searched, Answered
    <3> QED
      BY <1>5, <2>2, <3>1, <3>2, <3>3 DEF SearchOK
  <2> QED
    BY <2>1, <2>2
<1>6. \A k, answer : EntryOK(k, answer) => EntryOK(k, answer)'
  BY <1>3 DEF EntryOK, EntryOf
<1>7. CacheOK'
  BY <1>1, <1>6 DEF ServingInv, CacheOK
<1> QED
  BY <1>1, <1>5, <1>7 DEF ServingInv

LEMMA ServingInvIsKept ==
  ASSUME QugInv, ServingInv, [ServingNext]_svars
  PROVE  ServingInv'
<1>1. ASSUME NEW c \in Client,
             \/ \E q \in load.queries : ReadKey(c, q)
             \/ Hit(c) \/ Miss(c) \/ Retry(c) \/ FullText(c)
             \/ Vectors(c) \/ Fuse(c) \/ Remember(c)
      PROVE  ServingInv'
  BY <1>1, ReadKeyKeeps, HitKeeps, MissKeeps, RetryKeeps, FullTextKeeps,
     VectorsKeeps, FuseKeeps, RememberKeeps
<1>2. ASSUME NEW k \in DOMAIN cache, Evict(k)
      PROVE  ServingInv'
  <2>1. Quiet /\ search' = search
        /\ \A j \in DOMAIN cache' : j \in DOMAIN cache /\ cache'[j] = cache[j]
    BY <1>2 DEF Evict, qvars, Quiet, ServingInv
  <2> QED
    BY <2>1, QuietKeeps
<1>3. ASSUME \/ \E s \in Sku, row \in FactRow : WriteFacts(s, row)
             \/ IndexReads \/ IndexUpserts
      PROVE  ServingInv'
  <2>1. Quiet /\ UNCHANGED <<search, cache>>
    BY <1>3 DEF WriteFacts, IndexReads, IndexUpserts, qvars, Quiet, ServingInv
  <2> QED
    BY <2>1, QuietKeeps
<1>4. ASSUME NEW k \in load.packs, Restart(k)
      PROVE  ServingInv'
  BY <1>4, RestartKeeps
<1>5. CASE Change
  <2>1. ASSUME NEW p \in Page, NEW d \in Content, PublishPage(p, d)
        PROVE  ServingInv'
    BY <1>5, <2>1, PublishPageKeeps DEF Change
  <2>2. ASSUME NEW b \in Builder,
               \/ \E k \in load.packs, f \in load.force : Assemble(b, k, f)
               \/ AskHash(b) \/ AskIdentity(b) \/ PublishBuild(b) \/ Abandon(b)
        PROVE  ServingInv'
    <3>1. UNCHANGED <<pages, latest, engine, search, cache, facts, writes>>
      BY <1>5, <2>2 DEF Change, retrieval, Assemble, AskHash, AskIdentity,
                        PublishBuild, Abandon
    <3>2. Quiet
      BY <3>1 DEF Quiet, ServingInv
    <3> QED
      BY <3>1, <3>2, QuietKeeps
  <2> QED
    BY <1>5, <2>1, <2>2 DEF Change
<1>6. CASE UNCHANGED svars
  <2>1. Quiet /\ UNCHANGED <<search, cache>>
    BY <1>6 DEF svars, qvars, retrieval, Quiet, ServingInv
  <2> QED
    BY <2>1, QuietKeeps
<1> QED
  BY <1>1, <1>2, <1>3, <1>4, <1>5, <1>6 DEF ServingNext

LEMMA ServingInvAlways == ServingSpec => []ServingInv
<1>1. ServingInit => ServingInv
  BY DEF ServingInit, ServingInv, SearchOK, CacheOK
<1>2. QugInv /\ ServingInv /\ [ServingNext]_svars => ServingInv'
  BY ServingInvIsKept
<1> QED
  BY <1>1, <1>2, ServingImplementsBuilds, BuildsAreOfSnapshots, PTL DEF ServingSpec

\* What the cache holds under the newest generation has the text hits that a
\* search of this moment would find, unless conditions, of the request or called
\* for by its words, scope it and facts have been written since it began.
THEOREM CacheIsAlwaysCurrent == ServingSpec => []CacheIsCurrent
<1>1. ServingInv => CacheIsCurrent
  <2> SUFFICES ASSUME ServingInv, NEW k \in DOMAIN cache, k[2] = latest,
                      Planned(k[1]).filters = <<>> \/ cache[k].asof = writes
               PROVE  cache[k].texts = Found(k[1])
    BY DEF CacheIsCurrent
  <2>1. Settled(EntryOf(k, cache[k]))
    BY DEF Settled, EntryOf
  <2> QED
    BY <2>1 DEF ServingInv, CacheOK, EntryOK
<1> QED
  BY <1>1, ServingInvAlways, PTL

\* No chunk of an answer under the newest generation is of an older content of
\* its page.
THEOREM CachedChunksAreAlwaysCurrent == ServingSpec => []CachedChunksAreCurrent
<1>1. ServingInv => CachedChunksAreCurrent
  BY DEF ServingInv, CacheOK, EntryOK, ChunksOK, CachedChunksAreCurrent
<1> QED
  BY <1>1, ServingInvAlways, PTL

\* The promise of the builds holds in every behaviour of the composition.
THEOREM ServingKeepsThePromise ==
  ServingSpec => /\ BuildsKeepThePromise
                 /\ GraphsAreCurrent
                 /\ []MirrorIsTheNewestBuild
  BY ServingImplementsBuilds, BuildsImplementPromise, GraphsAreAlwaysCurrent,
     MirrorIsAlwaysTheNewestBuild, PTL
=============================================================================
