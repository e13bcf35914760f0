------------------------------ MODULE QugBuilds ------------------------------
(***************************************************************************)
(* The QUG builds of one domain (kernel/qug_store.rs, qug_build.rs): a      *)
(* builder, `wiktor qug build` or the QugBuild service, takes a snapshot    *)
(* of the accepted pages in one transaction, derives the edges without one, *)
(* and publishes them in another; engines load the published build.  Pages  *)
(* are republished in between by compile workers or seeded.                 *)
(***************************************************************************)
EXTENDS FactFilters, FiniteSets

CONSTANTS
  Page, Content,   \* a content is [title, aliases, tags, body]
  Pack,            \* [version, qug, intents, fields]: a domain pack's version,
                   \* qug section, intents.yaml, and field -> its type
  Builder, Engine,
  PageRank,        \* page -> its place in the order of page ids
  MaxEdges,        \* MAX_QUUG_EDGES
  None,
  MaxBuilds, MaxPublications               \* bounds

ASSUME QugAssumption ==
  /\ PageRank \in [Page -> Nat]
  /\ \A p, q \in Page : PageRank[p] = PageRank[q] => p = q
  /\ None \notin Content \cup [content : Content, gen : Nat]
  /\ MaxBuilds \in Nat /\ MaxPublications \in Nat

Version == {k.version : k \in Pack}

VARIABLES
  pages,     \* page -> [content, gen], accepted, or None
  latest,    \* MAX(generation) of the domain's published generations
  builds,    \* qug_builds with their snapshot tables, by build_id
  mirror,    \* qug_edges: set of [page, edge, build]
  builder,   \* what every builder has got to
  engine     \* QueryEngine: [qug, stale, pack]

qvars == <<pages, latest, builds, mirror, builder, engine>>

-----------------------------------------------------------------------------
(* Deriving edges.                                                         *)

\* A content that derive_page_edges can read: aliases and tags need a title.
Readable(c) == c.title # None \/ (c.aliases = {} /\ c.tags = {})

\* An alias that is the title adds nothing.
SynonymsOf(c) ==
  {[kind |-> "synonym", from |-> a, to |-> c.title] : a \in c.aliases \ {c.title}}
HyponymsOf(c) ==
  {[kind |-> "hyponym", from |-> c.title, to |-> t] : t \in c.tags}

\* The pages a snapshot lists.
Accepted(snapshot) == {p \in Page : snapshot[p] # None}

\* derive_page_edges and dedup_page_edges: of the pages that have an edge, the
\* one with the least id keeps it.
PageEdges(snapshot) ==
  LET Has(e) == {p \in Accepted(snapshot) :
                   e \in SynonymsOf(snapshot[p].content)
                           \cup HyponymsOf(snapshot[p].content)}
      Edges == UNION {SynonymsOf(snapshot[p].content)
                        \cup HyponymsOf(snapshot[p].content) :
                      p \in Accepted(snapshot)}
      Owner(e) == CHOOSE p \in Has(e) :
                    \A q \in Has(e) : PageRank[p] <= PageRank[q]
  IN  {[page |-> Owner(e), edge |-> e, row |-> snapshot[Owner(e)]] : e \in Edges}

\* attribute_to_filter: as domain.yaml declares the field, "equals" is a number
\* or a text.  A number stands for a text that parses as one.
AttributeFilter(i, k) ==
  IF i.equals = Nil THEN Between(i.field, i.min, i.max)
  ELSE IF k.fields[i.field] = "numeric" THEN Between(i.field, i.equals, i.equals)
  ELSE TextIs(i.field, i.equals)

\* intent_edges: a phrase of an expansion leads to its text and its filters, of
\* an attribute to its filter, of a negation to what it excludes.
IntentEdge(i, k) ==
  [kind |-> "intent", from |-> i.phrase, template |-> i.kind = "expansion",
   terms |-> IF i.kind = "expansion" THEN <<i.text>> ELSE <<>>,
   conditions |-> CASE i.kind = "expansion" -> i.filters
                    [] i.kind = "attribute" -> <<AttributeFilter(i, k)>>
                    [] i.kind = "negation" -> <<NoneOf(i.field, i.refs)>>]
IntentEdges(k) == {IntentEdge(i, k) : i \in k.intents}

EdgesIn(page_edges) == {p.edge : p \in page_edges}

\* The graph of accepted pages under a pack.
GraphOf(snapshot, k) == EdgesIn(PageEdges(snapshot)) \cup IntentEdges(k)

\* compute_source_hash: injective in what it frames.  Of domain.yaml only the
\* qug section is in it.
SourceHash(k, snapshot, edges) ==
  <<k.version, k.qug, k.intents, snapshot, edges>>

\* validate_snapshot and the checks of derive_qug_edges.
Derivable(snapshot, k) ==
  /\ \A p \in Accepted(snapshot) : Readable(snapshot[p].content)
  /\ \A i \in k.intents :
       i.kind = "attribute" /\ k.fields[i.field] = "numeric" =>
         i.equals \in Int \cup {Nil}
  /\ Cardinality(PageEdges(snapshot)) + Cardinality(IntentEdges(k)) <= MaxEdges

-----------------------------------------------------------------------------
(* The accepted pages.                                                     *)

\* publish_in_transaction of the compile store, as far as it concerns pages:
\* the next generation of the page, one of the domain, and the page's mirror
\* rows are replaced by what the compiled page has: none.
PublishPage(p, c) ==
  /\ latest < MaxPublications
  /\ pages' = [pages EXCEPT ![p] =
                 [content |-> c,
                  gen |-> IF pages[p] = None THEN 1 ELSE pages[p].gen + 1]]
  /\ latest' = latest + 1
  /\ mirror' = {m \in mirror : m.page # p}
  /\ UNCHANGED <<builds, builder, engine>>

-----------------------------------------------------------------------------
(* build_and_publish_qug.                                                  *)

Waiting == [phase |-> "idle"]
At(b, record) == builder' = [builder EXCEPT ![b] = record]

\* assemble_qug_snapshot, one transaction; then derive_qug_edges, on it alone.
\* What cannot be derived is an error.
Assemble(b, k, force) ==
  /\ builder[b].phase = "idle"
  /\ Derivable(pages, k)
  /\ At(b, [phase |-> IF force THEN "derived" ELSE "asks", pack |-> k,
            snapshot |-> pages])
  /\ UNCHANGED <<pages, latest, builds, mirror, engine>>

HashOf(job) ==
  SourceHash(job.pack, job.snapshot, GraphOf(job.snapshot, job.pack))

\* The published build of a version: 0 if there is none.
Active(v) ==
  LET Is == {i \in DOMAIN builds :
               builds[i].version = v /\ builds[i].status = "published"}
  IN  IF Is = {} THEN 0 ELSE CHOOSE i \in Is : TRUE

\* active_source_hash.
AskHash(b) ==
  LET job == builder[b] IN
  /\ job.phase = "asks"
  /\ At(b, [job EXCEPT !.phase =
              IF /\ Active(job.pack.version) # 0
                 /\ builds[Active(job.pack.version)].source = HashOf(job)
              THEN "same" ELSE "derived"])
  /\ UNCHANGED <<pages, latest, builds, mirror, engine>>

\* active_build_identity, another read: the answer is Reused, with the id of
\* whatever build is published now.  A published build never goes away, so the
\* `if let` of the code always finds one.
AskIdentity(b) ==
  /\ builder[b].phase = "same"
  /\ At(b, Waiting)
  /\ UNCHANGED <<pages, latest, builds, mirror, engine>>

\* publish_in_transaction compares the accepted pages with the snapshot.
FaultyUnchanged(snapshot) == Accepted(snapshot) = Accepted(pages)
Unchanged(snapshot) == snapshot = pages

\* The published build of the version makes room; other versions keep theirs.
FaultySuperseded(v) == builds
Superseded(v) ==
  [i \in DOMAIN builds |->
     IF builds[i].version = v /\ builds[i].status = "published"
     THEN [builds[i] EXCEPT !.status = "superseded"] ELSE builds[i]]

\* The mirror rows of the whole domain are replaced, also those that belong to
\* another version's build.
FaultyMirrored(id, page_edges) ==
  mirror \cup {[page |-> e.page, edge |-> e.edge, build |-> id] : e \in page_edges}
Mirrored(id, page_edges) ==
  {[page |-> e.page, edge |-> e.edge, build |-> id] : e \in page_edges}

\* publish_in_transaction.  A build is "building" only inside it; what it
\* verifies after writing is what it wrote.  The error "source_changed" leaves
\* nothing behind.
PublishBuild(b) ==
  LET job == builder[b]
      id == Len(builds) + 1
      edges == PageEdges(job.snapshot)
      row == [version |-> job.pack.version, source |-> HashOf(job),
              status |-> "published", page_edges |-> edges,
              intent_edges |-> IntentEdges(job.pack)]
  IN  /\ job.phase = "derived"
      /\ At(b, Waiting)
      /\ IF Unchanged(job.snapshot)
         THEN /\ Len(builds) < MaxBuilds
              /\ builds' = Append(Superseded(job.pack.version), row)
              /\ mirror' = Mirrored(id, edges)
         ELSE UNCHANGED <<builds, mirror>>
      /\ UNCHANGED <<pages, latest, engine>>

\* A builder is killed, or its request cancelled, between two transactions.
Abandon(b) ==
  /\ builder[b].phase # "idle"
  /\ At(b, Waiting)
  /\ UNCHANGED <<pages, latest, builds, mirror, engine>>

-----------------------------------------------------------------------------
(* Loading.                                                                *)

\* load_active_qug_in_transaction: the hash of the stored edges over today's
\* pages and the engine's own pack.
FaultyCurrent(build, k) == build.version = k.version
Current(build, k) ==
  build.source = SourceHash(k, pages, EdgesIn(build.page_edges)
                                        \cup build.intent_edges)

\* reload_persistent_qug, at the start of `wiktor query`.  (`wiktor serve`
\* loads the same way and does not start on a stale build.)
Reload(e, k) ==
  /\ engine' = [engine EXCEPT ![e] =
       LET active == Active(k.version) IN
       IF active = 0 THEN [qug |-> None, stale |-> FALSE, pack |-> k]
       ELSE IF Current(builds[active], k)
       THEN [qug |-> EdgesIn(builds[active].page_edges)
                       \cup builds[active].intent_edges,
             stale |-> FALSE, pack |-> k]
       ELSE [qug |-> None, stale |-> TRUE, pack |-> k]]
  /\ UNCHANGED <<pages, latest, builds, mirror, builder>>

-----------------------------------------------------------------------------
QugInit ==
  /\ pages = [p \in Page |-> None] /\ latest = 0
  /\ builds = <<>> /\ mirror = {}
  /\ builder = [b \in Builder |-> Waiting]
  /\ engine \in [Engine -> {[qug |-> None, stale |-> FALSE, pack |-> k] :
                              k \in Pack}]

QugNext ==
  \/ \E p \in Page, c \in Content : PublishPage(p, c)
  \/ \E b \in Builder, k \in Pack, f \in BOOLEAN : Assemble(b, k, f)
  \/ \E b \in Builder : AskHash(b) \/ AskIdentity(b) \/ PublishBuild(b)
                          \/ Abandon(b)
  \/ \E e \in Engine, k \in Pack : Reload(e, k)

QugSpec == QugInit /\ [][QugNext]_qvars

-----------------------------------------------------------------------------
(* Properties.                                                             *)

\* What the store promises: a build is published whole, in place of the one
\* before it, and only as the graph of the pages accepted at that moment --
\* whatever was published while its builder derived edges.
Promise == INSTANCE PublishedGraph WITH
  Setting <- Pack,
  PageSet <- [Page -> {None} \cup [content : Content, gen : 1..MaxPublications]],
  Graph <- GraphOf,
  accepted <- pages,
  published <- [v \in Version |->
                  IF Active(v) = 0 THEN None
                  ELSE EdgesIn(builds[Active(v)].page_edges)
                         \cup builds[Active(v)].intent_edges]

BuildsKeepThePromise == Promise!Spec

\* An engine that takes a graph takes the one a build of this moment would
\* derive, up to the field types, which no hash covers.
GraphsAreCurrent ==
  [][\A e \in Engine :
       engine'[e] # engine[e] /\ engine'[e].qug # None =>
         \E k \in Pack : /\ k.qug = engine'[e].pack.qug
                         /\ k.intents = engine'[e].pack.intents
                         /\ engine'[e].qug = GraphOf(pages, k)]_qvars

\* The mirror holds one build only, the newest of any version, without the
\* pages that were published since; and one build per version is published.
MirrorIsTheNewestBuild ==
  /\ \A i, j \in DOMAIN builds :
       /\ builds[i].status = "published" /\ builds[j].status = "published"
       /\ builds[i].version = builds[j].version
       => i = j
  /\ mirror = IF builds = <<>> THEN {}
              ELSE LET last == builds[Len(builds)]
                   IN  {[page |-> e.page, edge |-> e.edge, build |-> Len(builds)] :
                          e \in {x \in last.page_edges : pages[x.page] = x.row}}
=============================================================================
