------------------------------- MODULE Serving -------------------------------
(***************************************************************************)
(* Queries (query_engine/mod.rs, cache.rs) over pages and builds that       *)
(* change: QueryEngine::search of a server with its hot cache, the facts    *)
(* plane that filters are pushed down to, and the vector collection that    *)
(* `wiktor vector build` fills.  A search takes a lock of the kernel for    *)
(* every read, and awaits the vector store: every read is an action.        *)
(*                                                                         *)
(* A search carries the query it is of, the generation it began under and,  *)
(* a history, how many facts writes there had been then.                    *)
(***************************************************************************)
EXTENDS QugBuilds, Rewriting

CONSTANTS
  Client, Server,
  Query,             \* [text, filters]
  Sku, FactRow,      \* what a SKU's facts can be, as in FactFilters
  NoFacts,           \* the row of a SKU without facts
  Load               \* bounds: [publications, builds, builders, force, packs,
                     \* writes, queries]

ASSUME ServingAssumption ==
  /\ Server \in Engine
  /\ Everything # {}
  /\ \A l \in Load : l.packs \subseteq Pack /\ l.force \subseteq BOOLEAN

VARIABLES
  facts,    \* SKU -> FactRow, or NoFacts
  points,   \* the collection: set of [page, row]
  index,    \* pages `wiktor vector build` has read and not upserted, or None
  cache,    \* <<query, generation>> -> [texts, chunks, hits] and, a history,
            \* asof: number of facts writes when its search began
  search,   \* what every client's search has got to
  writes,   \* number of facts writes
  load      \* the bound of this behaviour

retrieval == <<facts, points, index, cache, search, writes, load>>
svars == <<qvars, retrieval>>

-----------------------------------------------------------------------------
(* What is searched.                                                       *)

Ready == [phase |-> "ready"]
To(c, record) == search' = [search EXCEPT ![c] = record]

\* QugGraph::from_edges: an edge as Rewriting has it.
Edge(e) ==
  CASE e.kind = "synonym" ->
         [phrase |-> e.from, to |-> <<e.to>>, terms |-> <<e.to>>,
          conditions |-> <<>>, intent |-> FALSE]
    [] e.kind = "hyponym" ->
         [phrase |-> e.from, to |-> <<e.to>>, terms |-> <<e.from, e.to>>,
          conditions |-> <<>>, intent |-> FALSE]
    [] e.kind = "intent" ->
         [phrase |-> e.from, to |-> <<e.from>>, terms |-> e.terms,
          conditions |-> e.conditions, intent |-> e.template]

\* The edges of pages, then those of intents.
InOrder(edges) ==
  LET Listed(S) == SetToSeq({Edge(e) : e \in S})
  IN  Listed({e \in edges : e.kind # "intent"})
        \o Listed({e \in edges : e.kind = "intent"})

\* What the server's graph makes of a query: terms and filters, into which the
\* conditions its words call for are merged.  The graph stays until a restart.
Planned(q) ==
  IF engine[Server].qug = None
  THEN [terms |-> <<q.text>>, filters |-> q.filters]
  ELSE Plan(InOrder(engine[Server].qug), q)

\* no filter: candidates = None
InScope(p, scope) == scope = Everything \/ p \in scope

Mentions(content, term) ==
  \E words \in {content.title, content.body} :
    \E i \in DOMAIN words : OccursAt(term, words, i)

\* search_candidates: accepted pages in scope whose title or text has a term,
\* and whose facts satisfy the filters, looked at again.
TextHits(terms, filters, scope) ==
  {p \in Accepted(pages) :
     /\ \E i \in DOMAIN terms : Mentions(pages[p].content, terms[i])
     /\ InScope(p, scope)
     /\ Clauses(filters) # {} => p \in Candidates(facts, filters)}

\* validate_vector_payloads: a page counts if all its hits are of what is
\* accepted now.
FaultyValid(chunks) ==
  {p \in Page : \E h \in chunks : h.page = p /\ h.row = pages[p]}
Valid(chunks) ==
  {p \in Page : \A h \in chunks : h.page = p => h.row = pages[p]}

\* rrf_merge and whitelist_filter, without ranks: fewer pages than top_k.
Fused(texts, chunks, scope) ==
  {p \in texts \cup {h.page : h \in chunks} : InScope(p, scope)}

-----------------------------------------------------------------------------
(* QueryEngine::search.                                                    *)

\* The generation is read before anything else.
FaultyKeyOf(c) == <<search[c].of.query, latest>>
KeyOf(c) == <<search[c].of.query, search[c].of.gen>>

ReadKey(c, q) ==
  /\ search[c].phase = "ready"
  /\ To(c, [phase |-> "keyed",
            of |-> [query |-> q, gen |-> latest, asof |-> writes]])
  /\ UNCHANGED <<qvars, facts, points, index, cache, writes, load>>

\* A hit is answered as it was cached.
Hit(c) ==
  /\ search[c].phase = "keyed"
  /\ KeyOf(c) \in DOMAIN cache
  /\ To(c, Ready)
  /\ UNCHANGED <<qvars, facts, points, index, cache, writes, load>>

Scoped(c, filters, scope) ==
  To(c, [phase |-> "scoped", of |-> search[c].of, filters |-> filters,
         scope |-> scope])

\* A miss: the query is rewritten, then the candidates of its filters.  None
\* and a relaxer that has something to relax: once more.
Miss(c) ==
  LET f == Planned(search[c].of.query).filters
      relaxed == RelaxOnce(f)
  IN  /\ search[c].phase = "keyed"
      /\ KeyOf(c) \notin DOMAIN cache
      /\ IF f = <<>> THEN Scoped(c, f, Everything)
         ELSE IF Candidates(facts, f) # {} \/ relaxed = Nil
         THEN Scoped(c, f, Candidates(facts, f))
         ELSE IF relaxed = <<>> THEN Scoped(c, relaxed, Everything)
         ELSE To(c, [search[c] EXCEPT !.phase = "relaxed"])
      /\ UNCHANGED <<qvars, facts, points, index, cache, writes, load>>

Retry(c) ==
  LET f == Planned(search[c].of.query).filters
      relaxed == RelaxOnce(f)
  IN  /\ search[c].phase = "relaxed"
      /\ IF Candidates(facts, relaxed) = {} THEN Scoped(c, f, {})
         ELSE Scoped(c, relaxed, Candidates(facts, relaxed))
      /\ UNCHANGED <<qvars, facts, points, index, cache, writes, load>>

AnswerIs(c, texts, chunks, hits) ==
  To(c, [phase |-> "fused", of |-> search[c].of, texts |-> texts,
         chunks |-> chunks, hits |-> hits])

\* The full text search; an empty scope is answered without one.
FullText(c) ==
  LET s == search[c]
      texts == TextHits(Planned(s.of.query).terms, s.filters, s.scope)
  IN  /\ s.phase = "scoped"
      /\ IF s.scope = {} THEN AnswerIs(c, {}, {}, {})
         ELSE To(c, [phase |-> "text", of |-> s.of, scope |-> s.scope,
                     texts |-> texts])
      /\ UNCHANGED <<qvars, facts, points, index, cache, writes, load>>

\* The vector store's answer, restricted to the candidates.
Vectors(c) ==
  LET s == search[c]
      near == {h \in points : InScope(h.page, s.scope)}
  IN  /\ s.phase = "text"
      /\ To(c, [phase |-> "vectors", of |-> s.of, scope |-> s.scope,
                texts |-> s.texts, chunks |-> near])
      /\ UNCHANGED <<qvars, facts, points, index, cache, writes, load>>

\* filter_stale_vector_hits, and the fusion.
Fuse(c) ==
  LET s == search[c]
      kept == {h \in s.chunks : h.page \in Valid(s.chunks)}
  IN  /\ s.phase = "vectors"
      /\ AnswerIs(c, s.texts, kept, Fused(s.texts, kept, s.scope))
      /\ UNCHANGED <<qvars, facts, points, index, cache, writes, load>>

\* The log row (a write that can wait for the lock), then the cache.
Remember(c) ==
  LET s == search[c]
      answer == [texts |-> s.texts, chunks |-> s.chunks, hits |-> s.hits,
                 asof |-> s.of.asof]
  IN  /\ s.phase = "fused"
      /\ cache' = [k \in DOMAIN cache \cup {KeyOf(c)} |->
                     IF k = KeyOf(c) THEN answer ELSE cache[k]]
      /\ To(c, Ready)
      /\ UNCHANGED <<qvars, facts, points, index, writes, load>>

\* moka drops an entry for the others.
Evict(k) ==
  /\ k \in DOMAIN cache
  /\ cache' = [j \in DOMAIN cache \ {k} |-> cache[j]]
  /\ UNCHANGED <<qvars, facts, points, index, search, writes, load>>

-----------------------------------------------------------------------------
(* What changes under the searches.                                        *)

\* upsert_facts and delete_facts, and admissions of facts-only revisions: no
\* generation, no word to the cache.
WriteFacts(s, row) ==
  /\ writes < load.writes
  /\ row # facts[s]
  /\ facts' = [facts EXCEPT ![s] = row]
  /\ writes' = writes + 1
  /\ UNCHANGED <<qvars, points, index, cache, search, load>>

\* `wiktor vector build` reads the accepted pages, embeds them, and upserts
\* points whose ids hold the generation: older points stay.
IndexReads ==
  /\ index = None
  /\ Accepted(pages) # {}
  /\ index' = pages
  /\ UNCHANGED <<qvars, facts, points, cache, search, writes, load>>

IndexUpserts ==
  /\ index # None
  /\ points' = points \cup {[page |-> p, row |-> index[p]] : p \in Accepted(index)}
  /\ index' = None
  /\ UNCHANGED <<qvars, facts, cache, search, writes, load>>

\* The server is restarted: it loads the graph anew, with an empty cache.
Restart(k) ==
  /\ Reload(Server, k)
  /\ cache' = <<>>
  /\ search' = [c \in Client |-> Ready]
  /\ UNCHANGED <<facts, points, index, writes, load>>

\* Pages and builds change; bounded by the load.
Change ==
  /\ \/ \E p \in Page, c \in Content : PublishPage(p, c)
     \/ \E b \in Builder, k \in load.packs, f \in load.force : Assemble(b, k, f)
     \/ \E b \in Builder : AskHash(b) \/ AskIdentity(b) \/ PublishBuild(b)
                             \/ Abandon(b)
  /\ latest' <= load.publications
  /\ Len(builds') <= load.builds
  /\ Cardinality({b \in Builder : builder'[b].phase # "idle"}) <= load.builders
  /\ UNCHANGED retrieval

-----------------------------------------------------------------------------
ServingInit ==
  /\ QugInit
  /\ facts = [s \in Sku |-> NoFacts]
  /\ points = {} /\ index = None
  /\ cache = <<>>
  /\ search = [c \in Client |-> Ready]
  /\ writes = 0
  /\ load \in Load
  /\ engine[Server].pack \in load.packs

ServingNext ==
  \/ \E c \in Client, q \in load.queries : ReadKey(c, q)
  \/ \E c \in Client : Hit(c) \/ Miss(c) \/ Retry(c) \/ FullText(c)
                         \/ Vectors(c) \/ Fuse(c) \/ Remember(c)
  \/ \E k \in DOMAIN cache : Evict(k)
  \/ \E s \in Sku, row \in FactRow : WriteFacts(s, row)
  \/ load.queries # {} /\ (IndexReads \/ IndexUpserts)
  \/ \E k \in load.packs : Restart(k)
  \/ Change

ServingSpec == ServingInit /\ [][ServingNext]_svars

-----------------------------------------------------------------------------
(* Properties.                                                             *)

\* The text hits that a search of this moment would end up with.
Found(q) ==
  LET p == Planned(q)
      r == Resolved(facts, p.filters)
  IN  TextHits(p.terms, r.filters, r.scope)

\* The text hits that the cache holds under the newest generation are those a
\* search would find now: publications make the cache forget, also publications
\* in the middle of a search.  Facts do not.  So an answer that they scope, by
\* the request's filters or by conditions its words call for, is only promised
\* to be current while no facts have been written since its search began.
CacheIsCurrent ==
  \A k \in DOMAIN cache :
    k[2] = latest /\ (Planned(k[1]).filters = <<>> \/ cache[k].asof = writes) =>
      cache[k].texts = Found(k[1])

\* Every chunk that a cached answer rests on was of the page's newest content
\* when it was cached or the page has been published since, under a newer
\* generation; so under the newest generation it still is.
CachedChunksAreCurrent ==
  \A k \in DOMAIN cache :
    k[2] = latest => \A h \in cache[k].chunks : h.row = pages[h.page]
=============================================================================
