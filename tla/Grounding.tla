------------------------------ MODULE Grounding ------------------------------
(***************************************************************************)
(* From sources to searches: the pages that Judgement accepts give the      *)
(* graph their aliases and tags, a server loads it, and Rewriting turns a   *)
(* query and the graph that was loaded into terms and filters, while pages  *)
(* are published again.                                                     *)
(***************************************************************************)
EXTENDS Judgement, Rewriting

CONSTANTS
  Domain,     \* configurations of a domain, with the bounds of a behaviour:
              \* [intents, questions, judging, loading]: a sequence of
              \* edges, queries [text, filters], whether pages are compiled
              \* and whether graphs are loaded
  Row,        \* rows that the facts plane may have
  Stored      \* its contents in this instance: sets of at most one row

\* Ranges are of fields that rows have a number in, or nothing.
IsCondition(c) ==
  /\ WellFormed(c)
  /\ c.kind = "range" =>
       \A row \in Row : row.num[c.field] \in Int \cup {Nil}
AreConditions(list) ==
  IsList(list) /\ \A c \in ToSet(list) : IsCondition(c)

ASSUME GroundingAssumption ==
  /\ IsFiniteSet(Entity)
  /\ \A e \in Entity : \A n \in 1..MaxRevision :
       /\ \A p \in DOMAIN Source(e, n).fields : IsList(Source(e, n).fields[p])
       /\ \A answer \in Answer(Source(e, n)) :
            IsFiniteSet(answer.aliases) /\ IsFiniteSet(answer.tags)
  /\ \A d \in Domain :
       /\ IsList(d.intents)
       /\ \A i \in DOMAIN d.intents :
            /\ IsList(d.intents[i].to) /\ IsList(d.intents[i].terms)
            /\ \A p \in {d.intents[i].phrase} \cup ToSet(d.intents[i].to) :
                 IsList(p)
            /\ AreConditions(d.intents[i].conditions)
       /\ \A q \in d.questions : IsList(q.text) /\ AreConditions(q.filters)

VARIABLES
  domain,     \* the configuration
  loaded,     \* the pages the server's graph is of, or None: no graph
  asked,      \* the query being resolved, or None
  plan        \* what it has become: [graph, terms, filters, relaxed, scope]

gvars == <<jvars, domain, loaded, asked, plan>>

Edge(phrase, to, terms) ==
  [phrase |-> phrase, to |-> to, terms |-> terms, conditions |-> <<>>,
   intent |-> FALSE]

\* extract_page_edges: an alias is a synonym of the title, which is a hyponym
\* of every tag.
PageEdges(answer) ==
  {Edge(a, <<answer.title>>, <<answer.title>>) :
     a \in answer.aliases \ {answer.title}}
    \cup {Edge(answer.title, <<t>>, <<answer.title, t>>) : t \in answer.tags}

Graph == SetToSeq(UNION {PageEdges(loaded[e].answer) :
                           e \in {x \in Entity : loaded[x] # None}})
           \o domain.intents

\* load_active_qug at a start or a reload: the graph of a build that is of the
\* pages of this moment, or none.
Load(pages) ==
  /\ asked = None
  /\ loaded' = pages
  /\ UNCHANGED <<jvars, domain, asked, plan>>

\* Without a graph a query is searched as it is.
Ask(q, rows) ==
  LET graph == IF loaded = None THEN <<>> ELSE Graph
      p == Plan(graph, q)
      r == Resolved(SetToSeq(rows), p.filters)
  IN  /\ asked = None
      /\ asked' = q
      /\ plan' = [graph |-> graph, terms |-> p.terms, filters |-> p.filters,
                  relaxed |-> r.filters, scope |-> r.scope]
      /\ UNCHANGED <<jvars, domain, loaded>>

Answered ==
  /\ asked # None
  /\ asked' = None /\ plan' = None
  /\ UNCHANGED <<jvars, domain, loaded>>

\* A bound: where graphs are loaded, only pages that add edges are compiled.
Linked ==
  /\ failure' = failure
  /\ \A e \in Entity : published'[e] # published[e] =>
                          PageEdges(published'[e].answer) # {}

GroundingInit ==
  /\ JudgementInit
  /\ domain \in Domain
  /\ loaded = None /\ asked = None /\ plan = None

GroundingNext ==
  \/ /\ domain.judging /\ asked = None
     /\ JudgementNext
     /\ domain.loading => Linked
     /\ UNCHANGED <<domain, loaded, asked, plan>>
  \/ domain.loading /\ (Load(published) \/ Load(None))
  \/ \E q \in domain.questions : \E rows \in Stored : Ask(q, rows)
  \/ Answered

GroundingSpec == GroundingInit /\ [][GroundingNext]_gvars

-----------------------------------------------------------------------------
(* Properties.                                                             *)

\* The edges that a text calls for, without ranking them.
Called ==
  {e \in ToSet(plan.graph) :
     \E s \in DOMAIN asked.text :
        /\ OccursAt(e.phrase, asked.text, s)
        /\ \A d \in ToSet(plan.graph) : \A longer \in {d.phrase} \cup ToSet(d.to) :
             OccursAt(longer, asked.text, s) => Len(longer) <= Len(e.phrase)}

\* The conditions of a query, and of the edges its text calls for.
Asked == ToSet(asked.filters) \cup UNION {ToSet(e.conditions) : e \in Called}

\* The lists of references a row must have one of have one of its own in
\* common, field by field.  A row with one reference has, if it passes.
HaveCommonRef(row, conditions) ==
  LET Lists(f) == {c.refs : c \in {d \in conditions :
                                     d.kind = "contains" /\ d.field = f}}
  IN  \A c \in conditions : c.kind = "contains" =>
        \E r \in row.refs[c.field] : \A refs \in Lists(c.field) : r \in refs

\* What merging conditions may not change (push_merged).  A row that passes
\* the filters of the plan passes every condition of the query and of the
\* edges its text calls for, one by one; and a row that passes them all is
\* not lost, unless it meets two lists of references by different ones, for
\* push_merged makes one list of what they have in common.
MergeIsExact ==
  asked # None
    /\ Cardinality(Longest(Nodes(plan.graph), asked.text)) <= MaxMatches =>
      \A row \in Row :
        LET all == \A c \in Asked : Satisfies(row, <<c>>)
        IN  /\ Satisfies(row, plan.filters) => all
            /\ all /\ HaveCommonRef(row, Asked) => Satisfies(row, plan.filters)

\* Relaxing never loses a row, and never drops what a relaxer may not touch.
RelaxationOnlyWidens ==
  asked # None =>
    /\ \A row \in Row :
         Satisfies(row, plan.filters) => Satisfies(row, plan.relaxed)
    /\ \A c \in ToSet(plan.filters) : c.kind # "range" => c \in ToSet(plan.relaxed)

\* A search never looks for words that are neither asked for, nor configured,
\* nor in a source whose page was accepted when the server's graph was loaded,
\* which need not be accepted any more.
TermsAreQuoted ==
  asked # None =>
    \A t \in ToSet(plan.terms) \ {asked.text} :
       /\ loaded # None
       /\ \/ \E i \in DOMAIN domain.intents : t \in ToSet(domain.intents[i].terms)
          \/ \E e \in {x \in Entity : loaded[x] # None} :
             \E p \in DOMAIN loaded[e].source.fields :
                t \in SubSeqs(loaded[e].source.fields[p])

\* step6-feedback-loop.en.md, STEP6-010: "an unconstrained range removes the
\* whole condition", and a list that becomes empty leaves nothing restricted.
UnboundIsUnrestricted ==
  asked # None /\ RelaxOnce(plan.filters) # Nil
    /\ Clauses(RelaxOnce(plan.filters)) = {}
      => plan.scope # {}
=============================================================================
