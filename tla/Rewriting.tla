------------------------------ MODULE Rewriting ------------------------------
(***************************************************************************)
(* QugGraph::rewrite (query_engine/qug.rs) and the resolution of a query's  *)
(* filters that follows it (QueryEngine::search): the longest phrase at     *)
(* every start of the text, its edges' terms and conditions, the merge of   *)
(* the conditions of one field, and one relaxation.                         *)
(*                                                                         *)
(* A graph is the sequence of its edges in insertion order.  An edge is     *)
(* [phrase, to, terms, conditions, intent]: its own phrase, the phrases it  *)
(* adds as nodes, what it adds to the terms and to the filters.  A phrase   *)
(* and a text are sequences, already normalized.                            *)
(***************************************************************************)
EXTENDS FactFilters

CONSTANTS MaxMatches, MaxTerms    \* MAX_MATCHES, MAX_EXPANDED_TERMS

ASSUME RewritingAssumption == MaxMatches \in Nat /\ MaxTerms \in Nat \ {0}

-----------------------------------------------------------------------------
(* What a loop over a list leaves behind: FoldLeft, as a function of how    *)
(* many members have been visited.                                         *)

Loop(Op(_, _), base, list) ==
  LET after[n \in 0..Len(list)] ==
        IF n = 0 THEN base ELSE Op(after[n - 1], list[n])
  IN  after[Len(list)]

PushUnique(list, x) == IF x \in ToSet(list) THEN list ELSE Append(list, x)

\* The members of a list that are in S.
PushIf(S, list, x) == IF x \in S THEN Append(list, x) ELSE list
Kept(list, S) == Loop(LAMBDA kept, x : PushIf(S, kept, x), <<>>, list)

-----------------------------------------------------------------------------
(* The merge: push_merged.                                                 *)

SameField(filters, kind, f) ==
  {c \in ToSet(filters) : c.kind = kind /\ c.field = f}

\* max_opt and min_opt over the bounds of ranges.
Tightest(ranges) ==
  LET mins == {c.min : c \in ranges} \ {Nil}
      maxs == {c.max : c \in ranges} \ {Nil}
  IN  [min |-> IF mins = {} THEN Nil ELSE Max(mins),
       max |-> IF maxs = {} THEN Nil ELSE Min(maxs)]

\* Contradictory ranges stay side by side, so that nothing satisfies them.
PushRange(filters, c) ==
  LET same == SameField(filters, "range", c.field)
      t == Tightest(same \cup {c})
  IN  IF same = {} \/ (t.min # Nil /\ t.max # Nil /\ t.min > t.max)
      THEN Append(filters, c)
      ELSE Append(Kept(filters, ToSet(filters) \ same),
                  Between(c.field, t.min, t.max))

Allowed(contains) ==
  {r \in UNION {c.refs : c \in contains} : \A c \in contains : r \in c.refs}
Refused(excludes) == UNION {c.refs : c \in excludes}

PushContains(filters, c) ==
  Append(filters,
         AnyOf(c.field,
               Allowed(SameField(filters, "contains", c.field) \cup {c})
                 \ Refused(SameField(filters, "excludes", c.field))))

FaultyPushExcludes(filters, c) ==
  LET contains == SameField(filters, "contains", c.field)
      excludes == SameField(filters, "excludes", c.field)
      kept == Kept(filters, ToSet(filters) \ (contains \cup excludes))
  IN  IF contains \cup excludes = {} THEN Append(filters, c)
      ELSE Append(kept, NoneOf(c.field, Refused(excludes \cup {c})))
PushExcludes(filters, c) ==
  LET contains == SameField(filters, "contains", c.field)
      excludes == SameField(filters, "excludes", c.field)
      kept == Kept(filters, ToSet(filters) \ (contains \cup excludes))
      refused == Refused(excludes \cup {c})
  IN  IF contains \cup excludes = {} THEN Append(filters, c)
      ELSE (IF contains = {} THEN kept
            ELSE Append(kept, AnyOf(c.field, Allowed(contains) \ refused)))
             \o <<NoneOf(c.field, refused)>>

PushMerged(filters, c) ==
  IF c \in ToSet(filters) THEN filters
  ELSE CASE c.kind = "range" -> PushRange(filters, c)
         [] c.kind = "text" -> Append(filters, c)
         [] c.kind = "contains" -> PushContains(filters, c)
         [] c.kind = "excludes" -> PushExcludes(filters, c)

Merged(conditions) == Loop(PushMerged, <<>>, conditions)

-----------------------------------------------------------------------------
(* The matches.                                                            *)

\* The nodes of a graph in the order node_for makes them.
Nodes(graph) ==
  Loop(PushUnique, <<>>,
           FlattenSeq([i \in DOMAIN graph |-> <<graph[i].phrase>> \o graph[i].to]))

OccursAt(phrase, text, start) ==
  /\ start + Len(phrase) - 1 <= Len(text)
  /\ SubSeq(text, start, start + Len(phrase) - 1) = phrase

\* The nodes that are the longest one at some start.
Longest(nodes, text) ==
  {n \in DOMAIN nodes :
     \E s \in DOMAIN text :
        /\ OccursAt(nodes[n], text, s)
        /\ \A m \in DOMAIN nodes :
             OccursAt(nodes[m], text, s) => Len(nodes[m]) <= Len(nodes[n])}

UpTo(list, n) == SubSeq(list, 1, Min({n, Len(list)}))

\* Longer ones first, then older ones.
Before(nodes, found, n) ==
  {m \in found : \/ Len(nodes[m]) > Len(nodes[n])
                 \/ Len(nodes[m]) = Len(nodes[n]) /\ m < n}
Ranked(nodes, text) ==
  LET found == Longest(nodes, text)
  IN  [k \in 1..Min({MaxMatches, Cardinality(found)}) |->
         CHOOSE n \in found : Cardinality(Before(nodes, found, n)) = k - 1]

\* petgraph lists a node's edges youngest first.
Outgoing(graph, phrase) ==
  Reverse(Kept(graph, {e \in ToSet(graph) : e.phrase = phrase}))

AppliedEdges(graph, text) ==
  LET nodes == Nodes(graph)
      ranked == Ranked(nodes, text)
  IN  FlattenSeq([k \in DOMAIN ranked |-> Outgoing(graph, nodes[ranked[k]])])

\* What QugGraph::rewrite makes of a query.
Terms(edges, text) ==
  UpTo(Loop(PushUnique, <<text>>,
            FlattenSeq([i \in DOMAIN edges |-> edges[i].terms])),
       MaxTerms)
Conditions(edges, filters) ==
  filters \o FlattenSeq([i \in DOMAIN edges |-> edges[i].conditions])
Rewritten(graph, q) ==
  LET edges == AppliedEdges(graph, q.text)
  IN  [terms |-> Terms(edges, q.text),
       filters |-> Merged(Conditions(edges, q.filters))]

\* It answers None when there is nothing to do, or nothing changes.
Changes(graph, q) ==
  LET edges == AppliedEdges(graph, q.text)
  IN  /\ q.text # <<>>
      /\ Longest(Nodes(graph), q.text) # {}
      /\ \/ Rewritten(graph, q).terms # <<q.text>>
         \/ Rewritten(graph, q).filters # q.filters
         \/ \E i \in DOMAIN edges : edges[i].intent

\* What the engine searches with.
Plan(graph, q) ==
  IF Changes(graph, q) THEN Rewritten(graph, q)
  ELSE [terms |-> <<q.text>>, filters |-> q.filters]

-----------------------------------------------------------------------------
(* The scope: the entities whose pages are searched, or Everything.        *)

CONSTANT Everything

\* One relaxation, when the filters leave nothing.  It is kept if it helps.
Resolved(db, filters) ==
  LET relaxed == RelaxOnce(filters)
      retry == IF relaxed = <<>> THEN Everything ELSE Candidates(db, relaxed)
  IN  IF filters = <<>> THEN [filters |-> filters, scope |-> Everything]
      ELSE IF Candidates(db, filters) # {} \/ relaxed = Nil \/ retry = {}
      THEN [filters |-> filters, scope |-> Candidates(db, filters)]
      ELSE [filters |-> relaxed, scope |-> retry]
=============================================================================
