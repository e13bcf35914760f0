----------------------------- MODULE FactFilters -----------------------------
(***************************************************************************)
(* Filters over the facts plane: filter_where and filter_page_candidates,   *)
(* which turn a list of conditions into the entities whose pages may be     *)
(* searched, and DefaultFilterRelaxer, which widens an empty scope once.    *)
(*                                                                         *)
(* db maps every SKU to [category, num, text, refs]: the entity its page    *)
(* is about, and field -> number, text and set of references.               *)
(***************************************************************************)
EXTENDS Integers, SequencesExt

CONSTANT Nil      \* a bound, a field or a category that is absent

ASSUME NilAssumption == Nil \notin Int

Between(f, min, max) == [kind |-> "range", field |-> f, min |-> min, max |-> max]
TextIs(f, v) == [kind |-> "text", field |-> f, value |-> v]
AnyOf(f, refs) == [kind |-> "contains", field |-> f, refs |-> refs]
NoneOf(f, refs) == [kind |-> "excludes", field |-> f, refs |-> refs]

\* FilterCondition, an enum of these four.
WellFormed(c) ==
  \/ /\ c.kind = "range" /\ c = Between(c.field, c.min, c.max)
     /\ c.min \in Int \cup {Nil} /\ c.max \in Int \cup {Nil}
  \/ c.kind = "text" /\ c = TextIs(c.field, c.value)
  \/ c.kind = "contains" /\ c = AnyOf(c.field, c.refs)
  \/ c.kind = "excludes" /\ c = NoneOf(c.field, c.refs)

\* Conditions that filter_where makes no clause of.
Binds(c) ==
  /\ c.kind = "range" => c.min # Nil \/ c.max # Nil
  /\ c.kind = "excludes" => c.refs # {}

\* One EXISTS clause.  "Contains" is any of the refs; no refs is FALSE.
Holds(row, c) ==
  CASE c.kind = "range" ->
         /\ row.num[c.field] # Nil
         /\ c.min # Nil => row.num[c.field] >= c.min
         /\ c.max # Nil => row.num[c.field] <= c.max
    [] c.kind = "text" -> row.text[c.field] = c.value
    [] c.kind = "contains" -> row.refs[c.field] \cap c.refs # {}
    [] c.kind = "excludes" -> row.refs[c.field] \cap c.refs = {}

\* Where filter_where has a clause.
Clauses(filters) == {i \in DOMAIN filters : Binds(filters[i])}

Satisfies(row, filters) ==
  \A i \in Clauses(filters) : Holds(row, filters[i])

\* filter_page_candidates.  Without a clause the answer is no candidate at
\* all, also for conditions that bind nothing.
Candidates(db, filters) ==
  IF Clauses(filters) = {} THEN {}
  ELSE {db[s].category : s \in {x \in DOMAIN db : Satisfies(db[x], filters)}}
         \ {Nil}

Relaxable(c) == c.kind = "range" /\ (c.min # Nil \/ c.max # Nil)

\* relax_once: of the first range, the maximum goes, or else the condition.
\* Nil if there is no range.
FaultyRelaxOnce(filters) ==
  LET At == {i \in DOMAIN filters : Relaxable(filters[i])}
      i == CHOOSE n \in At : \A m \in At : n <= m
  IN  IF At = {} THEN Nil
      ELSE IF filters[i].max # Nil
      THEN [filters EXCEPT ![i].min = filters[i].max, ![i].max = Nil]
      ELSE RemoveAt(filters, i)
RelaxOnce(filters) ==
  LET At == {i \in DOMAIN filters : Relaxable(filters[i])}
      i == CHOOSE n \in At : \A m \in At : n <= m
  IN  IF At = {} THEN Nil
      ELSE IF filters[i].max # Nil THEN [filters EXCEPT ![i].max = Nil]
      ELSE RemoveAt(filters, i)
=============================================================================
