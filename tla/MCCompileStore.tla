--------------------------- MODULE MCCompileStore ---------------------------
(***************************************************************************)
(* The constants of CompileStore for its runs.                             *)
(***************************************************************************)
EXTENDS DocumentedClaims, TLC

CONSTANTS e1, e2, b1, b2, f1, f2, p1, p2, m1, m2, r1, r2

Offer(e, n, b, f) == [entity |-> e, rev |-> n, body |-> b, facts |-> f]
Build(p, m) == [pack |-> p, build |-> m]
Limits(retries, recompiles, tokens, batch, daily) ==
  [max_retries |-> retries, max_recompiles |-> recompiles,
   task_budget |-> tokens, batch_budget |-> batch, daily_budget |-> daily,
   cost |-> 1]

\* A second revision that changes only the facts, and a rival to it.
Revisions == {Offer(e1, 1, b1, f1), Offer(e1, 2, b1, f2), Offer(e1, 2, b2, f2)}
Imported == {Offer(e1, 2, b1, f2)}

\* One revision offered with two contents, and a facts-only successor.
Rivals == {Offer(e1, 1, b1, f1), Offer(e1, 1, b2, f1), Offer(e1, 2, b1, f2)}

\* Two entities that share the run and day budgets.
TwoEntities == {Offer(e1, 1, b1, f1), Offer(e2, 1, b2, f1)}

OneBuild == {Build(p1, m1)}
TwoBuilds == {Build(p1, m1), Build(p1, m2)}
TwoPacks == {Build(p1, m1), Build(p2, m2)}

TightPolicy == {Limits(1, 0, 1, 9, Null)}
BudgetPolicy == {Limits(1, 0, 1, 1, Null), Limits(2, 0, 1, 2, 2),
                 Limits(1, 0, 1, 2, 1)}

OneRun == {r1}
TwoRuns == {r1, r2}
RunSymmetry == Permutations(TwoRuns)
NoBodies == {}
BigBody == {b2}
NoOffers == {}
NoAnswer == {Null}
=============================================================================
