-------------------------- MODULE MCCompileWorkers --------------------------
(***************************************************************************)
(* The constants of CompileWorkers for its runs.                           *)
(***************************************************************************)
EXTENDS CompileWorkers

CONSTANTS e1, e2, b1, b2, f1, p1, u1, u2, w1, c1, pass

Drink(e, n, b) == [entity |-> e, rev |-> n, body |-> b, facts |-> f1]
Build(u) == [pack |-> p1, rules |-> u]
Limits(retries, recompiles, day_limit) ==
  [max_retries |-> retries, max_recompiles |-> recompiles,
   task_budget |-> 9, batch_budget |-> 9, daily_budget |-> day_limit,
   cost |-> 1]

OneDrink == {Drink(e1, 1, b1)}
TwoRevisions == OneDrink \cup {Drink(e1, 2, b1)}

\* A run finds two revisions of a drink and another that is too large; the
\* drink and a rival snapshot of it are posted.
Large == {Drink(e2, 1, b2)}
Posts == OneDrink \cup {Drink(e1, 1, b2)}
Assorted == TwoRevisions \cup Large \cup Posts
OneOffer == {TwoRevisions \cup Large}
EveryOffer == {Source}

BothBuilds == {Build(u1), Build(u2)}
OneBuild == {Build(u1)}

TwoRetries == {Limits(2, 0, Null)}
OneRetry == {Limits(1, 0, Null)}
Alike == [p \in Process |-> [config |-> Build(u1), force |-> FALSE,
                            policy |-> CHOOSE l \in Policy : TRUE]]
\* The worker was started with another policy or schema than the run.
Mixed == [Alike EXCEPT ![w1].config = Build(u2)]

Servers == {w1}
Runs == {c1}
RunIds == {c1, pass}
NoBody == {}
BigBody == {b2}
NoDrink == {}
Backoffs == {Null}
Answers == {Null, 2}
=============================================================================
