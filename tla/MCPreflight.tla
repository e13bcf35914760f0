----------------------------- MODULE MCPreflight -----------------------------
(***************************************************************************)
(* The constants of Preflight for its runs.                                *)
(***************************************************************************)
EXTENDS Preflight, TLC

CONSTANTS e1, b1, f1, p1, m1, m2, r1, old, new, eye

OneOffer == {[entity |-> e1, rev |-> 1, body |-> b1, facts |-> f1]}
AllBodies == {b1}
NoOffers == {}

Build(schema, prompt, artifact) ==
  [pack |-> p1, build |-> [schema |-> schema, prompt |-> prompt,
                           artifact |-> artifact]]
OldBuild == Build(m1, m1, m1)
NewBuild == Build(m1, m1, m2)
NextBuild == Build(m2, m1, m2)
Builds == {OldBuild, NewBuild, NextBuild}

Accepts(schemas, artifacts) ==
  [pack |-> {p1}, schema |-> schemas, prompt |-> {m1}, artifact |-> artifacts]

\* The old build has no matrix, the new one does not accept what the old one
\* makes, and the next one accepts its pages and not its tasks.
MCMatrix ==
  [c \in Builds |->
     IF c = OldBuild THEN Null
     ELSE IF c = NewBuild THEN Accepts({m1}, {m2})
     ELSE Accepts({m2}, {m1, m2})]

\* A run of each of the first two builds, and an operator who inspects the
\* database with the next one.
MCRunner == {old, new, eye}
MCBuilt == [r \in MCRunner |-> IF r = old THEN OldBuild
                               ELSE IF r = eye THEN NextBuild ELSE NewBuild]
MCInspector == {eye}

RetryPolicy ==
  {[max_retries |-> 2, max_recompiles |-> 1, task_budget |-> 4,
    batch_budget |-> 9, daily_budget |-> Null, cost |-> 1]}
OneRun == {r1}
AnyAnswer == {Null, 0, 9}
=============================================================================
