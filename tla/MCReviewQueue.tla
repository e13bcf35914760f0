---------------------------- MODULE MCReviewQueue ----------------------------
(***************************************************************************)
(* The constants of ReviewQueue for its run.                               *)
(***************************************************************************)
EXTENDS ReviewQueue, TLC

CONSTANTS e1, b1, f1, f2, p1, m1, sample, notice, r1

Offer(n, b, f) == [entity |-> e1, rev |-> n, body |-> b, facts |-> f]
\* A revision and a facts-only successor, which has the same content hash.
Revisions == {Offer(1, b1, f1), Offer(2, b1, f2)}
OneBuild == {[pack |-> p1, build |-> m1]}

\* One failure is a death, one bad page a quarantine.
Brittle == [max_retries |-> 1, max_recompiles |-> 0, task_budget |-> 2,
            batch_budget |-> 2, daily_budget |-> Null, cost |-> 1]
OnePolicy == {Brittle}
OneRun == {r1}

\* The query that revision 2 answers was noticed and enriched.
Proposed == {[source |-> Offer(2, b1, f2),
              config |-> [pack |-> p1, build |-> m1], policy |-> Brittle]}
Samples == {sample}
Notices == {notice}
Nothing == {}
NoAnswer == {Null}
=============================================================================
