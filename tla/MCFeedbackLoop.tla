---------------------------- MODULE MCFeedbackLoop ----------------------------
(* Two clients whose batches overlap, two domains, an analyze command.      *)
EXTENDS FeedbackLoop

CONSTANTS d1, d2, q1, k1, k2, p1, e1

Event(key, log, kind, page, rating) ==
  [key |-> key, log |-> log, kind |-> kind, page |-> page, rating |-> rating,
   meta |-> "none"]
Post(d, seq) == [domain |-> d, tenant |-> d, events |-> seq]

MCLogShape ==
  {[domain |-> d1, query |-> q1, empty |-> TRUE, filtered |-> FALSE,
    relaxed |-> FALSE, failed |-> TRUE],
   [domain |-> d2, query |-> q1, empty |-> TRUE, filtered |-> TRUE,
    relaxed |-> FALSE, failed |-> TRUE]}

\* A batch of two new events, and one whose first key is a replay of the second
\* of these and whose second event is about a log that may be of another
\* domain or not there yet.
MCBatch ==
  {Post(d1, <<Event(k1, 1, "adopt", p1, Null), Event(k2, 1, "rate", p1, 2)>>),
   Post(d1, <<Event(k2, 1, "click", p1, Null), Event(k1, 2, "click", p1, Null)>>)}

MCCommand ==
  {[domain |-> d1, from |-> 0, to |-> 1, enrich |-> TRUE]}
MCAcceptedPage == {<<d1, p1>>}
MCTitled == [q \in {q1} |-> e1]
ClientSymmetry == Permutations(Client)
=============================================================================
