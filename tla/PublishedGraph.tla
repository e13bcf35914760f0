---------------------------- MODULE PublishedGraph ----------------------------
(***************************************************************************)
(* What the QUG store promises, without builds, snapshots and builders: for *)
(* every version of the domain pack there is at most one published graph,   *)
(* and it only ever changes, at once and whole, to the graph of the pages   *)
(* accepted at that moment.                                                 *)
(***************************************************************************)
CONSTANTS Version,       \* versions of the domain pack
          Setting,       \* what a pack's qug section and intents can be
          PageSet,       \* what the accepted pages can be
          Graph(_, _),   \* the edges of accepted pages under a setting
          None

VARIABLES accepted, published

Init == /\ accepted \in PageSet
        /\ published = [v \in Version |-> None]

Accept == /\ accepted' \in PageSet
          /\ UNCHANGED published

Publish(v, s) ==
  /\ published' = [published EXCEPT ![v] = Graph(accepted, s)]
  /\ UNCHANGED accepted

Next == Accept \/ \E v \in Version, s \in Setting : Publish(v, s)

Spec == Init /\ [][Next]_<<accepted, published>>
=============================================================================
