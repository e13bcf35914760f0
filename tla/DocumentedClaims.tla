-------------------------- MODULE DocumentedClaims --------------------------
(***************************************************************************)
(* What docs/design says of the compile tables and the code does not do.    *)
(***************************************************************************)
EXTENDS CompileStore

\* step4-compile-pipeline.en.md, A18: "Revision 2 blocks revision 1
\* facts/refs/page".  publish_in_transaction compares desired_hash with the
\* head and not the revision, and a facts-only revision has the same hash.
PageRevisionsNeverRegress ==
  [][\A e \in DOMAIN page : page'[e].rev >= page[e].rev]_vars
=============================================================================
