------------------------- MODULE MCRetrievalPipeline -------------------------
(***************************************************************************)
(* RetrievalPipeline for TLC: r1 and r2 are the same query in two modes, so   *)
(* they have the same key; r3 is another query.                             *)
(***************************************************************************)
EXTENDS RetrievalPipeline, TLC

CONSTANTS r1, r2, r3, k1, k2

MCKey == (r1 :> k1) @@ (r2 :> k1) @@ (r3 :> k2)
Symmetry == Permutations(Thread)
=============================================================================
