-------------------------- MODULE MCFrontierSweep --------------------------
(***************************************************************************)
(* FrontierSweep for TLC: two optimizer seeds, one given twice; three points, *)
(* of which "x" measures differently from time to time; two slices in use    *)
(* and one without weight; two configurations, of which the second has a     *)
(* tolerance under which the baseline, x and y dominate each other in a      *)
(* circle.                                                                   *)
(***************************************************************************)
EXTENDS FrontierSweep

MCSliceWeight == [canonical |-> 1, unseen |-> 1, perturbed |-> 0]
MCSlice == DOMAIN MCSliceWeight
MCOptimizerSeeds == <<1, 2, 1>>

M(g, h, f) == [canonical |-> [gain |-> g, family |-> f],
               unseen |-> [gain |-> h, family |-> f],
               perturbed |-> [gain |-> 0, family |-> 0]]

MCConfig ==
  {[epsilon |-> 0, family |-> "min", draws |-> <<<<"x", "y", "x">>, <<"y">>>>],
   [epsilon |-> 2, family |-> "max", draws |-> <<<<"y", "x">>, <<"x">>>>]}

MCMeasured ==
  [p \in {"p1", "p2"} |->
     [o \in {"none", "x", "y"} |->
        CASE o = "none" -> {M(2, 2, 1)}
          [] o = "x" -> {M(1, 7, 0), M(2, 2, IF p = "p1" THEN 1 ELSE 0)}
          [] o = "y" -> {M(0, 6, 2)}]]
=============================================================================
