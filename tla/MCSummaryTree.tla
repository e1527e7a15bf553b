--------------------------- MODULE MCSummaryTree ---------------------------
(***************************************************************************)
(* SummaryTree for TLC, with the clusters module Clustering makes of three    *)
(* leaves: l1 and l2 are of one social thread, and l3 is similar to their     *)
(* joint text but to neither alone, so it joins them only if it is listed    *)
(* with both and is otherwise a cluster of its own.  So a leaf that arrives  *)
(* later can change the cluster of the earlier ones.                         *)
(***************************************************************************)
EXTENDS SummaryTree, TLC

CONSTANTS l1, l2, l3

MCAbout ==
  [l \in {l1, l2, l3} |->
     CASE l = l1 -> [time |-> 0, words |-> {"a", "b"}, topics |-> {"x"}, entities |-> {"Sasha"},
                     importance |-> 90, social |-> TRUE, revises |-> FALSE]
       [] l = l2 -> [time |-> 50, words |-> {"c", "d"}, topics |-> {"y"}, entities |-> {"Sasha"},
                     importance |-> 50, social |-> TRUE, revises |-> FALSE]
       [] l = l3 -> [time |-> 52, words |-> {"a", "c", "e", "f", "g"}, topics |-> {"z"},
                     entities |-> {"Leah"}, importance |-> 50, social |-> FALSE,
                     revises |-> TRUE]]

Clustered == INSTANCE Clustering WITH About <- MCAbout, Window <- 6, SimilarityMin <- 18

MCClusters == [S \in SUBSET Leaf |-> Clustered!ClustersOf(S)]
MCSalient == {l \in Leaf : Clustered!Deserves(l)}

Symmetry == Permutations(Summary) \cup Permutations(Builder)
=============================================================================
