----------------------------- MODULE Clustering -----------------------------
(***************************************************************************)
(* How TreeBuilder (services.py) cuts the leaves it lists into clusters.     *)
(*                                                                          *)
(* A leaf is what _cluster_nodes reads of it: About[n] is a record with       *)
(*   time       its timestamp, in hours                                      *)
(*   words, topics, entities   of its text; the entities without the ones     *)
(*              that say nothing (_meaningful_cluster_entities)              *)
(*   importance (0..100)                                                     *)
(*   social, revises   whether its text has a social or a revision signal     *)
(***************************************************************************)
EXTENDS Integers, SequencesExt

CONSTANTS
  About,         \* by leaf; no two at the same time
  Window,        \* time_window_hours
  SimilarityMin  \* cluster_similarity_threshold, in hundredths, above 0

SocialWindow == IF Window >= 72 THEN Window ELSE 72

Words(cluster) == UNION {About[n].words : n \in Range(cluster)}
Topics(cluster) == UNION {About[n].topics : n \in Range(cluster)}
Entities(cluster) == UNION {About[n].entities : n \in Range(cluster)}
Sociable(cluster) == \E n \in Range(cluster) : About[n].social

(* jaccard_similarity, against the threshold. *)
Resembles(A, B) ==
  A \cap B # {} /\ 100 * Cardinality(A \cap B) >= SimilarityMin * Cardinality(A \cup B)

Within(hours, cluster, n) == About[n].time - About[Last(cluster)].time <= hours
SharesEntity(cluster, n) == About[n].entities \cap Entities(cluster) # {}

(* _can_extend_social_thread_cluster. *)
ExtendsThread(cluster, n) ==
  /\ About[n].social /\ SharesEntity(cluster, n)
  /\ Sociable(cluster) /\ Within(SocialWindow, cluster, n)

(* Another social thread: people on both sides, none of them the same.       *)
OtherThread(cluster, n) ==
  /\ ~SharesEntity(cluster, n)
  /\ About[n].entities # {} /\ Entities(cluster) # {}
  /\ About[n].social /\ Sociable(cluster)

ImportantContext(cluster, n) ==
  /\ About[n].importance >= 60
  /\ \E m \in Range(cluster) \cup {n} : About[m].importance >= 80

Continues(cluster, n) ==
  /\ Within(Window, cluster, n) /\ ~OtherThread(cluster, n)
  /\ \/ Resembles(About[n].words, Words(cluster))
     \/ About[n].topics \cap Topics(cluster) # {}
     \/ SharesEntity(cluster, n) \/ ImportantContext(cluster, n)

(* One turn of the loop: the leaf goes to the latest social thread it extends, *)
(* else to the last cluster if it continues it, else to one of its own.      *)
Place(clusters, n) ==
  LET threads == {i \in DOMAIN clusters : ExtendsThread(clusters[i], n)}
      last == {i \in {Len(clusters)} : i > 0 /\ Continues(clusters[i], n)}
      home == IF threads # {} THEN {Max(threads)} ELSE last
  IN IF home = {} THEN Append(clusters, <<n>>)
     ELSE [i \in DOMAIN clusters |-> IF i \in home THEN Append(clusters[i], n) ELSE clusters[i]]

(* list_nodes orders by timestamp_start. *)
Listed(leaves) == SetToSortSeq(leaves, LAMBDA m, n : About[m].time < About[n].time)

(* _cluster_nodes, as sets of leaves. *)
ClustersOf(leaves) == {Range(c) : c \in Range(FoldLeft(Place, <<>>, Listed(leaves)))}

(* Of the single leaves, those _should_summarize_cluster takes. *)
Deserves(n) == About[n].importance >= 85 \/ About[n].revises
=============================================================================
