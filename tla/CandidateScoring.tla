-------------------------- MODULE CandidateScoring --------------------------
(***************************************************************************)
(* How the retrievers (retrieval/hierarchical.py, FlatRetriever and          *)
(* ContextPacker of services.py) score and compare nodes for a query.        *)
(*                                                                          *)
(* A node is what the scorers read of it: Of[n] is a record with             *)
(*   start     its timestamp_start, by which nodes are listed               *)
(*   tokens, importance, relevance, recency   (the last three 0..100; the     *)
(*             query of an instance is about the same as its nodes)          *)
(*   names     the names in it;  mentions  these and other occurrences       *)
(*   negates   names it says it is not about;  aliases  pairs of names       *)
(*   terms, facets   the terms and the facets of its text                    *)
(*   slots     "ship", "timing", "latest";  launch  its enrichment words     *)
(*   negative, affirmative   whether it denies or affirms a commitment       *)
(* A score is in thirtieths of a hundredth, which keeps means exact.         *)
(***************************************************************************)
EXTENDS QueryRouting, Functions

CONSTANTS
  Leaf, Summary,   \* nodes of level L0 and L1
  Of,              \* their attributes
  ChildIds,        \* child_ids of each summary
  Similar          \* pairs of nodes whose texts overlap by 0.72 or more

Node == Leaf \cup Summary

ASSUME NodesAssumption ==
  /\ IsFiniteSet(Node) /\ Leaf \cap Summary = {}
  /\ \A n \in Node : /\ Of[n].tokens \in Nat \ {0} /\ Of[n].importance \in Nat
                     /\ Of[n].relevance \in Nat /\ Of[n].recency \in Nat
  /\ \A s \in Summary : ChildIds[s] \in Seq(Leaf)

Names(n) == Of[n].names
Tokens(n) == Of[n].tokens
Listed == [n \in Node |-> Of[n].start]   \* where a listing has it
Parents(n) == {s \in Summary : n \in Range(ChildIds[s])}

(* _is_entity_aligned and _has_conflicting_named_entity; E are the names      *)
(* the query is about.                                                       *)
Negated(n, E) == Of[n].negates \cap E # {}
Aligned(n, E) == E = {} \/ (~Negated(n, E) /\ Of[n].mentions \cap E # {})
Conflicting(n, E) == E # {} /\ ~(Names(n) \subseteq E)

(* _entity_alignment_adjustment, in hundredths. *)
Adjustment(n, E) ==
  CASE E = {} -> 0
    [] Negated(n, E) -> -25
    [] E # {} /\ Aligned(n, E) -> 8
    [] E # {} /\ ~Negated(n, E) /\ ~Aligned(n, E) -> IF Names(n) = {} THEN 0 ELSE -8

Mean(n, relevance, recency) ==
  relevance * Of[n].relevance + recency * Of[n].recency + 10 * Of[n].importance
FlatScore(n) == Mean(n, 10, 10)
LeafScore(n, E) == Mean(n, 10, 10) + 30 * Adjustment(n, E)
ChildScore(n, E) == Mean(n, 12, 4) + 30 * Adjustment(n, E)
SummaryScore(n) == Mean(n, 14, 7)

(* sorted(..., key=score, reverse=True) keeps the order of equal scores: the   *)
(* set of sequences of S (there is one) by descending score, then position.  *)
Ranked(S, score, place) ==
  LET before(m, n) == score[m] > score[n] \/ (score[m] = score[n] /\ place[m] < place[n])
      order == [k \in 1..Cardinality(S) |->
                  CHOOSE n \in S : Cardinality({m \in S : before(m, n)}) = k - 1]
  IN {f \in {order} : f \in [1..Cardinality(S) -> S] /\ Range(f) = S /\ IsInjective(f)}

(* _expand_query_entities: the names linked to those of the query by aliases. *)
WithAliases(names, leaves) ==
  LET pairs == UNION {Of[n].aliases : n \in leaves}
      all == names \cup UNION pairs
      step(E) == E \cup UNION {p \in pairs : p \cap E # {}}
      reach[i \in 0..Cardinality(all)] == IF i = 0 THEN names ELSE step(reach[i - 1])
  IN IF names = {} THEN {} ELSE reach[Cardinality(all)]

(* _generic_coverage_keys. *)
Keys(q, n) ==
  (q.terms \cap Of[n].terms) \cup (q.entities \cap Of[n].mentions) \cup Of[n].facets

-----------------------------------------------------------------------------
(* What the leaves, ranked by LeafScore, say about the query *)

LowConfidence(leaves, E) ==
  /\ Len(leaves) >= 2
  /\ LeafScore(leaves[1], E) - LeafScore(leaves[2], E) <= 30 * Threshold.low_confidence_margin
  /\ Names(leaves[1]) \cap Names(leaves[2]) = {}

(* _is_named_person_communication_query and _has_competing_person_threads.    *)
PersonStrategy(q, leaves, E) ==
  LET window == 1..AtMost(Len(leaves), AtLeast(2, Threshold.competing_person_window))
      close(i) ==
        \/ 100 * LeafScore(leaves[i], E)
             >= Threshold.competing_person_score_ratio * LeafScore(leaves[1], E)
        \/ LeafScore(leaves[1], E) - LeafScore(leaves[i], E)
             <= 30 * Threshold.competing_person_score_gap
  IN /\ q.addressing /\ E # {}
     /\ \E i \in window : Aligned(leaves[i], E)
     /\ \E i \in window : close(i) /\ ~Aligned(leaves[i], E) /\ Conflicting(leaves[i], E)

(* _has_disambiguation_pressure. *)
NamesInDoubt(q, leaves, E) ==
  LET temporal == Reaches(q, "temporal", Threshold.revision_leaf_min)
      runnerUp ==
        /\ Len(leaves) >= 2 /\ ~Aligned(leaves[2], E)
        /\ \/ LeafScore(leaves[1], E) - LeafScore(leaves[2], E)
                <= 30 * Threshold.disambiguation_close_margin
           \/ LowConfidence(leaves, E)
  IN /\ E # {}
     /\ ~(temporal /\ ~Active(q, "ambiguity") /\ ~q.pronoun)
     /\ \/ Active(q, "ambiguity") \/ q.pronoun \/ leaves = <<>>
        \/ ~Aligned(leaves[1], E) \/ runnerUp

Pressure(q, leaves, E) == NamesInDoubt(q, leaves, E) \/ PersonStrategy(q, leaves, E)

(* _leaf_satisfies_revision_slot_cues. *)
SlotsMet(q, n) == q.asks \subseteq Of[n].slots

(* revision_leaf_first_query and revision_needs_expansion. *)
RevisionFirst(q, route) == route.strategy = "revision_leaf_first" /\ q.revising
NeedsExpansion(q, leaves, E) ==
  \/ leaves = <<>> \/ ~SlotsMet(q, leaves[1]) \/ ~Aligned(leaves[1], E)
  \/ Pressure(q, leaves, E)

(* _should_confident_leaf_short_circuit. *)
ConfidentLeaf(q, leaves, E) ==
  /\ leaves # <<>> /\ ~q.detailed
  /\ \A cue \in {"composition", "negation", "conflict", "ambiguity"} : ~Active(q, cue)
  /\ ~MultiLeaf(Plan(q, E))
  /\ ~LowConfidence(leaves, E) /\ ~Pressure(q, leaves, E)
  /\ ~Reaches(q, "temporal", Threshold.revision_leaf_min)
  /\ Aligned(leaves[1], E)

(* _select_revision_enrichment_leaf: the second leaf of a revision answer.    *)
Enrichment(route, leaves, E, budget) ==
  LET top == leaves[1]
      fits(i) ==
        /\ Tokens(top) + Tokens(leaves[i]) <= budget
        /\ 10 * LeafScore(leaves[i], E) >= 6 * LeafScore(top, E)
        /\ ~(Of[leaves[i]].launch \subseteq Of[top].launch)
      found == {i \in 2..AtMost(5, Len(leaves)) : route.enrichment /\ fits(i)}
  IN IF found = {} THEN <<>> ELSE <<leaves[Min(found)]>>
=============================================================================
