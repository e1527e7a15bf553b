---------------------------- MODULE QueryRouting ----------------------------
(***************************************************************************)
(* The routing and coverage policy of retrieval/policies.py: which strategy  *)
(* a query gets, what its answer must cover, and when another leaf is worth   *)
(* its tokens.                                                              *)
(*                                                                          *)
(* A query is what the regular expressions find in it: a record with         *)
(*   triggers  by cue, the weight of the triggers that match (hundredths)    *)
(*   names     its capitalized words, as routing sees them                   *)
(*   entities  the names in it, without days and months;  terms  other terms  *)
(*   facets    the facets its wording requires                               *)
(*   asks      what a revision answer has to have (see CandidateScoring)     *)
(*   comparing, correcting, communicating, addressing, detailed, pronoun,     *)
(*   revising, timed, negated   whether a phrase of that kind occurs         *)
(*   tokens    its length                                                    *)
(* Scores, weights and thresholds are in hundredths.                         *)
(***************************************************************************)
EXTENDS Integers, Sequences, FiniteSets, FiniteSetsExt

CONSTANTS
  FeatureNorm, FeatureWeight,   \* by cue
  Threshold,                    \* strategy_thresholds, resolver_thresholds
  Bonus,                        \* supplemental_weights
  Gate                          \* supplemental_thresholds

Cue == {"temporal", "conflict", "composition", "negation", "ambiguity"}
Facet == {"preference", "avoid", "strategy", "commitment", "action", "event",
          "negation", "temporal"}
Strategy == {"mode_override", "flat_top1", "hierarchy_expand",
             "revision_leaf_first", "hierarchy_single"}

ASSUME PolicyAssumption ==
  /\ \A k \in Cue : FeatureNorm[k] >= 100 /\ FeatureWeight[k] \in Nat
  /\ Threshold.expansion_branch_target \in Nat

AtLeast(a, b) == IF a >= b THEN a ELSE b
AtMost(a, b) == IF a <= b THEN a ELSE b

(* QueryFeatureScorer.score. *)
Score(q) == [k \in Cue |-> AtMost(100, (100 * q.triggers[k]) \div FeatureNorm[k])]
FiredRules(q) == {k \in Cue : q.triggers[k] > 0}

(* Whether the hierarchical score, a weighted mean, reaches a threshold.     *)
WeightSum == AtLeast(MapThenSumSet(LAMBDA k : FeatureWeight[k], Cue), 1)
WeightedTotal(q) == MapThenSumSet(LAMBDA k : Score(q)[k] * FeatureWeight[k], Cue)

Coverage(q) == AtLeast(Score(q)["composition"], Score(q)["negation"])
Active(q, cue) == Score(q)[cue] >= Threshold.feature_active_min
Comparison(q) == q.comparing /\ Cardinality(q.names) >= 2

RouteTo(strategy, branches, expansion, enrichment) ==
  [strategy |-> strategy, branches |-> branches,
   expansion |-> expansion, enrichment |-> enrichment]

Reaches(q, cue, threshold) == Score(q)[cue] >= threshold

FlatTop1(q) ==
  /\ WeightedTotal(q) <= Threshold.flat_top1_max * WeightSum
  /\ FiredRules(q) = {} /\ ~Comparison(q)
TemporalDominates(q) ==
  /\ Reaches(q, "temporal", Threshold.revision_leaf_min)
  /\ Coverage(q) < Threshold.coverage_min
  /\ ~Reaches(q, "conflict", Threshold.hierarchy_expand_min)
Expand(q) ==
  \/ WeightedTotal(q) >= Threshold.hierarchy_expand_min * WeightSum
  \/ Coverage(q) >= Threshold.coverage_min
  \/ Reaches(q, "conflict", Threshold.hierarchy_expand_min)
  \/ Reaches(q, "ambiguity", Threshold.hierarchy_expand_min)

(* QueryFeatureScorer.decide: the first rule that applies.                   *)
Decide(q, mode, branchLimit) ==
  LET wide == \E k \in Cue : Reaches(q, k, Threshold.multi_branch_min)
      revising == Reaches(q, "temporal", Threshold.revision_leaf_min)
  IN CASE mode # "balanced" ->
            RouteTo("mode_override", AtLeast(1, branchLimit), FALSE, FALSE)
       [] mode = "balanced" /\ FlatTop1(q) -> RouteTo("flat_top1", 1, FALSE, FALSE)
       [] mode = "balanced" /\ Comparison(q) ->
            RouteTo("hierarchy_expand", AtLeast(2, branchLimit), TRUE, revising)
       [] mode = "balanced" /\ ~FlatTop1(q) /\ ~Comparison(q) /\ TemporalDominates(q) ->
            RouteTo("revision_leaf_first", 1, FALSE, q.correcting)
       [] mode = "balanced" /\ ~Comparison(q) /\ ~TemporalDominates(q) /\ Expand(q) ->
            RouteTo("hierarchy_expand", IF wide THEN 2 ELSE 1,
                  Coverage(q) >= Threshold.coverage_min, revising)
       [] OTHER -> RouteTo("hierarchy_single", 1, FALSE, revising)

(* build_coverage_plan; E are the names of the query and their aliases.       *)
Plan(q, E) ==
  LET comparison == q.comparing /\ Cardinality(E) >= 2
  IN [minLeaves |-> IF comparison THEN AtLeast(2, Cardinality(E)) ELSE 1,
      required |->
        q.facets
        \cup (IF q.communicating THEN {"strategy"} ELSE {})
        \cup (IF E # {} /\ {"action", "commitment"} \subseteq q.facets THEN {"event"} ELSE {})
        \cup (IF Active(q, "negation") \/ q.negated THEN {"negation"} ELSE {})
        \cup (IF Active(q, "temporal") /\ q.timed THEN {"temporal"} ELSE {})
        \cup (IF comparison THEN E ELSE {}),
      communication |-> IF q.communicating THEN 2 ELSE 0,
      entityThread |-> E # {} /\ (\/ Coverage(q) >= Threshold.coverage_min
                                  \/ \E k \in {"ambiguity", "composition", "conflict"} : Active(q, k)
                                  \/ comparison)]
CommunicationFacets == {"preference", "avoid", "strategy"}
MultiLeaf(plan) == plan.minLeaves > 1

ExpansionTarget == AtLeast(2, Threshold.expansion_branch_target)

(* dynamic_target_leaf_count; lacking says that a facet, a communication      *)
(* facet, the thread of the names, a polarity, disambiguation or confidence   *)
(* is missing.                                                              *)
TargetLeaves(leaves, plan, lacking) ==
  IF leaves = 0 THEN AtLeast(1, plan.minLeaves)
  ELSE IF lacking THEN AtLeast(leaves, AtLeast(ExpansionTarget, plan.minLeaves))
  ELSE leaves

(* supplemental_utility_threshold; need: what is missing, a set of            *)
(* "required", "communication", "polarity", "disambiguation", "confidence".  *)
UtilityGate(q, need) ==
  LET relax(n, amount) == IF n \in need THEN amount ELSE 0
      temporalOnly == Active(q, "temporal") /\ ~Active(q, "ambiguity") /\ need = {}
      value == Gate.base_utility_threshold
               - relax("required", Gate.missing_required_relax)
               - relax("communication", Gate.communication_gap_relax)
               - relax("polarity", Gate.polarity_relax)
               - relax("disambiguation", Gate.disambiguation_relax)
               - relax("confidence", Gate.low_confidence_relax)
               + IF temporalOnly THEN Gate.temporal_only_penalty ELSE 0
  IN AtMost(Gate.max_utility_threshold, AtLeast(Gate.min_utility_threshold, value))

(* The bonus of a leaf with so many new and so many required keys;            *)
(* signs: a set of "communication", "polarity", "disambiguation", "aligned".  *)
UtilityBonus(newKeys, requiredKeys, signs) ==
  LET add(sign, amount) == IF sign \in signs THEN amount ELSE 0
  IN Bonus.coverage_bonus_per_key * newKeys + Bonus.required_bonus_per_key * requiredKeys
     + add("communication", Bonus.communication_bonus)
     + add("polarity", Bonus.polarity_bonus)
     + add("disambiguation", Bonus.disambiguation_bonus)
     + add("aligned", Bonus.entity_aligned_bonus)
=============================================================================
