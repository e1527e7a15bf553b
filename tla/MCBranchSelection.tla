-------------------------- MODULE MCBranchSelection --------------------------
(***************************************************************************)
(* BranchSelection for TLC: five leaves about ana (also called annie) and     *)
(* ben, one of which is written during the call; two summaries that share a  *)
(* leaf; the default policy; queries for each route, in each mode, with      *)
(* budgets that no leaf, one leaf, some and all of them fit.                 *)
(***************************************************************************)
EXTENDS BranchSelection

MCNorm == [temporal |-> 300, conflict |-> 200, composition |-> 300,
           negation |-> 200, ambiguity |-> 300]
MCWeight == [k \in Cue |-> 1]
MCThreshold ==
  [flat_top1_max |-> 32, revision_leaf_min |-> 45, coverage_min |-> 45,
   hierarchy_expand_min |-> 48, multi_branch_min |-> 65, feature_active_min |-> 34,
   low_confidence_margin |-> 8, disambiguation_close_margin |-> 8,
   competing_person_score_ratio |-> 55, competing_person_score_gap |-> 25,
   competing_person_window |-> 8, expansion_branch_target |-> 2]
MCBonus ==
  [coverage_bonus_per_key |-> 6, required_bonus_per_key |-> 12, communication_bonus |-> 10,
   polarity_bonus |-> 10, disambiguation_bonus |-> 10, entity_aligned_bonus |-> 3]
MCGate ==
  [base_utility_threshold |-> 8, missing_required_relax |-> 2, communication_gap_relax |-> 2,
   polarity_relax |-> 2, disambiguation_relax |-> 3, low_confidence_relax |-> 1,
   temporal_only_penalty |-> 4, min_utility_threshold |-> 4, max_utility_threshold |-> 14]

Plain ==
  [tokens |-> 6, start |-> 1, importance |-> 50, relevance |-> 50, recency |-> 50,
   names |-> {}, mentions |-> {}, negates |-> {}, aliases |-> {}, terms |-> {},
   facets |-> {}, slots |-> {}, launch |-> {}, negative |-> FALSE, affirmative |-> FALSE]

MCOf ==
  [n \in {"a", "b", "c", "d", "e", "S", "T"} |->
     CASE n = "a" -> [Plain EXCEPT !.relevance = 90, !.names = {"ana"}, !.mentions = {"ana"},
                       !.facets = {"strategy", "event"}, !.slots = {"ship", "timing", "latest"},
                       !.launch = {"ship"}]
       [] n = "b" -> [Plain EXCEPT !.tokens = 9, !.start = 2, !.relevance = 80,
                       !.names = {"ben"}, !.mentions = {"ben"},
                       !.facets = {"commitment", "action"}, !.affirmative = TRUE,
                       !.launch = {"launch"}]
       [] n = "c" -> [Plain EXCEPT !.start = 3, !.names = {"annie"},
                       !.mentions = {"annie"}, !.aliases = {{"ana", "annie"}},
                       !.facets = {"negation", "temporal"}, !.negative = TRUE]
       [] n = "d" -> [Plain EXCEPT !.tokens = 3, !.start = 4, !.relevance = 40,
                       !.terms = {"demo"}, !.negates = {"ana"}, !.facets = {"preference"}]
       [] n = "e" -> [Plain EXCEPT !.start = 5, !.relevance = 95, !.names = {"ben"},
                       !.mentions = {"ben", "ana"}, !.terms = {"demo"}]
       [] n = "S" -> [Plain EXCEPT !.tokens = 8, !.relevance = 70]
       [] n = "T" -> [Plain EXCEPT !.tokens = 13, !.start = 2, !.relevance = 60]]
MCChildIds == [s \in {"S", "T"} |-> IF s = "S" THEN <<"a", "b">> ELSE <<"b", "c">>]

Asked ==
  [triggers |-> [k \in Cue |-> 0], names |-> {}, entities |-> {}, terms |-> {"demo"},
   facets |-> {}, asks |-> {}, comparing |-> FALSE, correcting |-> FALSE,
   communicating |-> FALSE, addressing |-> FALSE, detailed |-> FALSE, pronoun |-> FALSE,
   revising |-> FALSE, timed |-> FALSE, negated |-> FALSE, tokens |-> 4]
MCQuery ==
  {Asked,
   [Asked EXCEPT !.names = {"ana", "ben"}, !.entities = {"ana", "ben"}, !.comparing = TRUE],
   [Asked EXCEPT !.triggers["temporal"] = 200, !.revising = TRUE, !.correcting = TRUE,
                 !.timed = TRUE, !.detailed = TRUE, !.asks = {"ship", "timing", "latest"}],
   [Asked EXCEPT !.triggers["composition"] = 200, !.facets = {"commitment", "action"},
                 !.names = {"ben"}, !.entities = {"ben"}, !.communicating = TRUE,
                 !.addressing = TRUE],
   [Asked EXCEPT !.triggers["negation"] = 110, !.names = {"ana"}, !.entities = {"ana"}],
   [Asked EXCEPT !.triggers["ambiguity"] = 110, !.pronoun = TRUE, !.names = {"ana"},
                 !.entities = {"ana"}],
   [Asked EXCEPT !.triggers["conflict"] = 50],
   [Asked EXCEPT !.triggers["temporal"] = 110, !.detailed = TRUE, !.names = {"ana"},
                 !.entities = {"ana"}, !.addressing = TRUE]}
MCRequest ==
  [query : MCQuery, mode : {"balanced"}, budget : {2, 12, 20, 40}, limit : {1, 2}]
  \cup [query : MCQuery, mode : {"drill_down"}, budget : {5, 12, 40}, limit : {2}]
  \cup [query : {Asked}, mode : {"summary_only", "flat"}, budget : {5, 20}, limit : {0, 2}]
  \cup [query : MCQuery, mode : {"balanced"}, budget : {16}, limit : {0}]
=============================================================================
