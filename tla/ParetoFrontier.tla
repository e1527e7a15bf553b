--------------------------- MODULE ParetoFrontier ---------------------------
(***************************************************************************)
(* The arithmetic of the frontier sweep (packages/evals/frontier.py): what   *)
(* the slices of an evaluation make of a candidate, when a candidate         *)
(* dominates another, which ones form the frontier, and the utility that     *)
(* ranks them.                                                               *)
(*                                                                          *)
(* A metric is an integer.  The weights of the slices are not divided by     *)
(* their sum, so objectives and the tolerance are that many times those of   *)
(* the code.  Of the objectives, "gain" stands for the weighted averages,    *)
(* "worst" for the two worst slices, "family" for a family objective.        *)
(***************************************************************************)
EXTENDS Integers, Sequences, FiniteSets, FiniteSetsExt, Functions

CONSTANTS
  Slice,        \* canonical, unseen seeds, hard perturbations
  SliceWeight   \* the weights given on the command line

ASSUME SlicesAssumption ==
  /\ SliceWeight \in [Slice -> Nat]
  /\ \E s \in Slice : SliceWeight[s] > 0

(* _build_slices drops the slices that have no weight. *)
ActiveSlice == {s \in Slice : SliceWeight[s] > 0}
Weighted(value) == MapThenSumSet(LAMBDA s : SliceWeight[s] * value[s], ActiveSlice)
TotalWeight == Weighted([s \in ActiveSlice |-> 1])

(* The objectives of _evaluate_candidate; m[s] are the metrics of slice s.   *)
(* All are to be maximized: one to be minimized is negated.                  *)
Objectives(m, family) ==
  LET gain == [s \in ActiveSlice |-> m[s].gain]
      measured == [s \in ActiveSlice |-> m[s].family]
  IN [gain   |-> Weighted(gain),
      worst  |-> TotalWeight * Min(Range(gain)),
      family |-> CASE family = "max"  -> Weighted(measured)
                   [] family = "min"  -> -Weighted(measured)
                   [] OTHER -> 0]

Objective == {"gain", "worst", "family"}

Dominates(u, v, epsilon) ==
  /\ \A k \in Objective : u[k] >= v[k] - epsilon
  /\ \E k \in Objective : u[k] > v[k] + epsilon

(* Slip: a row is compared with the candidates before it only. *)
SlipUndominatedByEarlier(rows, epsilon) ==
  {x \in rows : ~(\E y \in rows : y.id < x.id /\ Dominates(y.vector, x.vector, epsilon))}

(* _frontier: rows that no row of another candidate dominates. *)
Undominated(rows, epsilon) ==
  {x \in rows : ~(\E y \in rows : y.id # x.id /\ Dominates(y.vector, x.vector, epsilon))}

(* Slip: an objective to be minimized is negated here too. *)
SlipUtilityWeightNegates(family) ==
  [gain |-> 168, worst |-> 84, family |-> IF family = "min" THEN -300 ELSE 300]

(* _utility_weights, in thousandths: a family objective takes 0.3 of 1. *)
UtilityWeight(family) ==
  IF family = "none" THEN [gain |-> 240, worst |-> 120, family |-> 0]
  ELSE [gain |-> 168, worst |-> 84, family |-> 300]

Lowest(rows, k) == Min({x.vector[k] : x \in rows})
Span(rows, k) == Max({x.vector[k] : x \in rows}) - Lowest(rows, k)

(* The part of _assign_utility_scores for one row: each objective scaled to   *)
(* 0..1 over all rows, 1/2 where all are equal, times Unit.                  *)
Scale(rows, k) == Max({Span(rows, k), 1})
Unit(rows) == 2 * Scale(rows, "gain") * Scale(rows, "worst") * Scale(rows, "family")
Utility(rows, family, x) ==
  LET scaled(k) == IF Span(rows, k) = 0 THEN Unit(rows) \div 2
                   ELSE (x.vector[k] - Lowest(rows, k)) * (Unit(rows) \div Span(rows, k))
      part(k) == UtilityWeight(family)[k] * scaled(k)
  IN part("gain") + part("worst") + part("family")

(* The candidates that head the list sorted by utility. *)
Best(rows, family) ==
  {x.id : x \in {y \in rows : \A z \in rows :
                   Utility(rows, family, z) <= Utility(rows, family, y)}}

(* dict.fromkeys, and the loop of _sample_overrides: first occurrences.       *)
Distinct(s) ==
  LET first == {i \in DOMAIN s : \A j \in DOMAIN s : j < i => s[j] # s[i]}
  IN [n \in 1..Cardinality(first) |->
        s[CHOOSE i \in first : Cardinality({j \in first : j <= i}) = n]]
=============================================================================
