----------------------- MODULE BranchSelectionProofs -----------------------
(***************************************************************************)
(* What one retrieval guarantees for every set of nodes, policy, request and *)
(* number of changes to the store under way.                                 *)
(***************************************************************************)
EXTENDS BranchSelection, TLAPS, FiniteSetTheorems, SequenceTheorems, WellFoundedInduction

(* The parts of the type invariant. *)
StoreTypes ==
  /\ stored \subseteq written /\ written \subseteq Node
  /\ stale \subseteq stored \cap Summary
  /\ accesses \in [Node -> Nat] /\ highest \in [Node -> Nat] /\ others \in [Node -> Nat]
  /\ changes \in 0..MaxChanges /\ deleted \subseteq Node /\ outdated \subseteq Node
ProbeTypes == request \in Request /\ legacy \in BOOLEAN /\ leaves \in Seq(Leaf)
DescentTypes ==
  /\ summaries \in Seq(Summary) /\ branch \in 1..Len(summaries) + 1
  /\ unread \in Seq(Leaf) /\ children \subseteq Leaf
SelectionTypes ==
  /\ consumed \in Nat
  /\ picked \in Seq([node : Node, score : Int])
  /\ trace \in Seq([node : Node, as : SelectedAs])
  /\ marking \in Seq(Node) /\ seen \in Nat \cup {NotRead}
ContextTypes == packed \in Seq(Node) /\ used \in Nat

(* Before the branches are considered nothing is selected, and the branches   *)
(* start with the first.                                                     *)
Fresh ==
  /\ stage \in {"idle", "route", "probe", "list", "flatList"} => picked = <<>>
  /\ stage \in {"idle", "route", "probe", "list"} => branch = 1

(* The selection and its trace are about the same nodes, each of them once.   *)
SelectedOnce ==
  /\ Len(trace) = Len(picked) /\ Traced = PickedNodes
  /\ \A i, j \in DOMAIN picked : picked[i].node = picked[j].node => i = j
  /\ picked = <<>> => consumed = 0

(* The budget is exceeded by leaf-first answers only, which are complete.     *)
WithinBudget ==
  BudgetKept /\ (stage \notin {"pack", "done", "failed"} => consumed <= request.budget)

(* A branch that is read is one of ranked_summaries, and nothing is spent in  *)
(* it before its children are added, nor when its summary is taken.          *)
BranchOpen ==
  /\ stage \in {"read", "add", "summary"} => branch <= Len(summaries)
  /\ stage \in {"read", "summary"} => spent = 0

(* Whatever the call holds has been in the store, so it is not written anew:  *)
(* only one that writes back an old copy can bring back one of these nodes.  *)
NodesWritten ==
  /\ FirstNodes \subseteq written /\ Range(leaves) \subseteq written
  /\ Range(summaries) \subseteq written /\ children \subseteq written
  /\ Range(queue) \subseteq written /\ PickedNodes \subseteq written

(* No count was ever above the accesses made; a row that was not deleted under *)
(* way, and whose count is not outdated, has all of them.                    *)
CountsKept ==
  /\ \A n \in Node : accesses[n] <= highest[n] /\ highest[n] <= Made(n)
  /\ \A n \in stored \ (deleted \cup outdated) : accesses[n] = Made(n)
  /\ written \ stored \subseteq deleted
  /\ \A n \in Node \ written : others[n] = 0

(* What is still to be marked was selected, each node once; a count that was   *)
(* read is not above the highest the row had.                                *)
Pending ==
  /\ IsInjective(marking) /\ Range(marking) \subseteq Traced
  /\ seen # NotRead => marking # <<>> /\ seen <= highest[Head(marking)]

(* A leaf that was there all the time and may fit the budget.                *)
MayFit(n) ==
  /\ n \in (FirstNodes \cap stored \cap Leaf) \ deleted
  /\ ~(Tokens(n) > request.budget)

(* Flat retrieval tries each leaf once, and while it has taken none the leaves *)
(* that fit are still to come.                                               *)
FlatQueue == stage = "flat" =>
  /\ IsInjective(queue) /\ Range(queue) \cap PickedNodes = {}
  /\ picked = <<>> => \A n \in Node : MayFit(n) => n \in Range(queue)

EmptyMeansNothingFits == stage \in {"pack", "done"} /\ picked = <<>> =>
  FlatLimit = 0 \/ \A n \in Node : ~MayFit(n)

(* The inductive invariant. *)
IInv ==
  /\ TypeOK /\ Fresh /\ SelectedOnce /\ WithinBudget /\ BranchOpen /\ NodesWritten
  /\ CountsKept /\ Pending /\ FlatQueue /\ EmptyMeansNothingFits

-----------------------------------------------------------------------------
(* Operators *)

(* A set of numbers that is not empty has a least one. *)
LEMMA Least ==
  ASSUME NEW S, S \subseteq Nat, S # {}
  PROVE  \E x \in S : \A y \in S : x <= y
<1> DEFINE R == OpToRel(<, Nat)
<1>1. PICK x \in S : \A y \in S : <<y, x>> \notin R
  <2> HIDE DEF R
  <2>1. IsWellFoundedOn(R, Nat)
    BY NatLessThanWellFounded DEF R
  <2> QED
    BY <2>1, WFMin
<1>2. \A a, b \in Nat : a < b => <<a, b>> \in R
  BY DEF OpToRel
<1> HIDE DEF R
<1>3. ASSUME NEW y \in S PROVE x <= y
  <2>1. x \in Nat /\ y \in Nat /\ ~(y < x)
    BY <1>1, <1>2
  <2> QED
    BY <2>1
<1> QED
  BY <1>3

(* A set of positions that is not empty has a first one. *)
LEMMA FirstPosition ==
  ASSUME NEW S, S \subseteq Nat, S # {}
  PROVE  Min(S) \in S
<1>1. PICK x \in S : \A y \in S : x <= y
  BY Least
<1> QED
  BY <1>1 DEF Min

LEMMA ScoreTypes ==
  /\ \A n \in Node : FlatScore(n) \in Int /\ SummaryScore(n) \in Int
  /\ \A n \in Node : \A E : LeafScore(n, E) \in Int /\ ChildScore(n, E) \in Int
<1>1. \A n \in Node : /\ Mean(n, 10, 10) \in Int /\ Mean(n, 12, 4) \in Int
                     /\ Mean(n, 14, 7) \in Int
  <2> TAKE n \in Node
  <2>1. Of[n].relevance \in Int /\ Of[n].recency \in Int /\ Of[n].importance \in Int
    BY NodesAssumption
  <2> QED
    BY <2>1 DEF Mean
<1>2. \A n \in Node : \A E : Adjustment(n, E) \in Int
  BY DEF Adjustment, Aligned
<1> QED
  BY <1>1, <1>2 DEF FlatScore, SummaryScore, LeafScore, ChildScore

LEMMA TokensType == \A n \in Node : Tokens(n) \in Nat \ {0}
  BY NodesAssumption DEF Tokens

LEMMA FunctionIsSeq ==
  ASSUME NEW S, NEW n \in Nat, NEW f \in [1..n -> S]
  PROVE  f \in Seq(S) /\ Len(f) = n
  OBVIOUS

(* A ranking lists each element of the set once. *)
LEMMA RankedLists ==
  ASSUME NEW S, IsFiniteSet(S), NEW score, NEW place, NEW ranked \in Ranked(S, score, place)
  PROVE  /\ ranked \in Seq(S) /\ Range(ranked) = S /\ IsInjective(ranked)
         /\ Len(ranked) = Cardinality(S)
<1>1. Cardinality(S) \in Nat
  BY FS_CardinalityType
<1>2. ranked \in [1..Cardinality(S) -> S] /\ Range(ranked) = S /\ IsInjective(ranked)
  BY DEF Ranked
<1>3. ranked \in Seq(S)
  BY <1>1, <1>2
<1> QED
  BY <1>1, <1>2, <1>3, LenProperties

LEMMA LiveFinite == \A S \in SUBSET Node : IsFiniteSet(Live(S)) /\ Live(S) \subseteq S \cap stored
<1>1. \A S \in SUBSET Node : Live(S) \in SUBSET Node
  BY DEF Live
<1> QED
  BY <1>1, NodesAssumption, FS_Subset DEF Live

(* The number of branches is a number. *)
LEMMA BranchesType == \A r, mode : \A n \in Nat : Decide(r, mode, n).branches \in Nat
  BY DEF Decide, RouteTo, AtLeast

LEMMA BranchLimitType == TypeOK => BranchLimit \in Nat
<1> SUFFICES ASSUME TypeOK PROVE BranchLimit \in Nat
  OBVIOUS
<1>1. request.limit \in Nat /\ route.branches \in Nat /\ ExpansionTarget \in Nat
  BY RequestsAssumption, BranchesType, PolicyAssumption
  DEF TypeOK, route, ExpansionTarget, AtLeast
<1> QED
  BY <1>1 DEF BranchLimit, AtMost, AtLeast

(* A branch is allowed no more than what is left of the budget. *)
LEMMA AllowanceBound ==
  TypeOK /\ branch <= Len(summaries) => Allowance \in Int /\ Allowance <= Remaining + spent
<1> SUFFICES ASSUME TypeOK, branch <= Len(summaries)
             PROVE  Allowance \in Int /\ Allowance <= Remaining + spent
  OBVIOUS
<1>1. /\ Remaining \in Int /\ spent \in Int /\ request.budget \in Nat
      /\ Len(summaries) \in Nat /\ branch \in Nat
  BY RequestsAssumption DEF TypeOK, Remaining
<1>2. request.budget \div AtLeast(Len(summaries), 1) \in Int
  BY <1>1 DEF AtLeast
<1>3. (Remaining + spent) \div (Len(summaries) - branch + 1) \in Int
  BY <1>1
<1> QED
  BY <1>1, <1>2, <1>3 DEF Allowance, AtMost, AtLeast

(* A leaf-first answer is the best leaf, or that and another one beside it.   *)
LEMMA LeafFirstCases ==
  ASSUME TypeOK, NEW ranked \in Seq(Leaf)
  PROVE  \/ LeafFirst(ranked) = <<>>
         \/ ranked # <<>> /\ LeafFirst(ranked) = <<ranked[1]>>
         \/ \E i \in 2..Len(ranked) :
              /\ LeafFirst(ranked) = <<ranked[1], ranked[i]>>
              /\ Tokens(ranked[1]) + Tokens(ranked[i]) <= request.budget
<1>1. NeedsExpansion(q, ranked, entities) \/ ranked # <<>>
  BY DEF NeedsExpansion
<1>2. ~ConfidentLeaf(q, ranked, entities) \/ ranked # <<>>
  BY DEF ConfidentLeaf
<1>3. \/ Enrichment(route, ranked, entities, request.budget) = <<>>
      \/ \E i \in 2..Len(ranked) :
           /\ Enrichment(route, ranked, entities, request.budget) = <<ranked[i]>>
           /\ Tokens(ranked[1]) + Tokens(ranked[i]) <= request.budget
  <2> DEFINE fits(i) ==
               /\ Tokens(ranked[1]) + Tokens(ranked[i]) <= request.budget
               /\ 10 * LeafScore(ranked[i], entities) >= 6 * LeafScore(ranked[1], entities)
               /\ ~(Of[ranked[i]].launch \subseteq Of[ranked[1]].launch)
             found == {i \in 2..AtMost(5, Len(ranked)) : route.enrichment /\ fits(i)}
  <2>1. Enrichment(route, ranked, entities, request.budget) =
          IF found = {} THEN <<>> ELSE <<ranked[Min(found)]>>
    BY DEF Enrichment
  <2>2. CASE found = {}
    BY <2>1, <2>2
  <2>3. CASE found # {}
    <3>1. AtMost(5, Len(ranked)) <= Len(ranked) /\ AtMost(5, Len(ranked)) \in Int
      BY DEF AtMost
    <3>2. found \subseteq Nat
      BY <3>1
    <3>3. PICK m \in found : Enrichment(route, ranked, entities, request.budget) = <<ranked[m]>>
      <4> HIDE DEF found
      <4> QED
        BY <2>1, <2>3, <3>2, FirstPosition
    <3>4. m \in 2..Len(ranked) /\ fits(m)
      BY <3>1
    <3> QED
      BY <3>3, <3>4
  <2> QED
    BY <2>2, <2>3
<1>4. \A x, y \in Leaf : <<x>> \o <<>> = <<x>> /\ <<x>> \o <<y>> = <<x, y>>
  <2> SUFFICES ASSUME NEW x \in Leaf, NEW y \in Leaf
               PROVE  <<x>> \o <<>> = <<x>> /\ <<x>> \o <<y>> = <<x, y>>
    OBVIOUS
  <2>1. <<x>> \in Seq(Leaf) /\ <<y>> \in Seq(Leaf) /\ <<x, y>> \in Seq(Leaf)
    OBVIOUS
  <2>2. <<x>> \o <<>> = <<x>>
    BY <2>1, ConcatEmptySeq
  <2>3. <<x>> \o <<y>> \in Seq(Leaf) /\ Len(<<x>> \o <<y>>) = 2
    BY <2>1, ConcatProperties
  <2>4. (<<x>> \o <<y>>)[1] = x /\ (<<x>> \o <<y>>)[2] = y
    BY <2>1, ConcatProperties
  <2>5. <<x>> \o <<y>> = <<x, y>>
    <3> DEFINE both == <<x>> \o <<y>>
    <3>1. both \in Seq(Leaf) /\ Len(both) = 2 /\ both[1] = x /\ both[2] = y
      BY <2>3, <2>4
    <3> HIDE DEF both
    <3>2. both = <<x, y>>
      BY <3>1
    <3> QED
      BY <3>2 DEF both
  <2> QED
    BY <2>2, <2>5
<1>5. ranked # <<>> => ranked[1] \in Leaf /\ \A i \in 2..Len(ranked) : ranked[i] \in Leaf
  OBVIOUS
<1> QED
  BY <1>1, <1>2, <1>3, <1>4, <1>5 DEF LeafFirst

(* Children to add are children. *)
LEMMA ChildrenToAddType ==
  ASSUME NEW S \in SUBSET Node, NEW ranked \in Seq(S), ranked # <<>>
  PROVE  ChildrenToAdd(ranked) \in Seq(S)
<1>1. AtMost(2, Len(ranked)) \in Int /\ AtMost(2, Len(ranked)) <= Len(ranked)
  BY DEF AtMost
<1>2. SubSeq(ranked, 1, AtMost(2, Len(ranked))) \in Seq(S)
  BY <1>1, SubSeqProperties
<1>3. <<ranked[1]>> \in Seq(S)
  OBVIOUS
<1> DEFINE about == {i \in DOMAIN ranked : Aligned(ranked[i], entities)}
<1>4. about # {} => <<ranked[Min(about)]>> \in Seq(S)
  <2>1. about \subseteq DOMAIN ranked /\ DOMAIN ranked = 1..Len(ranked)
    OBVIOUS
  <2>2. about \subseteq Nat
    BY <2>1
  <2> HIDE DEF about
  <2> SUFFICES ASSUME about # {} PROVE <<ranked[Min(about)]>> \in Seq(S)
    OBVIOUS
  <2>3. Min(about) \in about
    BY <2>2, FirstPosition
  <2>4. Min(about) \in 1..Len(ranked)
    BY <2>1, <2>3
  <2>5. ranked[Min(about)] \in S
    BY <2>4, ElementOfSeq
  <2> QED
    BY <2>5
<1>5. \/ ChildrenToAdd(ranked) = SubSeq(ranked, 1, AtMost(2, Len(ranked)))
      \/ ChildrenToAdd(ranked) = <<ranked[1]>>
      \/ about # {} /\ ChildrenToAdd(ranked) = <<ranked[Min(about)]>>
  BY DEF ChildrenToAdd
<1> HIDE DEF about
<1> QED
  BY <1>2, <1>3, <1>4, <1>5

-----------------------------------------------------------------------------
LEMMA Initially == Init => IInv
<1> SUFFICES ASSUME Init PROVE IInv
  OBVIOUS
<1>1. TypeOK
  <2>1. AnyRequest \in Request
    BY RequestsAssumption DEF AnyRequest
  <2>2. stored \subseteq written /\ written \subseteq Node /\ stale \subseteq stored \cap Summary
    BY RequestsAssumption DEF Init
  <2>6. /\ accesses \in [Node -> Nat] /\ highest \in [Node -> Nat] /\ others \in [Node -> Nat]
        /\ deleted \subseteq Node /\ outdated \subseteq Node
    BY DEF Init
  <2>7. changes \in 0..MaxChanges /\ request \in Request
    BY <2>1, RequestsAssumption DEF Init
  <2>8. stage \in Stage /\ legacy \in BOOLEAN
    BY DEF Init, Stage
  <2>3. /\ leaves \in Seq(Leaf) /\ summaries \in Seq(Summary) /\ unread \in Seq(Leaf)
        /\ queue \in Seq(Node) /\ packed \in Seq(Node)
    BY EmptySeq DEF Init
  <2>5. /\ picked \in Seq([node : Node, score : Int])
        /\ trace \in Seq([node : Node, as : SelectedAs])
        /\ marking \in Seq(Node) /\ seen \in Nat \cup {NotRead}
    BY EmptySeq DEF Init
  <2>4. /\ branch \in 1..Len(summaries) + 1 /\ children \subseteq Leaf
        /\ consumed \in Nat /\ spent \in 0..consumed /\ used \in Nat
    BY DEF Init
  <2> QED
    BY <2>2, <2>3, <2>4, <2>5, <2>6, <2>7, <2>8 DEF TypeOK
<1>2. Fresh /\ SelectedOnce /\ BranchOpen
  BY DEF Init, Fresh, SelectedOnce, BranchOpen, Traced, PickedNodes
<1>3. WithinBudget
  BY <1>1, RequestsAssumption DEF Init, WithinBudget, BudgetKept, TypeOK
<1>6. CountsKept /\ Pending
  <2>1. \A n \in Node : accesses[n] = 0 /\ highest[n] = 0 /\ others[n] = 0 /\ Made(n) = 0
    BY DEF Init, Made, Traced
  <2>2. Pending
    BY DEF Init, Pending, IsInjective, Range
  <2> QED
    BY <2>1, <2>2, RequestsAssumption DEF Init, CountsKept
<1>4. NodesWritten
  BY DEF Init, NodesWritten, PickedNodes, Range
<1>5. FlatQueue /\ EmptyMeansNothingFits
  BY DEF Init, FlatQueue, EmptyMeansNothingFits
<1> QED
  BY <1>1, <1>2, <1>3, <1>4, <1>5, <1>6 DEF IInv

LEMMA TypeParts ==
  /\ TypeOK <=> /\ StoreTypes /\ ProbeTypes /\ DescentTypes /\ SelectionTypes /\ ContextTypes
                /\ stage \in Stage /\ queue \in Seq(Node) /\ spent \in 0..consumed
  /\ TypeOK' <=> /\ StoreTypes' /\ ProbeTypes' /\ DescentTypes' /\ SelectionTypes'
                 /\ ContextTypes' /\ (stage \in Stage)' /\ (queue \in Seq(Node))'
                 /\ (spent \in 0..consumed)'
<1>1. TypeOK <=> /\ StoreTypes /\ ProbeTypes /\ DescentTypes /\ SelectionTypes /\ ContextTypes
                 /\ stage \in Stage /\ queue \in Seq(Node) /\ spent \in 0..consumed
  BY Zenon DEF TypeOK, StoreTypes, ProbeTypes, DescentTypes, SelectionTypes, ContextTypes
<1> QED
  BY <1>1, PTL

-----------------------------------------------------------------------------
(* Changes of the store *)

(* A step that leaves the selection alone keeps it consistent. *)
LEMMA SelectedKept ==
  ASSUME SelectedOnce, UNCHANGED selection
  PROVE  SelectedOnce' /\ Traced' = Traced /\ PickedNodes' = PickedNodes
<1>1. consumed' = consumed /\ picked' = picked /\ trace' = trace
  BY DEF selection
<1>2. Traced' = Traced /\ PickedNodes' = PickedNodes
  BY <1>1 DEF Traced, PickedNodes
<1>3. \A i, j \in DOMAIN picked' : picked'[i].node = picked'[j].node => i = j
  BY <1>1 DEF SelectedOnce
<1> QED
  BY <1>1, <1>2, <1>3 DEF SelectedOnce

(* What the call holds is not changed with the store. *)
LEMMA CallKept ==
  ASSUME IInv, written \subseteq written',
         UNCHANGED <<request, stage, probe, descent, queue, selection, context>>
  PROVE  /\ ProbeTypes' /\ DescentTypes' /\ SelectionTypes' /\ ContextTypes'
         /\ (stage \in Stage)' /\ (queue \in Seq(Node))' /\ (spent \in 0..consumed)'
         /\ Fresh' /\ SelectedOnce' /\ WithinBudget' /\ BranchOpen' /\ NodesWritten'
<1>1. /\ ProbeTypes /\ DescentTypes /\ SelectionTypes /\ ContextTypes
      /\ stage \in Stage /\ queue \in Seq(Node) /\ spent \in 0..consumed
  BY TypeParts DEF IInv
<1>2. ProbeTypes' /\ (stage \in Stage)' /\ (queue \in Seq(Node))' /\ ContextTypes'
  BY <1>1 DEF ProbeTypes, ContextTypes, probe, context
<1>3. DescentTypes' /\ SelectionTypes' /\ (spent \in 0..consumed)'
  BY <1>1 DEF DescentTypes, SelectionTypes, descent, selection
<1>4. Fresh' /\ BranchOpen'
  BY DEF IInv, Fresh, BranchOpen, descent, selection
<1>5. SelectedOnce'
  BY SelectedKept DEF IInv
<1>6. WithinBudget'
  BY DEF IInv, WithinBudget, BudgetKept, selection
<1>7. NodesWritten'
  BY DEF IInv, NodesWritten, PickedNodes, probe, descent, selection
<1> QED
  BY <1>2, <1>3, <1>4, <1>5, <1>6, <1>7

(* No leaf is found to fit that did not fit before. *)
LEMMA FitKept ==
  ASSUME IInv, UNCHANGED <<request, stage, probe, queue, selection>>,
         \A n \in Node : MayFit(n)' => MayFit(n)
  PROVE  FlatQueue' /\ EmptyMeansNothingFits'
<1>1. PickedNodes' = PickedNodes /\ FlatLimit' = FlatLimit
  BY DEF PickedNodes, FlatLimit, FlatSelectedAs, q, probe, selection
<1>2. picked' = picked
  BY DEF selection
<1> QED
  BY <1>1, <1>2 DEF IInv, FlatQueue, EmptyMeansNothingFits

LEMMA MadeType ==
  ASSUME StoreTypes
  PROVE  \A n \in Node : Made(n) \in Nat
BY DEF StoreTypes, Made

(* What was made, and is to be marked, does not change with the store. *)
LEMMA MadeKept ==
  ASSUME UNCHANGED <<others, selection>>
  PROVE  \A n : Made(n)' = Made(n)
BY DEF Made, Traced, selection

LEMMA PendingKept ==
  ASSUME IInv, StoreTypes', UNCHANGED selection,
         \A n \in Node : highest[n] <= highest'[n]
  PROVE  Pending'
<1>1. StoreTypes /\ SelectionTypes /\ Pending
  BY TypeParts DEF IInv
<1>2. marking' = marking /\ seen' = seen /\ Traced' = Traced
  BY DEF Traced, selection
<1>3. seen # NotRead => seen \in Nat /\ Head(marking) \in Node
  BY <1>1 DEF SelectionTypes, Pending
<1>4. CASE seen = NotRead
  BY <1>1, <1>2, <1>4 DEF Pending
<1>5. CASE seen # NotRead
  <2>1. PICK n \in Node : n = Head(marking)
    BY <1>3, <1>5
  <2>2. /\ highest[n] \in Nat /\ highest'[n] \in Nat /\ seen <= highest[n]
        /\ highest[n] <= highest'[n]
    BY <1>1, <1>5, <2>1 DEF StoreTypes, Pending
  <2>3. seen <= highest'[n]
    BY <1>3, <1>5, <2>2
  <2> QED
    BY <1>1, <1>2, <1>5, <2>1, <2>2, <2>3 DEF Pending
<1> QED
  BY <1>4, <1>5

(* An access that is counted, from any count that the row had. *)
LEMMA AccessCounted ==
  ASSUME IInv, NEW n \in stored, NEW k \in Nat, k <= highest[n],
         accesses' = [accesses EXCEPT ![n] = k + 1],
         highest' = [highest EXCEPT ![n] = AtLeast(@, k + 1)],
         Outdates(n, k), UNCHANGED <<stored, stale, written, deleted>>, changes' \in 0..MaxChanges,
         others' \in [Node -> Nat], \A m \in Node \ written : others'[m] = 0,
         \A m \in Node : Made(m)' = IF m = n THEN Made(m) + 1 ELSE Made(m)
  PROVE  StoreTypes' /\ CountsKept' /\ \A m \in Node : highest[m] <= highest'[m]
<1>1. StoreTypes /\ CountsKept /\ n \in Node
  BY TypeParts DEF IInv, StoreTypes
<1>2. AtLeast(highest[n], k + 1) \in Nat /\ highest[n] <= AtLeast(highest[n], k + 1)
      /\ k + 1 <= AtLeast(highest[n], k + 1)
      /\ (AtLeast(highest[n], k + 1) = highest[n] \/ AtLeast(highest[n], k + 1) = k + 1)
  BY <1>1 DEF StoreTypes, AtLeast
<1>3. accesses' \in [Node -> Nat] /\ highest' \in [Node -> Nat] /\ outdated' \subseteq Node
  BY <1>1, <1>2 DEF StoreTypes, Outdates
<1>4. StoreTypes'
  BY <1>1, <1>3 DEF StoreTypes
<1>5. \A m \in Node : highest[m] <= highest'[m]
  BY <1>1, <1>2 DEF StoreTypes
<1>6. \A m \in Node : Made(m) \in Nat
  BY <1>1, MadeType
<1>7. \A m \in Node : accesses'[m] <= highest'[m] /\ highest'[m] <= Made(m)'
  BY <1>1, <1>2, <1>6 DEF StoreTypes, CountsKept
<1>8. ASSUME NEW m \in stored' \ (deleted' \cup outdated') PROVE accesses'[m] = Made(m)'
  <2>1. m \in stored \ (deleted \cup outdated) /\ m \in Node /\ (m = n => k = accesses[n])
    BY <1>1 DEF Outdates, StoreTypes
  <2> QED
    BY <1>1, <2>1 DEF CountsKept, StoreTypes
<1>9. CountsKept'
  BY <1>1, <1>7, <1>8 DEF CountsKept
<1> QED
  BY <1>4, <1>5, <1>9

LEMMA ForgetStep == IInv /\ Forget => IInv'
<1> SUFFICES ASSUME IInv, Forget PROVE IInv'
  OBVIOUS
<1>1. StoreTypes /\ CountsKept
  BY TypeParts DEF IInv
<1>2. PICK spared \in SUBSET (stored \cap Recent) :
        /\ stored' = spared /\ stale' = stale \cap spared
        /\ accesses' = [n \in Node |-> IF n \in spared THEN accesses[n] ELSE 0]
        /\ deleted' = deleted \cup (stored \ spared)
  BY DEF Forget
<1>3. StoreTypes'
  BY <1>1, <1>2, RequestsAssumption DEF Forget, StoreTypes
<1>4. \A n \in Node : Made(n)' = Made(n) /\ Made(n) \in Nat
  BY <1>1, MadeKept, MadeType DEF Forget
<1>5. highest' = highest /\ others' = others /\ written' = written /\ outdated' = outdated
  BY DEF Forget
<1>6. CountsKept'
  <2>1. \A n \in Node : accesses'[n] <= highest'[n] /\ highest'[n] <= Made(n)'
    BY <1>1, <1>2, <1>4, <1>5 DEF CountsKept, StoreTypes
  <2>2. \A n \in stored' \ (deleted' \cup outdated') : accesses'[n] = Made(n)'
    BY <1>1, <1>2, <1>4, <1>5 DEF CountsKept, StoreTypes
  <2>3. written' \ stored' \subseteq deleted' /\ \A n \in Node \ written' : others'[n] = 0
    BY <1>1, <1>2, <1>5 DEF CountsKept
  <2> QED
    BY <2>1, <2>2, <2>3 DEF CountsKept
<1>7. Pending'
  BY <1>1, <1>3, <1>5, PendingKept DEF Forget, StoreTypes
<1>8. \A n \in Node : MayFit(n)' => MayFit(n)
  BY <1>2 DEF Forget, MayFit, Recent
<1>9. FlatQueue' /\ EmptyMeansNothingFits'
  BY <1>8, FitKept DEF Forget
<1> QED
  BY <1>3, <1>6, <1>7, <1>9, CallKept, TypeParts DEF IInv, Forget

LEMMA WriteStep == \A n \in Node : IInv /\ Write(n) => IInv'
<1> SUFFICES ASSUME NEW n \in Node, IInv, Write(n) PROVE IInv'
  OBVIOUS
<1>1. StoreTypes /\ CountsKept
  BY TypeParts DEF IInv
<1>2. StoreTypes'
  BY <1>1, RequestsAssumption DEF Write, StoreTypes
<1>3. n \notin written /\ n \notin stored /\ n \notin FirstNodes /\ n \notin Traced
  BY <1>1 DEF Write, StoreTypes, IInv, NodesWritten, SelectedOnce
<1>4. \A m \in Node : Made(m)' = Made(m) /\ Made(m) \in Nat
  BY <1>1, MadeKept, MadeType DEF Write
<1>5. accesses[n] = Made(n)
  <2>1. others[n] = 0 /\ accesses[n] <= highest[n] /\ highest[n] <= Made(n)
    BY <1>1, <1>3 DEF CountsKept
  <2>2. Made(n) = 0
    BY <1>3, <2>1 DEF Made
  <2> QED
    BY <1>1, <2>1, <2>2 DEF StoreTypes
<1>6. CountsKept'
  BY <1>1, <1>4, <1>5 DEF Write, CountsKept, StoreTypes
<1>7. Pending'
  BY <1>1, <1>2, PendingKept DEF Write, StoreTypes
<1>8. FlatQueue' /\ EmptyMeansNothingFits'
  BY <1>3, FitKept DEF Write, MayFit
<1> QED
  BY <1>2, <1>6, <1>7, <1>8, CallKept, TypeParts DEF IInv, Write

LEMMA MarkStaleStep == \A s \in Summary : IInv /\ MarkStale(s) => IInv'
<1> SUFFICES ASSUME NEW s \in Summary, IInv, MarkStale(s) PROVE IInv'
  OBVIOUS
<1>1. StoreTypes /\ CountsKept
  BY TypeParts DEF IInv
<1>2. StoreTypes'
  BY <1>1, RequestsAssumption DEF MarkStale, StoreTypes
<1>3. \A n : Made(n)' = Made(n)
  BY MadeKept DEF MarkStale
<1>4. CountsKept'
  BY <1>1, <1>3 DEF MarkStale, CountsKept
<1>5. Pending'
  BY <1>1, <1>2, PendingKept DEF MarkStale, StoreTypes
<1>6. FlatQueue' /\ EmptyMeansNothingFits'
  BY FitKept DEF MarkStale, MayFit
<1> QED
  BY <1>2, <1>4, <1>5, <1>6, CallKept, TypeParts DEF IInv, MarkStale

LEMMA OtherMarksStep == \A n \in Node : IInv /\ OtherMarks(n) => IInv'
<1> SUFFICES ASSUME NEW n \in Node, IInv, OtherMarks(n) PROVE IInv'
  OBVIOUS
<1>1. StoreTypes /\ CountsKept /\ n \in stored
  BY TypeParts DEF IInv, OtherMarks
<1>2. PICK k \in 0..highest[n] :
        /\ accesses' = [accesses EXCEPT ![n] = k + 1]
        /\ highest' = [highest EXCEPT ![n] = AtLeast(@, k + 1)]
        /\ Outdates(n, k)
  BY DEF OtherMarks
<1>3. k \in Nat /\ k <= highest[n]
  BY <1>1, <1>2 DEF StoreTypes
<1>4. others' = [others EXCEPT ![n] = @ + 1] /\ UNCHANGED <<stored, stale, written, deleted>>
      /\ UNCHANGED <<request, stage, probe, descent, queue, selection, context>>
  BY DEF OtherMarks
<1>5. others' \in [Node -> Nat] /\ \A m \in Node \ written : others'[m] = 0
  BY <1>1, <1>4 DEF StoreTypes, CountsKept
<1>6. \A m \in Node : Made(m)' = IF m = n THEN Made(m) + 1 ELSE Made(m)
  <2>1. Traced' = Traced /\ marking' = marking
    BY <1>4 DEF Traced, selection
  <2> QED
    BY <1>1, <1>4, <2>1 DEF Made, StoreTypes
<1>7. changes' \in 0..MaxChanges
  BY <1>1, RequestsAssumption DEF OtherMarks, StoreTypes
<1>8. StoreTypes' /\ CountsKept' /\ \A m \in Node : highest[m] <= highest'[m]
  BY <1>1, <1>2, <1>3, <1>4, <1>5, <1>6, <1>7, AccessCounted
<1>9. Pending'
  BY <1>4, <1>8, PendingKept
<1>10. FlatQueue' /\ EmptyMeansNothingFits'
  BY <1>4, FitKept DEF MayFit
<1> QED
  BY <1>4, <1>8, <1>9, <1>10, CallKept, TypeParts DEF IInv

LEMMA WriteBackStep == \A n \in Node : IInv /\ WriteBack(n) => IInv'
<1> SUFFICES ASSUME NEW n \in Node, IInv, WriteBack(n) PROVE IInv'
  OBVIOUS
<1>1. StoreTypes /\ CountsKept /\ n \in written
  BY TypeParts DEF IInv, WriteBack
<1>2. PICK k \in 0..highest[n] : accesses' = [accesses EXCEPT ![n] = k] /\ Outdates(n, k)
  BY DEF WriteBack
<1>3. stored' = stored \cup {n} /\ UNCHANGED <<written, highest, others, deleted>>
      /\ UNCHANGED <<request, stage, probe, descent, queue, selection, context>>
      /\ stale' \subseteq stale \cup ({n} \cap Summary) /\ outdated' \subseteq Node /\ outdated \subseteq outdated'
  BY <1>1, <1>2 DEF WriteBack, Outdates, StoreTypes
<1>4. accesses' \in [Node -> Nat] /\ changes' \in 0..MaxChanges
  BY <1>1, <1>2, RequestsAssumption DEF WriteBack, StoreTypes
<1>5. StoreTypes'
  BY <1>1, <1>3, <1>4 DEF StoreTypes
<1>6. \A m : Made(m)' = Made(m)
  BY <1>3, MadeKept
<1>7. \A m \in Node : accesses'[m] <= highest'[m] /\ highest'[m] <= Made(m)'
  BY <1>1, <1>2, <1>3, <1>6 DEF StoreTypes, CountsKept
<1>8. n \notin stored => n \in deleted
  BY <1>1 DEF CountsKept
<1>9. ASSUME NEW m \in stored' \ (deleted' \cup outdated') PROVE accesses'[m] = Made(m)'
  <2>1. m \in stored \ (deleted \cup outdated) /\ m \in Node /\ (m = n => k = accesses[n])
    BY <1>1, <1>2, <1>3, <1>8 DEF Outdates, StoreTypes
  <2> QED
    BY <1>1, <1>2, <1>6, <2>1 DEF CountsKept, StoreTypes
<1>10. CountsKept'
  BY <1>1, <1>3, <1>7, <1>9 DEF CountsKept
<1>11. Pending'
  BY <1>1, <1>3, <1>5, PendingKept DEF StoreTypes
<1>12. FlatQueue' /\ EmptyMeansNothingFits'
  BY <1>3, <1>8, FitKept DEF MayFit
<1> QED
  BY <1>3, <1>5, <1>10, <1>11, <1>12, CallKept, TypeParts DEF IInv

-----------------------------------------------------------------------------
(* Steps that select nothing *)

LEMMA SelectionKept ==
  ASSUME IInv, UNCHANGED <<store, request, selection>>,
         stage \in {"pack", "done", "failed"} => stage' \in {"pack", "done", "failed"}
  PROVE  /\ StoreTypes' /\ SelectionTypes' /\ (request \in Request)' /\ SelectedOnce'
         /\ WithinBudget' /\ CountsKept' /\ Pending'
         /\ PickedNodes' = PickedNodes /\ written' = written /\ picked' = picked
         /\ consumed' = consumed /\ \A n \in Node : MayFit(n)' <=> MayFit(n)
<1>1. StoreTypes /\ SelectionTypes /\ request \in Request
  BY TypeParts DEF IInv, ProbeTypes
<1>2. StoreTypes' /\ SelectionTypes' /\ (request \in Request)'
  BY <1>1 DEF StoreTypes, SelectionTypes, store, selection
<1>3. SelectedOnce' /\ PickedNodes' = PickedNodes /\ picked' = picked /\ consumed' = consumed
  BY SelectedKept DEF IInv, selection
<1>4. WithinBudget'
  BY DEF IInv, WithinBudget, BudgetKept, selection
<1>5. CountsKept' /\ Pending'
  <2>1. \A n : Made(n)' = Made(n)
    BY MadeKept DEF store
  <2>2. CountsKept'
    BY <2>1 DEF IInv, CountsKept, store
  <2>3. Pending'
    BY <1>1, <1>2, PendingKept DEF StoreTypes, store
  <2> QED
    BY <2>2, <2>3
<1>6. written' = written /\ \A n \in Node : MayFit(n)' <=> MayFit(n)
  BY DEF MayFit, store
<1> QED
  BY <1>2, <1>3, <1>4, <1>5, <1>6

LEMMA ReceiveStep == \A r \in Request : IInv /\ Receive(r) => IInv'
<1> SUFFICES ASSUME NEW r \in Request, IInv, Receive(r) PROVE IInv'
  OBVIOUS
<1>0. /\ StoreTypes /\ ProbeTypes /\ DescentTypes /\ SelectionTypes /\ ContextTypes
      /\ stage \in Stage /\ queue \in Seq(Node) /\ spent \in 0..consumed
  BY TypeParts DEF IInv
<1>1. StoreTypes' /\ SelectionTypes' /\ (stage \in Stage)'
  BY <1>0 DEF Receive, StoreTypes, SelectionTypes, store, selection, Stage
<1>2. ProbeTypes' /\ DescentTypes' /\ (queue \in Seq(Node))' /\ (spent \in 0..consumed)'
  BY <1>0 DEF Receive, ProbeTypes, DescentTypes, probe, descent, selection
<1>3. ContextTypes'
  BY <1>0, RequestsAssumption DEF Receive, ContextTypes
<1>4. Fresh' /\ BranchOpen'
  BY DEF Receive, IInv, Fresh, BranchOpen, descent, selection
<1>5. SelectedOnce'
  BY SelectedKept DEF Receive, IInv
<1>10. consumed' = 0
  BY DEF Receive, IInv, Fresh, SelectedOnce, selection
<1>6. WithinBudget'
  BY <1>10, RequestsAssumption DEF Receive, WithinBudget, BudgetKept, selection
<1>7. NodesWritten'
  BY DEF Receive, IInv, NodesWritten, PickedNodes, store, probe, descent, selection
<1>8. CountsKept' /\ Pending'
  <2>1. \A n : Made(n)' = Made(n)
    BY MadeKept DEF Receive, store
  <2>2. CountsKept'
    BY <2>1 DEF Receive, IInv, CountsKept, store
  <2>3. Pending'
    BY <1>0, <1>1, PendingKept DEF Receive, StoreTypes, store
  <2> QED
    BY <2>2, <2>3
<1>9. FlatQueue' /\ EmptyMeansNothingFits'
  BY DEF Receive, FlatQueue, EmptyMeansNothingFits
<1> QED
  BY <1>1, <1>2, <1>3, <1>4, <1>5, <1>6, <1>7, <1>8, <1>9, TypeParts DEF IInv

LEMMA RouteQueryStep == IInv /\ RouteQuery => IInv'
<1> SUFFICES ASSUME IInv, RouteQuery PROVE IInv'
  OBVIOUS
<1>0. /\ ProbeTypes /\ DescentTypes /\ ContextTypes
      /\ stage \in Stage /\ queue \in Seq(Node) /\ spent \in 0..consumed
  BY TypeParts DEF IInv
<1>1. UNCHANGED <<store, request, selection>> /\ stage = "route" /\ stage' \in {"flatList", "probe"}
  BY DEF RouteQuery
<1>2. /\ ProbeTypes' /\ DescentTypes' /\ ContextTypes'
      /\ (stage \in Stage)' /\ (queue \in Seq(Node))' /\ (spent \in 0..consumed)'
  BY <1>0, <1>1 DEF RouteQuery, ProbeTypes, DescentTypes, ContextTypes, Stage, descent,
                    selection, context
<1>3. Fresh' /\ BranchOpen' /\ FlatQueue' /\ EmptyMeansNothingFits'
  BY <1>1 DEF RouteQuery, IInv, Fresh, BranchOpen, FlatQueue, EmptyMeansNothingFits,
              descent, selection
<1>4. NodesWritten'
  BY DEF RouteQuery, IInv, NodesWritten, PickedNodes, store, descent, selection
<1> QED
  BY <1>1, <1>2, <1>3, <1>4, SelectionKept, TypeParts DEF IInv

LEMMA ListSummariesStep == IInv /\ ListSummaries => IInv'
<1> SUFFICES ASSUME IInv, ListSummaries PROVE IInv'
  OBVIOUS
<1>0. /\ ProbeTypes /\ DescentTypes /\ ContextTypes /\ StoreTypes
      /\ stage \in Stage /\ queue \in Seq(Node) /\ spent \in 0..consumed
  BY TypeParts DEF IInv
<1>1. UNCHANGED <<store, request, selection>> /\ stage = "list" /\ stage' = "branch"
  BY DEF ListSummaries
<1>2. PICK ranked \in Ranked(Live(Summary), [s \in Summary |-> SummaryScore(s)], Listed) :
        summaries' = SubSeq(ranked, 1, AtMost(BranchLimit, Len(ranked)))
  BY DEF ListSummaries
<1>3. ranked \in Seq(Live(Summary))
  BY LiveFinite, RankedLists DEF Node
<1>4. AtMost(BranchLimit, Len(ranked)) \in Int /\ AtMost(BranchLimit, Len(ranked)) <= Len(ranked)
  BY <1>3, BranchLimitType DEF IInv, AtMost
<1>5. summaries' \in Seq(Live(Summary))
  BY <1>2, <1>3, <1>4, SubSeqProperties
<1>6. Live(Summary) \subseteq Summary /\ Live(Summary) \subseteq written
  BY <1>0 DEF Live, StoreTypes
<1>7. summaries' \in Seq(Summary) /\ Range(summaries') \subseteq written
  BY <1>5, <1>6 DEF Range
<1>8. branch = 1 /\ branch' = branch
  BY <1>1 DEF IInv, Fresh, ListSummaries
<1>9. (branch \in 1..Len(summaries) + 1)'
  BY <1>7, <1>8
<1>10. /\ ProbeTypes' /\ DescentTypes' /\ ContextTypes'
       /\ (stage \in Stage)' /\ (queue \in Seq(Node))' /\ (spent \in 0..consumed)'
  BY <1>0, <1>1, <1>7, <1>9 DEF ListSummaries, ProbeTypes, DescentTypes, ContextTypes, Stage,
                               probe, selection, context
<1>11. Fresh' /\ BranchOpen' /\ FlatQueue' /\ EmptyMeansNothingFits'
  BY <1>1 DEF Fresh, BranchOpen, FlatQueue, EmptyMeansNothingFits
<1>12. NodesWritten'
  BY <1>7 DEF ListSummaries, IInv, NodesWritten, PickedNodes, store, probe, selection
<1> QED
  BY <1>1, <1>10, <1>11, <1>12, SelectionKept, TypeParts DEF IInv

LEMMA OpenBranchStep == IInv /\ OpenBranch => IInv'
<1> SUFFICES ASSUME IInv, OpenBranch PROVE IInv'
  OBVIOUS
<1>0. /\ ProbeTypes /\ DescentTypes /\ ContextTypes /\ SelectionTypes
      /\ stage \in Stage /\ queue \in Seq(Node) /\ spent \in 0..consumed
  BY TypeParts DEF IInv
<1>1. /\ UNCHANGED <<store, request, selection>> /\ stage = "branch"
      /\ UNCHANGED <<probe, summaries, branch, queue, context>>
  BY DEF OpenBranch
<1>2. \/ stage' = "supplement" /\ UNCHANGED <<unread, children, spent>>
      \/ /\ stage' = "read" /\ spent' = 0 /\ branch \in 1..Len(summaries)
         /\ unread' = ChildIds[summaries[branch]] /\ children' = {}
  BY <1>0 DEF OpenBranch, DescentTypes
<1>3. unread' \in Seq(Leaf) /\ children' \subseteq children
  BY <1>0, <1>2, NodesAssumption DEF DescentTypes
<1>4. /\ ProbeTypes' /\ DescentTypes' /\ ContextTypes'
      /\ (queue \in Seq(Node))' /\ (spent \in 0..consumed)'
  BY <1>0, <1>1, <1>2, <1>3 DEF ProbeTypes, DescentTypes, ContextTypes, SelectionTypes,
                               probe, selection, context
<1>5. stage' \in Stage /\ stage' \in {"supplement", "read"}
  BY <1>2 DEF Stage
<1>6. Fresh' /\ BranchOpen' /\ FlatQueue' /\ EmptyMeansNothingFits'
  BY <1>0, <1>1, <1>2 DEF Fresh, BranchOpen, FlatQueue, EmptyMeansNothingFits
<1>7. NodesWritten'
  BY <1>1, <1>3 DEF IInv, NodesWritten, PickedNodes, store, probe, selection
<1> QED
  BY <1>1, <1>4, <1>5, <1>6, <1>7, SelectionKept, TypeParts DEF IInv

LEMMA ReadChildStep == IInv /\ ReadChild => IInv'
<1> SUFFICES ASSUME IInv, ReadChild PROVE IInv'
  OBVIOUS
<1>0. /\ ProbeTypes /\ DescentTypes /\ ContextTypes /\ StoreTypes
      /\ stage \in Stage /\ queue \in Seq(Node) /\ spent \in 0..consumed
  BY TypeParts DEF IInv
<1>1. /\ UNCHANGED <<store, request, selection>> /\ stage = "read" /\ stage' = stage
      /\ UNCHANGED <<probe, summaries, branch, spent, queue, context>>
  BY DEF ReadChild
<1>2. /\ unread # <<>> /\ unread' = Tail(unread)
      /\ children' = children \cup ({Head(unread)} \cap stored)
  BY DEF ReadChild
<1>3. unread' \in Seq(Leaf) /\ Head(unread) \in Leaf
  BY <1>0, <1>2, HeadTailProperties DEF DescentTypes
<1>4. /\ ProbeTypes' /\ DescentTypes' /\ ContextTypes'
      /\ (stage \in Stage)' /\ (queue \in Seq(Node))' /\ (spent \in 0..consumed)'
  BY <1>0, <1>1, <1>2, <1>3 DEF ProbeTypes, DescentTypes, ContextTypes, probe, selection, context
<1>5. Fresh' /\ BranchOpen' /\ FlatQueue' /\ EmptyMeansNothingFits'
  BY <1>1 DEF IInv, Fresh, BranchOpen, FlatQueue, EmptyMeansNothingFits
<1>6. NodesWritten'
  BY <1>0, <1>1, <1>2 DEF IInv, NodesWritten, PickedNodes, StoreTypes, store, probe, selection
<1> QED
  BY <1>1, <1>4, <1>5, <1>6, SelectionKept, TypeParts DEF IInv

LEMMA DescendStep == IInv /\ Descend => IInv'
<1> SUFFICES ASSUME IInv, Descend PROVE IInv'
  OBVIOUS
<1>0. /\ ProbeTypes /\ DescentTypes /\ ContextTypes
      /\ stage \in Stage /\ queue \in Seq(Node) /\ spent \in 0..consumed
  BY TypeParts DEF IInv
<1>1. /\ UNCHANGED <<store, request, selection>> /\ stage = "read"
      /\ UNCHANGED <<probe, descent, context>>
  BY DEF Descend
<1>2. PICK ranked \in Ranked(children, [n \in children |-> ChildScore(n, entities)],
                             [n \in children |-> ChildPosition(n)]) :
        LET fitting == {i \in DOMAIN ranked : Tokens(ranked[i]) <= Allowance}
        IN IF fitting # {} /\ Descends(summaries[branch], ranked[Min(fitting)])
           THEN stage' = "add" /\ queue' = ChildrenToAdd(ranked)
           ELSE stage' = "summary" /\ UNCHANGED queue
  BY DEF Descend
<1>3. \/ stage' = "add" /\ ranked # <<>> /\ queue' = ChildrenToAdd(ranked)
      \/ stage' = "summary" /\ queue' = queue
  BY <1>2
<1>4. children \in SUBSET Node /\ IsFiniteSet(children) /\ children \subseteq written
  BY <1>0, NodesAssumption, FS_Subset DEF DescentTypes, IInv, NodesWritten, Node
<1>5. ranked \in Seq(children)
  BY <1>4, RankedLists
<1>6. queue' = queue \/ queue' \in Seq(children)
  BY <1>3, <1>4, <1>5, ChildrenToAddType
<1>7. queue' \in Seq(Node) /\ Range(queue') \subseteq written
  <2>1. CASE queue' = queue
    BY <2>1, <1>0 DEF IInv, NodesWritten
  <2>2. CASE queue' \in Seq(children)
    BY <2>2, <1>4, SeqMonotonic DEF Range
  <2> QED
    BY <1>6, <2>1, <2>2
<1>8. /\ ProbeTypes' /\ DescentTypes' /\ ContextTypes' /\ (spent \in 0..consumed)'
  BY <1>0, <1>1 DEF ProbeTypes, DescentTypes, ContextTypes, probe, descent, selection, context
<1>9. stage' \in Stage /\ stage' \in {"add", "summary"}
  BY <1>3 DEF Stage
<1>10. Fresh' /\ BranchOpen' /\ FlatQueue' /\ EmptyMeansNothingFits'
  BY <1>1, <1>9 DEF IInv, Fresh, BranchOpen, FlatQueue, EmptyMeansNothingFits, descent
<1>11. NodesWritten'
  BY <1>1, <1>7 DEF IInv, NodesWritten, PickedNodes, store, probe, descent, selection
<1> QED
  BY <1>1, <1>7, <1>8, <1>9, <1>10, <1>11, SelectionKept, TypeParts DEF IInv

(* Nodes taken from the head of the queue leave a queue of nodes. *)
LEMMA QueueTail ==
  ASSUME IInv, queue # <<>>
  PROVE  /\ Head(queue) \in Node /\ Head(queue) \in written /\ Head(queue) \in Range(queue)
         /\ Tail(queue) \in Seq(Node) /\ Range(Tail(queue)) \subseteq Range(queue)
         /\ Range(Tail(queue)) \subseteq written
         /\ \A n \in Range(queue) : n = Head(queue) \/ n \in Range(Tail(queue))
         /\ IsInjective(queue) =>
              IsInjective(Tail(queue)) /\ Head(queue) \notin Range(Tail(queue))
<1>1. queue \in Seq(Node) /\ Range(queue) \subseteq written
  BY TypeParts DEF IInv, NodesWritten
<1>2. /\ Tail(queue) \in Seq(Node) /\ Head(queue) \in Node /\ Len(Tail(queue)) = Len(queue) - 1
      /\ \A i \in 1..Len(Tail(queue)) : Tail(queue)[i] = queue[i + 1]
  BY <1>1, HeadTailProperties
<1>3. Head(queue) = queue[1] /\ Len(queue) \in Nat \ {0} /\ DOMAIN queue = 1..Len(queue)
  BY <1>1, EmptySeq
<1>4. DOMAIN Tail(queue) = 1..Len(Tail(queue))
  BY <1>2
<1>5. Head(queue) \in Range(queue)
  BY <1>3 DEF Range
<1>6. Range(Tail(queue)) \subseteq Range(queue)
  BY <1>2, <1>3, <1>4 DEF Range
<1>7. \A n \in Range(queue) : n = Head(queue) \/ n \in Range(Tail(queue))
  <2> SUFFICES ASSUME NEW i \in 1..Len(queue), i # 1
               PROVE  queue[i] \in Range(Tail(queue))
    BY <1>3 DEF Range
  <2>1. i - 1 \in DOMAIN Tail(queue) /\ Tail(queue)[i - 1] = queue[i]
    BY <1>2, <1>3, <1>4
  <2> QED
    BY <2>1 DEF Range
<1>8. IsInjective(queue) =>
        IsInjective(Tail(queue)) /\ Head(queue) \notin Range(Tail(queue))
  BY <1>2, <1>3, <1>4 DEF IsInjective, Range
<1> QED
  BY <1>1, <1>2, <1>5, <1>6, <1>7, <1>8

LEMMA SkipChildStep == IInv /\ SkipChild => IInv'
<1> SUFFICES ASSUME IInv, SkipChild PROVE IInv'
  OBVIOUS
<1>0. /\ ProbeTypes /\ DescentTypes /\ ContextTypes
      /\ stage \in Stage /\ spent \in 0..consumed
  BY TypeParts DEF IInv
<1>1. /\ UNCHANGED <<store, request, selection>> /\ stage = "add" /\ stage' = stage
      /\ UNCHANGED <<probe, descent, context>> /\ queue # <<>> /\ queue' = Tail(queue)
  BY DEF SkipChild
<1>2. /\ ProbeTypes' /\ DescentTypes' /\ ContextTypes' /\ (stage \in Stage)'
      /\ (spent \in 0..consumed)'
  BY <1>0, <1>1 DEF ProbeTypes, DescentTypes, ContextTypes, probe, descent, selection, context
<1>3. (queue \in Seq(Node))' /\ Range(queue') \subseteq written
  BY <1>1, QueueTail
<1>4. Fresh' /\ BranchOpen' /\ FlatQueue' /\ EmptyMeansNothingFits'
  BY <1>1 DEF IInv, Fresh, BranchOpen, FlatQueue, EmptyMeansNothingFits, descent, selection
<1>5. NodesWritten'
  BY <1>1, <1>3 DEF IInv, NodesWritten, PickedNodes, store, probe, descent, selection
<1> QED
  BY <1>1, <1>2, <1>3, <1>4, <1>5, SelectionKept, TypeParts DEF IInv

(* The branch that is done, or to which nothing could be added. *)
LEMMA ChildrenAddedStep == IInv /\ ChildrenAdded => IInv'
<1> SUFFICES ASSUME IInv, ChildrenAdded PROVE IInv'
  OBVIOUS
<1>0. /\ ProbeTypes /\ DescentTypes /\ ContextTypes
      /\ stage \in Stage /\ queue \in Seq(Node) /\ spent \in 0..consumed
  BY TypeParts DEF IInv
<1>1. /\ UNCHANGED <<store, request, selection>> /\ stage = "add"
      /\ UNCHANGED <<probe, summaries, unread, children, spent, queue, context>>
  BY DEF ChildrenAdded
<1>2. \/ stage' = "branch" /\ branch' = branch + 1
      \/ stage' = "summary" /\ branch' = branch /\ spent = 0
  BY <1>0 DEF ChildrenAdded, NextBranch
<1>3. branch <= Len(summaries)
  BY <1>1 DEF IInv, BranchOpen
<1>4. (branch \in 1..Len(summaries) + 1)'
  BY <1>0, <1>1, <1>2, <1>3 DEF DescentTypes
<1>5. /\ ProbeTypes' /\ DescentTypes' /\ ContextTypes'
      /\ (queue \in Seq(Node))' /\ (spent \in 0..consumed)'
  BY <1>0, <1>1, <1>4 DEF ProbeTypes, DescentTypes, ContextTypes, probe, selection, context
<1>6. stage' \in Stage /\ stage' \in {"branch", "summary"}
  BY <1>2 DEF Stage
<1>7. Fresh' /\ BranchOpen' /\ FlatQueue' /\ EmptyMeansNothingFits'
  BY <1>1, <1>2, <1>3 DEF Fresh, BranchOpen, FlatQueue, EmptyMeansNothingFits
<1>8. NodesWritten'
  BY <1>1 DEF IInv, NodesWritten, PickedNodes, store, probe, selection
<1> QED
  BY <1>1, <1>5, <1>6, <1>7, <1>8, SelectionKept, TypeParts DEF IInv

-----------------------------------------------------------------------------
(* Flat retrieval and packing *)

LEMMA ListFlatStep == IInv /\ ListFlat => IInv'
<1> SUFFICES ASSUME IInv, ListFlat PROVE IInv'
  OBVIOUS
<1>0. /\ ProbeTypes /\ DescentTypes /\ ContextTypes /\ StoreTypes
      /\ stage \in Stage /\ queue \in Seq(Node) /\ spent \in 0..consumed
  BY TypeParts DEF IInv
<1>1. /\ UNCHANGED <<store, request, selection>> /\ stage = "flatList" /\ stage' = "flat"
      /\ UNCHANGED <<probe, descent, context>>
      /\ queue' \in Ranked(Live(Leaf), [n \in Leaf |-> FlatScore(n)], Listed)
  BY DEF ListFlat
<1>2. Live(Leaf) \subseteq Node /\ IsFiniteSet(Live(Leaf)) /\ Live(Leaf) \subseteq written
  BY <1>0, LiveFinite DEF Node, StoreTypes
<1>3. queue' \in Seq(Live(Leaf)) /\ Range(queue') = Live(Leaf) /\ IsInjective(queue')
  BY <1>1, <1>2, RankedLists
<1>4. /\ ProbeTypes' /\ DescentTypes' /\ ContextTypes' /\ (spent \in 0..consumed)'
  BY <1>0, <1>1 DEF ProbeTypes, DescentTypes, ContextTypes, probe, descent, selection, context
<1>5. (stage \in Stage)' /\ (queue \in Seq(Node))'
  BY <1>1, <1>2, <1>3, SeqMonotonic DEF Stage
<1>6. picked = <<>> /\ PickedNodes = {}
  BY <1>1 DEF IInv, Fresh, PickedNodes
<1>7. \A n \in Node : MayFit(n) => n \in Live(Leaf)
  BY <1>0, NodesAssumption DEF MayFit, Live, StoreTypes
<1>8. FlatQueue'
  BY <1>1, <1>3, <1>6, <1>7, SelectionKept DEF FlatQueue
<1>9. Fresh' /\ BranchOpen' /\ EmptyMeansNothingFits'
  BY <1>1 DEF Fresh, BranchOpen, EmptyMeansNothingFits
<1>10. NodesWritten'
  BY <1>1, <1>2, <1>3 DEF IInv, NodesWritten, PickedNodes, store, probe, descent, selection
<1> QED
  BY <1>1, <1>4, <1>5, <1>8, <1>9, <1>10, SelectionKept, TypeParts DEF IInv

LEMMA SkipFlatStep == IInv /\ SkipFlat => IInv'
<1> SUFFICES ASSUME IInv, SkipFlat PROVE IInv'
  OBVIOUS
<1>0. /\ ProbeTypes /\ DescentTypes /\ ContextTypes
      /\ stage \in Stage /\ spent \in 0..consumed
  BY TypeParts DEF IInv
<1>1. /\ UNCHANGED <<store, request, selection>> /\ stage = "flat" /\ stage' = stage
      /\ UNCHANGED <<probe, descent, context>> /\ queue # <<>> /\ queue' = Tail(queue)
      /\ ~FlatFits(Head(queue))
  BY DEF SkipFlat
<1>2. /\ ProbeTypes' /\ DescentTypes' /\ ContextTypes' /\ (stage \in Stage)'
      /\ (spent \in 0..consumed)'
  BY <1>0, <1>1 DEF ProbeTypes, DescentTypes, ContextTypes, probe, descent, selection, context
<1>3. (queue \in Seq(Node))' /\ Range(queue') \subseteq written
  BY <1>1, QueueTail
<1>4. picked = <<>> => ~MayFit(Head(queue))
  <2>1. Tokens(Head(queue)) \in Nat /\ request.budget \in Nat
    BY <1>0, <1>1, QueueTail, TokensType, RequestsAssumption DEF ProbeTypes
  <2> QED
    BY <1>1, <2>1 DEF IInv, SelectedOnce, FlatFits, MayFit
<1>5. FlatQueue'
  BY <1>1, <1>4, QueueTail, SelectionKept DEF IInv, FlatQueue
<1>6. Fresh' /\ BranchOpen' /\ EmptyMeansNothingFits'
  BY <1>1 DEF Fresh, BranchOpen, EmptyMeansNothingFits
<1>7. NodesWritten'
  BY <1>1, <1>3 DEF IInv, NodesWritten, PickedNodes, store, probe, descent, selection
<1> QED
  BY <1>1, <1>2, <1>3, <1>5, <1>6, <1>7, SelectionKept, TypeParts DEF IInv

LEMMA PickedTypes ==
  ASSUME IInv
  PROVE  /\ Len(picked) \in Nat /\ DOMAIN picked = 1..Len(picked)
         /\ \A i \in DOMAIN picked :
              picked[i] \in [node : Node, score : Int] /\ picked[i].node \in Node
         /\ picked # <<>> => Len(picked) # 0
<1> DEFINE Picks == [node : Node, score : Int]
<1>1. picked \in Seq(Picks) /\ \A pick \in Picks : pick.node \in Node
  BY TypeParts DEF IInv, SelectionTypes
<1> HIDE DEF Picks
<1>2. /\ Len(picked) \in Nat /\ DOMAIN picked = 1..Len(picked)
      /\ \A i \in 1..Len(picked) : picked[i] \in Picks
      /\ picked # <<>> => Len(picked) # 0
  BY <1>1, LenProperties, ElementOfSeq, EmptySeq
<1>3. \A i \in DOMAIN picked : picked[i] \in Picks /\ picked[i].node \in Node
  BY <1>1, <1>2
<1> QED
  BY <1>2, <1>3 DEF Picks

(* The nodes of the selection are nodes, and were written. *)
LEMMA PickedQueue ==
  ASSUME IInv
  PROVE  /\ [i \in DOMAIN picked |-> picked[i].node] \in Seq(Node)
         /\ Range([i \in DOMAIN picked |-> picked[i].node]) = PickedNodes
<1>1. [i \in 1..Len(picked) |-> picked[i].node] \in Seq(Node)
  BY PickedTypes
<1> QED
  BY <1>1, PickedTypes DEF Range, PickedNodes

LEMMA FlatLimitType == IInv => FlatLimit \in Nat
<1> SUFFICES ASSUME IInv PROVE FlatLimit \in Nat
  OBVIOUS
<1>1. request.limit \in Nat /\ legacy \in BOOLEAN
  BY TypeParts, RequestsAssumption DEF IInv, ProbeTypes
<1>2. FlatSelectedAs \in {"flat_memory", "query_router_flat", "flat_fallback"}
  BY <1>1 DEF FlatSelectedAs
<1> QED
  BY <1>1, <1>2 DEF FlatLimit, AtMost

LEMMA FlatEndsStep == IInv /\ FlatEnds => IInv'
<1> SUFFICES ASSUME IInv, FlatEnds PROVE IInv'
  OBVIOUS
<1>0. /\ ProbeTypes /\ DescentTypes /\ ContextTypes /\ SelectionTypes
      /\ stage \in Stage /\ spent \in 0..consumed
  BY TypeParts DEF IInv
<1>1. /\ UNCHANGED <<store, request, selection>> /\ stage = "flat" /\ stage' = "pack"
      /\ UNCHANGED <<probe, descent, context>>
      /\ queue = <<>> \/ Len(picked) >= FlatLimit
      /\ queue' = [i \in DOMAIN picked |-> picked[i].node]
  BY DEF FlatEnds
<1>2. /\ ProbeTypes' /\ DescentTypes' /\ ContextTypes' /\ (stage \in Stage)'
      /\ (spent \in 0..consumed)'
  BY <1>0, <1>1 DEF ProbeTypes, DescentTypes, ContextTypes, Stage, probe, descent, selection,
                    context
<1>3. (queue \in Seq(Node))' /\ Range(queue') \subseteq written
  BY <1>1, PickedQueue DEF IInv, NodesWritten
<1>4. picked = <<>> => FlatLimit = 0 \/ \A n \in Node : ~MayFit(n)
  <2>1. CASE queue = <<>>
    BY <1>1, <2>1 DEF IInv, FlatQueue, Range
  <2>2. CASE Len(picked) >= FlatLimit
    BY <2>2, FlatLimitType
  <2> QED
    BY <1>1, <2>1, <2>2
<1>5. FlatLimit' = FlatLimit
  BY <1>1 DEF FlatLimit, FlatSelectedAs, q, probe
<1>6. Fresh' /\ BranchOpen' /\ FlatQueue' /\ EmptyMeansNothingFits'
  BY <1>1, <1>4, <1>5, SelectionKept DEF Fresh, BranchOpen, FlatQueue, EmptyMeansNothingFits
<1>7. NodesWritten'
  BY <1>1, <1>3 DEF IInv, NodesWritten, PickedNodes, store, probe, descent, selection
<1> QED
  BY <1>1, <1>2, <1>3, <1>6, <1>7, SelectionKept, TypeParts DEF IInv

LEMMA PackNodeStep == IInv /\ PackNode => IInv'
<1> SUFFICES ASSUME IInv, PackNode PROVE IInv'
  OBVIOUS
<1>0. /\ ProbeTypes /\ DescentTypes /\ ContextTypes
      /\ stage \in Stage /\ spent \in 0..consumed
  BY TypeParts DEF IInv
<1>1. /\ UNCHANGED <<store, request, stage, probe, descent, selection>>
      /\ stage = "pack" /\ queue # <<>> /\ queue' = Tail(queue)
  BY DEF PackNode
<1>2. \/ packed' = packed /\ used' = used
      \/ packed' = Append(packed, Head(queue)) /\ used' = used + SnippetTokens(Head(queue))
  BY DEF PackNode, context
<1>3. Head(queue) \in Node /\ SnippetTokens(Head(queue)) \in Nat
  BY <1>1, QueueTail, TokensType DEF SnippetTokens
<1>4. ContextTypes'
  <2>1. Append(packed, Head(queue)) \in Seq(Node)
    BY <1>0, <1>3, AppendProperties DEF ContextTypes
  <2>2. used + SnippetTokens(Head(queue)) \in Nat
    BY <1>0, <1>3 DEF ContextTypes
  <2> QED
    BY <1>0, <1>2, <2>1, <2>2 DEF ContextTypes
<1>5. /\ ProbeTypes' /\ DescentTypes' /\ (stage \in Stage)' /\ (spent \in 0..consumed)'
  BY <1>0, <1>1 DEF ProbeTypes, DescentTypes, probe, descent, selection
<1>6. (queue \in Seq(Node))' /\ Range(queue') \subseteq written
  BY <1>1, QueueTail
<1>7. FlatLimit' = FlatLimit
  BY <1>1 DEF FlatLimit, FlatSelectedAs, q, probe
<1>8. Fresh' /\ BranchOpen' /\ FlatQueue' /\ EmptyMeansNothingFits'
  BY <1>1, <1>7, SelectionKept DEF IInv, Fresh, BranchOpen, FlatQueue, EmptyMeansNothingFits
<1>9. NodesWritten'
  BY <1>1, <1>6 DEF IInv, NodesWritten, PickedNodes, store, probe, descent, selection
<1> QED
  BY <1>1, <1>4, <1>5, <1>6, <1>8, <1>9, SelectionKept, TypeParts DEF IInv

LEMMA AnswerStep == IInv /\ Answer => IInv'
<1> SUFFICES ASSUME IInv, Answer PROVE IInv'
  OBVIOUS
<1>0. /\ ProbeTypes /\ DescentTypes /\ ContextTypes
      /\ queue \in Seq(Node) /\ spent \in 0..consumed
  BY TypeParts DEF IInv
<1>1. /\ UNCHANGED <<store, request, probe, descent, queue, selection, context>>
      /\ stage = "pack" /\ stage' = "done"
  BY DEF Answer
<1>2. /\ ProbeTypes' /\ DescentTypes' /\ ContextTypes' /\ (stage \in Stage)'
      /\ (queue \in Seq(Node))' /\ (spent \in 0..consumed)'
  BY <1>0, <1>1 DEF ProbeTypes, DescentTypes, ContextTypes, Stage, probe, descent, selection,
                    context
<1>3. FlatLimit' = FlatLimit
  BY <1>1 DEF FlatLimit, FlatSelectedAs, q, probe
<1>4. Fresh' /\ BranchOpen' /\ FlatQueue' /\ EmptyMeansNothingFits'
  BY <1>1, <1>3, SelectionKept DEF IInv, Fresh, BranchOpen, FlatQueue, EmptyMeansNothingFits
<1>5. NodesWritten'
  BY <1>1 DEF IInv, NodesWritten, PickedNodes, store, probe, descent, selection
<1> QED
  BY <1>1, <1>2, <1>4, <1>5, SelectionKept, TypeParts DEF IInv

(* A permutation of a selection is about the same nodes. *)
LEMMA FinishStep == IInv /\ Finish => IInv'
<1> SUFFICES ASSUME IInv, Finish PROVE IInv'
  OBVIOUS
<1>0. /\ ProbeTypes /\ DescentTypes /\ ContextTypes /\ SelectionTypes /\ StoreTypes
      /\ stage \in Stage /\ queue \in Seq(Node) /\ spent \in 0..consumed
  BY TypeParts DEF IInv
<1>1. /\ UNCHANGED <<store, request, probe, descent, consumed, trace, marks, context>>
      /\ stage = "finish"
  BY DEF Finish
<1>2. /\ ProbeTypes' /\ DescentTypes' /\ ContextTypes' /\ StoreTypes' /\ (spent \in 0..consumed)'
  BY <1>0, <1>1 DEF ProbeTypes, DescentTypes, ContextTypes, StoreTypes, probe, descent, store,
                    context
<1>3. CountsKept' /\ Pending'
  <2>1. \A n : Made(n)' = Made(n)
    BY <1>1 DEF Made, Traced, store, marks
  <2> QED
    BY <1>1, <2>1 DEF IInv, CountsKept, Pending, Traced, store, marks
<1>4. CASE picked = <<>>
  <2>1. stage' = "flatList" /\ picked' = picked /\ queue' = queue
    BY <1>4 DEF Finish
  <2>2. UNCHANGED selection
    BY <1>1, <2>1 DEF selection, marks
  <2>3. (stage \in Stage)' /\ (queue \in Seq(Node))'
    BY <1>0, <2>1 DEF Stage
  <2>4. Fresh' /\ BranchOpen' /\ FlatQueue' /\ EmptyMeansNothingFits'
    BY <1>4, <2>1 DEF Fresh, BranchOpen, FlatQueue, EmptyMeansNothingFits
  <2>5. NodesWritten'
    BY <1>1, <2>1 DEF IInv, NodesWritten, PickedNodes, store, probe, descent
  <2> QED
    BY <1>1, <1>2, <2>2, <2>3, <2>4, <2>5, SelectionKept, TypeParts DEF IInv
<1>5. CASE picked # <<>>
  <2>1. PICK order \in Ranked(DOMAIN picked, [i \in DOMAIN picked |-> picked[i].score],
                              [i \in DOMAIN picked |-> i]) :
          /\ picked' = [i \in DOMAIN picked |-> picked[order[i]]]
          /\ queue' = [i \in DOMAIN picked |-> picked[order[i]].node]
    BY <1>5 DEF Finish
  <2>2. stage' = "pack"
    BY <1>5 DEF Finish
  <2>3. /\ Len(picked) \in Nat \ {0} /\ DOMAIN picked = 1..Len(picked)
        /\ \A i \in DOMAIN picked : picked[i] \in [node : Node, score : Int]
    BY <1>5, PickedTypes
  <2>4. IsFiniteSet(DOMAIN picked) /\ Cardinality(DOMAIN picked) = Len(picked)
    BY <2>3, FS_Interval
  <2>5. /\ order \in Seq(DOMAIN picked) /\ Range(order) = DOMAIN picked /\ IsInjective(order)
        /\ Len(order) = Len(picked)
    BY <2>4, RankedLists
  <2>6. /\ DOMAIN order = DOMAIN picked
        /\ \A i \in DOMAIN picked : order[i] \in DOMAIN picked
    BY <2>3, <2>5 DEF Range
  <2>7. picked' \in Seq([node : Node, score : Int]) /\ DOMAIN picked' = DOMAIN picked
        /\ Len(picked') = Len(picked) /\ picked' # <<>>
    <3>1. picked' = [i \in 1..Len(picked) |-> picked[order[i]]]
      BY <2>1, <2>3
    <3>2. \A i \in 1..Len(picked) : picked[order[i]] \in [node : Node, score : Int]
      BY <2>3, <2>6
    <3>3. picked' \in [1..Len(picked) -> [node : Node, score : Int]]
      BY <3>1, <3>2
    <3>4. picked' \in Seq([node : Node, score : Int]) /\ Len(picked') = Len(picked)
      BY <2>3, <3>3, FunctionIsSeq
    <3> QED
      BY <2>3, <3>3, <3>4, EmptySeq
  <2>8. PickedNodes' = PickedNodes
    <3>1. \A i \in DOMAIN picked : picked'[i] = picked[order[i]]
      BY <2>1
    <3>2. \A n \in PickedNodes' : n \in PickedNodes
      BY <2>6, <2>7, <3>1 DEF PickedNodes
    <3>3. \A j \in DOMAIN picked : \E i \in DOMAIN picked : order[i] = j
      BY <2>5, <2>6 DEF Range
    <3>4. ASSUME NEW j \in DOMAIN picked PROVE picked[j].node \in PickedNodes'
      <4>1. PICK i \in DOMAIN picked : order[i] = j
        BY <3>3
      <4>2. i \in DOMAIN picked' /\ picked'[i] = picked[j]
        BY <2>7, <3>1, <4>1
      <4> QED
        BY <4>2 DEF PickedNodes
    <3>5. \A n \in PickedNodes : n \in PickedNodes'
      BY <3>4 DEF PickedNodes
    <3> QED
      BY <3>2, <3>5
  <2>9. \A i, j \in DOMAIN picked' : picked'[i].node = picked'[j].node => i = j
    BY <2>1, <2>5, <2>6, <2>7 DEF IInv, SelectedOnce, IsInjective
  <2>10. /\ Traced' = Traced /\ trace' = trace /\ consumed' = consumed
         /\ marking' = marking /\ seen' = seen
    BY <1>1 DEF Traced, marks
  <2>11. SelectionTypes' /\ SelectedOnce'
    BY <1>0, <2>7, <2>8, <2>9, <2>10 DEF IInv, SelectionTypes, SelectedOnce
  <2>12. queue' \in Seq(Node) /\ Range(queue') \subseteq written /\ (stage \in Stage)'
    <3>1. \A i \in 1..Len(picked) : picked[order[i]].node \in Node
      BY <2>3, <2>6
    <3>2. queue' = [i \in 1..Len(picked) |-> picked[order[i]].node]
      BY <2>1, <2>3
    <3>3. queue' \in Seq(Node)
      BY <2>3, <3>1, <3>2
    <3>4. Range(queue') \subseteq PickedNodes
      BY <2>3, <2>6, <3>2 DEF Range, PickedNodes
    <3> QED
      BY <2>2, <3>3, <3>4 DEF IInv, NodesWritten, Stage
  <2>13. WithinBudget'
    BY <1>1, <2>2 DEF IInv, WithinBudget, BudgetKept
  <2>14. Fresh' /\ BranchOpen' /\ FlatQueue' /\ EmptyMeansNothingFits'
    BY <2>2, <2>7 DEF Fresh, BranchOpen, FlatQueue, EmptyMeansNothingFits
  <2>15. NodesWritten'
    BY <1>1, <2>8, <2>12 DEF IInv, NodesWritten, store, probe, descent
  <2>16. (request \in Request)'
    BY <1>0, <1>1 DEF ProbeTypes
  <2> QED
    BY <1>2, <1>3, <2>11, <2>12, <2>13, <2>14, <2>15, TypeParts DEF IInv
<1> QED
  BY <1>4, <1>5

-----------------------------------------------------------------------------
(* Steps that select a node *)

LEMMA PickKeeps ==
  ASSUME IInv, marking = <<>>, NEW n \in Node, n \in written, n \notin PickedNodes,
         NEW score \in Int, NEW as \in SelectedAs, Pick(n, score, as)
  PROVE  /\ StoreTypes' /\ SelectionTypes' /\ SelectedOnce' /\ CountsKept' /\ Pending'
         /\ PickedNodes' = PickedNodes \cup {n} /\ consumed' = consumed + Tokens(n)
         /\ picked' # <<>> /\ written' = written
<1>0. StoreTypes /\ SelectionTypes
  BY TypeParts DEF IInv
<1>1. /\ picked' = Append(picked, [node |-> n, score |-> score])
      /\ trace' = Append(trace, [node |-> n, as |-> as])
      /\ consumed' = consumed + Tokens(n)
      /\ marking' = <<n>> /\ seen' = seen /\ UNCHANGED store
  BY DEF Pick
<1>2. /\ picked' \in Seq([node : Node, score : Int]) /\ Len(picked') = Len(picked) + 1
      /\ picked' # <<>> /\ DOMAIN picked' = 1..Len(picked) + 1
      /\ \A i \in 1..Len(picked) : picked'[i] = picked[i]
      /\ picked'[Len(picked) + 1].node = n
  <2> DEFINE Picks == [node : Node, score : Int]
             new == [node |-> n, score |-> score]
  <2>1. new \in Picks /\ new.node = n
    OBVIOUS
  <2>2. picked \in Seq(Picks) /\ picked' = Append(picked, new)
    BY <1>0, <1>1 DEF SelectionTypes
  <2> HIDE DEF Picks, new
  <2>3. /\ picked' \in Seq(Picks) /\ Len(picked') = Len(picked) + 1 /\ picked' # <<>>
        /\ \A i \in 1..Len(picked) : picked'[i] = picked[i]
        /\ picked'[Len(picked) + 1] = new
    BY <2>1, <2>2, AppendProperties
  <2>4. DOMAIN picked' = 1..Len(picked) + 1
    BY <2>3, LenProperties
  <2> QED
    BY <2>1, <2>3, <2>4 DEF Picks
<1>3. /\ trace' \in Seq([node : Node, as : SelectedAs]) /\ Len(trace') = Len(trace) + 1
      /\ DOMAIN trace' = 1..Len(trace) + 1 /\ DOMAIN trace = 1..Len(trace) /\ Len(trace) \in Nat
      /\ \A i \in 1..Len(trace) : trace'[i] = trace[i]
      /\ trace'[Len(trace) + 1].node = n
  <2> DEFINE Traces == [node : Node, as : SelectedAs]
             new == [node |-> n, as |-> as]
  <2>1. new \in Traces /\ new.node = n
    OBVIOUS
  <2>2. trace \in Seq(Traces) /\ trace' = Append(trace, new)
    BY <1>0, <1>1 DEF SelectionTypes
  <2> HIDE DEF Traces, new
  <2>3. /\ trace' \in Seq(Traces) /\ Len(trace') = Len(trace) + 1
        /\ \A i \in 1..Len(trace) : trace'[i] = trace[i]
        /\ trace'[Len(trace) + 1] = new
    BY <2>1, <2>2, AppendProperties
  <2>4. /\ DOMAIN trace' = 1..Len(trace) + 1 /\ DOMAIN trace = 1..Len(trace)
        /\ Len(trace) \in Nat
    BY <2>2, <2>3, LenProperties
  <2> QED
    BY <2>1, <2>3, <2>4 DEF Traces
<1>4. PickedNodes' = PickedNodes \cup {n}
  BY <1>2, PickedTypes DEF PickedNodes
<1>5. Traced' = Traced \cup {n}
  BY <1>3 DEF Traced
<1>6. Traced = PickedNodes /\ Len(trace) = Len(picked)
  BY DEF IInv, SelectedOnce
<1>7. \A i, j \in DOMAIN picked' : picked'[i].node = picked'[j].node => i = j
  <2>1. \A i \in 1..Len(picked) : picked[i].node # n
    BY PickedTypes DEF PickedNodes
  <2>2. \A i, j \in 1..Len(picked) : picked[i].node = picked[j].node => i = j
    BY PickedTypes DEF IInv, SelectedOnce
  <2> SUFFICES ASSUME NEW i \in 1..Len(picked) + 1, NEW j \in 1..Len(picked) + 1,
                      picked'[i].node = picked'[j].node
               PROVE  i = j
    BY <1>2
  <2>3. CASE i \in 1..Len(picked) /\ j \in 1..Len(picked)
    BY <2>2, <2>3, <1>2
  <2>4. CASE i \in 1..Len(picked) /\ j = Len(picked) + 1
    BY <2>1, <2>4, <1>2
  <2>5. CASE j \in 1..Len(picked) /\ i = Len(picked) + 1
    BY <2>1, <2>5, <1>2
  <2> QED
    BY <2>3, <2>4, <2>5, PickedTypes
<1>8. SelectedOnce'
  BY <1>2, <1>3, <1>4, <1>5, <1>6, <1>7 DEF SelectedOnce
<1>9. StoreTypes'
  BY <1>0, <1>1 DEF StoreTypes, store
<1>10. SelectionTypes'
  <2>1. consumed' \in Nat
    BY <1>0, <1>1, TokensType DEF SelectionTypes
  <2>2. marking' \in Seq(Node) /\ seen' \in Nat \cup {NotRead}
    BY <1>0, <1>1 DEF SelectionTypes
  <2> QED
    BY <1>2, <1>3, <2>1, <2>2 DEF SelectionTypes
<1>11. CountsKept' /\ Pending'
  <2>1. seen = NotRead /\ Range(marking) = {}
    BY DEF IInv, Pending, Range
  <2>2. Range(marking') = {n} /\ IsInjective(marking')
    BY <1>1 DEF Range, IsInjective
  <2>3. \A m : Made(m)' = Made(m)
    BY <1>1, <1>5, <1>6, <2>1, <2>2 DEF Made, store
  <2>4. CountsKept'
    BY <1>1, <2>3 DEF IInv, CountsKept, store
  <2>5. Pending'
    BY <1>1, <1>5, <2>1, <2>2 DEF Pending
  <2> QED
    BY <2>4, <2>5
<1> QED
  BY <1>1, <1>2, <1>4, <1>8, <1>9, <1>10, <1>11 DEF store

LEMMA SelectedAsLabels ==
  /\ "supporting_leaf" \in SelectedAs /\ "summary" \in SelectedAs
  /\ IInv => FlatSelectedAs \in SelectedAs
<1>1. IInv => legacy \in BOOLEAN
  BY TypeParts DEF IInv, ProbeTypes
<1> QED
  BY <1>1 DEF SelectedAs, FlatSelectedAs

LEMMA AddChildStep == IInv /\ marking = <<>> /\ AddChild => IInv'
<1> SUFFICES ASSUME IInv, marking = <<>>, AddChild PROVE IInv'
  OBVIOUS
<1>0. /\ ProbeTypes /\ DescentTypes /\ ContextTypes /\ SelectionTypes /\ TypeOK
      /\ stage \in Stage /\ spent \in 0..consumed
  BY TypeParts DEF IInv
<1> DEFINE n == Head(queue)
<1>1. /\ stage = "add" /\ queue # <<>> /\ n \notin PickedNodes /\ Tokens(n) <= Allowance - spent
      /\ spent' = spent + Tokens(n) /\ queue' = Tail(queue)
      /\ UNCHANGED <<request, stage, probe, summaries, branch, unread, children, context>>
      /\ Pick(n, ChildScore(n, entities), "supporting_leaf")
  BY DEF AddChild, ChildFits
<1>2. n \in Node /\ n \in written /\ queue' \in Seq(Node) /\ Range(queue') \subseteq written
  BY <1>1, QueueTail
<1> HIDE DEF n
<1>3. ChildScore(n, entities) \in Int /\ Tokens(n) \in Nat
  BY <1>2, ScoreTypes, TokensType
<1>4. /\ StoreTypes' /\ SelectionTypes' /\ SelectedOnce' /\ CountsKept' /\ Pending'
      /\ PickedNodes' = PickedNodes \cup {n} /\ consumed' = consumed + Tokens(n)
      /\ picked' # <<>> /\ written' = written
  BY <1>1, <1>2, <1>3, PickKeeps, SelectedAsLabels
<1>5. ProbeTypes' /\ DescentTypes' /\ ContextTypes' /\ (spent \in 0..consumed)'
  <2>1. ProbeTypes'
    BY <1>0, <1>1 DEF ProbeTypes, probe
  <2>2. DescentTypes'
    BY <1>0, <1>1 DEF DescentTypes
  <2>3. ContextTypes'
    BY <1>0, <1>1 DEF ContextTypes, context
  <2>4. (spent \in 0..consumed)'
    <3>1. spent' = spent + Tokens(n) /\ consumed' = consumed + Tokens(n)
      BY <1>1, <1>4
    <3>2. consumed \in Nat /\ spent \in 0..consumed /\ Tokens(n) \in Nat
      BY <1>0, <1>3 DEF SelectionTypes
    <3>3. spent + Tokens(n) \in 0..(consumed + Tokens(n))
      BY <3>2
    <3> QED
      BY <3>1, <3>3
  <2> QED
    BY <2>1, <2>2, <2>3, <2>4
<1>6. WithinBudget'
  <2>1. Allowance \in Int /\ Allowance <= Remaining + spent
    BY <1>0, <1>1, AllowanceBound DEF IInv, BranchOpen
  <2>2. request.budget \in Nat /\ consumed \in Nat /\ spent \in Nat
    BY <1>0, RequestsAssumption DEF ProbeTypes, SelectionTypes
  <2>3. consumed + Tokens(n) <= request.budget
    BY <1>1, <1>3, <2>1, <2>2 DEF Remaining
  <2> QED
    BY <1>1, <1>4, <2>3 DEF WithinBudget, BudgetKept
<1>7. Fresh' /\ BranchOpen' /\ FlatQueue' /\ EmptyMeansNothingFits'
  BY <1>1, <1>4 DEF IInv, Fresh, BranchOpen, FlatQueue, EmptyMeansNothingFits
<1>8. NodesWritten'
  BY <1>1, <1>2, <1>4 DEF IInv, NodesWritten, probe
<1> QED
  BY <1>0, <1>1, <1>2, <1>4, <1>5, <1>6, <1>7, <1>8, TypeParts DEF IInv

LEMMA TakeSummaryStep == IInv /\ marking = <<>> /\ TakeSummary => IInv'
<1> SUFFICES ASSUME IInv, marking = <<>>, TakeSummary PROVE IInv'
  OBVIOUS
<1>0. /\ ProbeTypes /\ DescentTypes /\ ContextTypes /\ SelectionTypes /\ TypeOK
      /\ stage \in Stage /\ queue \in Seq(Node) /\ spent \in 0..consumed
  BY TypeParts DEF IInv
<1>1. /\ stage = "summary" /\ stage' = "branch" /\ branch' = branch + 1
      /\ UNCHANGED <<request, probe, summaries, unread, children, spent, queue, context>>
  BY DEF TakeSummary, NextBranch
<1>2. branch \in 1..Len(summaries) /\ spent = 0
  BY <1>0, <1>1 DEF IInv, BranchOpen, DescentTypes
<1>3. (branch \in 1..Len(summaries) + 1)'
  BY <1>1, <1>2
<1>4. /\ ProbeTypes' /\ DescentTypes' /\ ContextTypes' /\ (stage \in Stage)'
      /\ (queue \in Seq(Node))'
  BY <1>0, <1>1, <1>3 DEF ProbeTypes, DescentTypes, ContextTypes, Stage, probe, context
<1>5. Fresh' /\ BranchOpen' /\ FlatQueue' /\ EmptyMeansNothingFits'
  BY <1>1 DEF Fresh, BranchOpen, FlatQueue, EmptyMeansNothingFits
<1> DEFINE s == summaries[branch]
<1>6. s \in Node /\ s \in written
  BY <1>0, <1>2 DEF DescentTypes, IInv, NodesWritten, Node, Range
<1>7. \/ UNCHANGED <<store, selection>>
      \/ Tokens(s) <= Allowance /\ s \notin PickedNodes /\ Pick(s, SummaryScore(s), "summary")
  BY DEF TakeSummary
<1> HIDE DEF s
<1>8. CASE UNCHANGED <<store, selection>>
  <2>1. (spent \in 0..consumed)'
    BY <1>0, <1>1, <1>8 DEF selection
  <2>2. NodesWritten'
    BY <1>1, <1>8 DEF IInv, NodesWritten, PickedNodes, store, probe, selection
  <2> QED
    BY <1>1, <1>4, <1>5, <1>8, <2>1, <2>2, SelectionKept, TypeParts DEF IInv
<1>9. CASE Tokens(s) <= Allowance /\ s \notin PickedNodes /\ Pick(s, SummaryScore(s), "summary")
  <2>1. SummaryScore(s) \in Int /\ Tokens(s) \in Nat
    BY <1>6, ScoreTypes, TokensType
  <2>2. /\ StoreTypes' /\ SelectionTypes' /\ SelectedOnce' /\ CountsKept' /\ Pending'
        /\ PickedNodes' = PickedNodes \cup {s} /\ consumed' = consumed + Tokens(s)
        /\ picked' # <<>> /\ written' = written
    BY <1>6, <1>9, <2>1, PickKeeps, SelectedAsLabels
  <2>3. WithinBudget'
    <3>1. Allowance \in Int /\ Allowance <= Remaining + spent
      BY <1>0, <1>2, AllowanceBound DEF DescentTypes
    <3>2. request.budget \in Nat /\ consumed \in Nat
      BY <1>0, RequestsAssumption DEF ProbeTypes, SelectionTypes
    <3>3. consumed + Tokens(s) <= request.budget
      BY <1>2, <1>9, <2>1, <3>1, <3>2 DEF Remaining
    <3> QED
      BY <1>1, <2>2, <3>3 DEF WithinBudget, BudgetKept
  <2>4. (spent \in 0..consumed)'
    BY <1>0, <1>1, <2>1, <2>2 DEF SelectionTypes
  <2>5. NodesWritten'
    BY <1>1, <1>6, <2>2 DEF IInv, NodesWritten, probe
  <2> QED
    BY <1>4, <1>5, <2>2, <2>3, <2>4, <2>5, TypeParts DEF IInv
<1> QED
  BY <1>7, <1>8, <1>9

LEMMA SupplementStep == IInv /\ marking = <<>> /\ Supplement => IInv'
<1> SUFFICES ASSUME IInv, marking = <<>>, Supplement PROVE IInv'
  OBVIOUS
<1>0. /\ ProbeTypes /\ DescentTypes /\ ContextTypes /\ SelectionTypes
      /\ stage \in Stage /\ queue \in Seq(Node) /\ spent \in 0..consumed
  BY TypeParts DEF IInv
<1>1. /\ stage = "supplement" /\ UNCHANGED <<request, probe, descent, queue, context>>
      /\ \/ stage' = "finish" /\ UNCHANGED <<store, selection>>
         \/ stage' = stage /\ \E n \in BestEligible :
                                Pick(n, LeafScore(n, entities), "supporting_leaf")
  BY DEF Supplement
<1>2. /\ ProbeTypes' /\ DescentTypes' /\ ContextTypes' /\ (stage \in Stage)'
      /\ (queue \in Seq(Node))'
  BY <1>0, <1>1 DEF ProbeTypes, DescentTypes, ContextTypes, Stage, probe, descent, context
<1>3. Fresh' /\ BranchOpen' /\ FlatQueue' /\ EmptyMeansNothingFits'
  BY <1>1 DEF Fresh, BranchOpen, FlatQueue, EmptyMeansNothingFits
<1>4. CASE stage' = "finish" /\ UNCHANGED <<store, selection>>
  <2>1. (spent \in 0..consumed)'
    BY <1>0, <1>1, <1>4 DEF descent, selection
  <2>2. NodesWritten'
    BY <1>1, <1>4 DEF IInv, NodesWritten, PickedNodes, store, probe, descent, selection
  <2> QED
    BY <1>1, <1>2, <1>3, <1>4, <2>1, <2>2, SelectionKept, TypeParts DEF IInv
<1>5. CASE stage' = stage /\ \E n \in BestEligible :
                               Pick(n, LeafScore(n, entities), "supporting_leaf")
  <2>1. PICK n \in BestEligible : Pick(n, LeafScore(n, entities), "supporting_leaf")
    BY <1>5
  <2>2. n \in Range(leaves) /\ Eligible(n)
    BY DEF BestEligible, Range
  <2>3. n \in Node /\ n \in written /\ n \notin PickedNodes
        /\ consumed + Tokens(n) <= request.budget
    BY <1>0, <2>2 DEF Eligible, ProbeTypes, Range, Node, IInv, NodesWritten
  <2>4. LeafScore(n, entities) \in Int /\ Tokens(n) \in Nat
    BY <2>3, ScoreTypes, TokensType
  <2>5. /\ StoreTypes' /\ SelectionTypes' /\ SelectedOnce' /\ CountsKept' /\ Pending'
        /\ PickedNodes' = PickedNodes \cup {n} /\ consumed' = consumed + Tokens(n)
        /\ picked' # <<>> /\ written' = written
    BY <2>1, <2>3, <2>4, PickKeeps, SelectedAsLabels
  <2>6. WithinBudget'
    BY <1>1, <2>3, <2>5 DEF WithinBudget, BudgetKept
  <2>7. (spent \in 0..consumed)'
    BY <1>0, <1>1, <2>4, <2>5 DEF SelectionTypes, descent
  <2>8. NodesWritten'
    BY <1>1, <2>3, <2>5 DEF IInv, NodesWritten, probe, descent
  <2> QED
    BY <1>2, <1>3, <2>5, <2>6, <2>7, <2>8, TypeParts DEF IInv
<1> QED
  BY <1>1, <1>4, <1>5

LEMMA TakeFlatStep == IInv /\ marking = <<>> /\ TakeFlat => IInv'
<1> SUFFICES ASSUME IInv, marking = <<>>, TakeFlat PROVE IInv'
  OBVIOUS
<1>0. /\ ProbeTypes /\ DescentTypes /\ ContextTypes /\ SelectionTypes
      /\ stage \in Stage /\ spent \in 0..consumed
  BY TypeParts DEF IInv
<1> DEFINE n == Head(queue)
<1>1. /\ stage = "flat" /\ queue # <<>> /\ queue' = Tail(queue)
      /\ consumed + Tokens(n) <= request.budget
      /\ UNCHANGED <<request, stage, probe, descent, context>>
      /\ Pick(n, FlatScore(n), FlatSelectedAs)
  BY DEF TakeFlat, FlatFits
<1>2. /\ n \in Node /\ n \in written /\ n \in Range(queue)
      /\ queue' \in Seq(Node) /\ Range(queue') \subseteq written
  BY <1>1, QueueTail
<1>3. n \notin PickedNodes
  BY <1>1, <1>2 DEF IInv, FlatQueue
<1>4. IsInjective(queue') /\ n \notin Range(queue') /\ Range(queue') \subseteq Range(queue)
  BY <1>1, QueueTail DEF IInv, FlatQueue
<1> HIDE DEF n
<1>5. FlatScore(n) \in Int /\ Tokens(n) \in Nat
  BY <1>2, ScoreTypes, TokensType
<1>6. /\ StoreTypes' /\ SelectionTypes' /\ SelectedOnce' /\ CountsKept' /\ Pending'
      /\ PickedNodes' = PickedNodes \cup {n} /\ consumed' = consumed + Tokens(n)
      /\ picked' # <<>> /\ written' = written
  BY <1>1, <1>2, <1>3, <1>5, PickKeeps, SelectedAsLabels
<1>7. ProbeTypes' /\ DescentTypes' /\ ContextTypes' /\ (spent \in 0..consumed)'
  <2>1. ProbeTypes'
    BY <1>0, <1>1 DEF ProbeTypes, probe
  <2>2. DescentTypes' /\ spent' = spent
    BY <1>0, <1>1 DEF DescentTypes, descent
  <2>3. ContextTypes'
    BY <1>0, <1>1 DEF ContextTypes, context
  <2>4. (spent \in 0..consumed)'
    BY <1>0, <1>5, <1>6, <2>2 DEF SelectionTypes
  <2> QED
    BY <2>1, <2>2, <2>3, <2>4
<1>8. WithinBudget'
  BY <1>1, <1>6 DEF WithinBudget, BudgetKept
<1>9. FlatQueue'
  BY <1>1, <1>4, <1>6 DEF IInv, FlatQueue
<1>10. Fresh' /\ BranchOpen' /\ EmptyMeansNothingFits'
  BY <1>1 DEF Fresh, BranchOpen, EmptyMeansNothingFits
<1>11. NodesWritten'
  BY <1>1, <1>2, <1>6 DEF IInv, NodesWritten, probe, descent
<1> QED
  BY <1>0, <1>1, <1>2, <1>6, <1>7, <1>8, <1>9, <1>10, <1>11, TypeParts DEF IInv

-----------------------------------------------------------------------------
(* Leaf-first answers *)

(* What a leaf-first answer consists of. *)
LEMMA LeafFirstAnswer ==
  ASSUME TypeOK, NEW ranked \in Seq(Leaf), IsInjective(ranked),
         NEW first, first = LeafFirst(ranked)
  PROVE  /\ first \in Seq(Leaf) /\ IsInjective(first) /\ Range(first) \subseteq Range(ranked)
         /\ TokensOf(first) \in Nat /\ (Len(first) = 1 \/ TokensOf(first) <= request.budget)
         /\ first = <<>> => TokensOf(first) = 0
<1>1. request.budget \in Nat /\ \A n \in Leaf : Tokens(n) \in Nat
  BY RequestsAssumption, TokensType DEF TypeOK, Node
<1>2. Len(ranked) \in Nat /\ DOMAIN ranked = 1..Len(ranked)
      /\ \A i \in 1..Len(ranked) : ranked[i] \in Leaf
  OBVIOUS
<1>3. CASE first = <<>>
  BY <1>1, <1>3 DEF IsInjective, Range, TokensOf
<1>4. CASE ranked # <<>> /\ first = <<ranked[1]>>
  <2>1. 1 \in DOMAIN ranked
    BY <1>2, <1>4, EmptySeq
  <2>2. Len(first) = 1 /\ DOMAIN first = {1} /\ first[1] = ranked[1] /\ first # <<>>
    BY <1>4
  <2> QED
    BY <1>1, <1>2, <1>4, <2>1, <2>2 DEF IsInjective, Range, TokensOf
<1>5. ASSUME NEW i \in 2..Len(ranked), first = <<ranked[1], ranked[i]>>,
             Tokens(ranked[1]) + Tokens(ranked[i]) <= request.budget
      PROVE  /\ first \in Seq(Leaf) /\ IsInjective(first) /\ Range(first) \subseteq Range(ranked)
             /\ TokensOf(first) \in Nat /\ TokensOf(first) <= request.budget /\ first # <<>>
  <2>1. 1 \in DOMAIN ranked /\ i \in DOMAIN ranked /\ i # 1 /\ ranked[i] # ranked[1]
    BY <1>2, <1>5 DEF IsInjective
  <2>2. /\ DOMAIN first = {1, 2} /\ first[1] = ranked[1] /\ first[2] = ranked[i]
        /\ first # <<>> /\ first \in Seq(Leaf)
    BY <1>2, <1>5, <2>1
  <2>3. TokensOf(first) = Tokens(ranked[1]) + Tokens(ranked[i])
    BY <2>2 DEF TokensOf
  <2>4. IsInjective(first) /\ Range(first) \subseteq Range(ranked)
    BY <2>1, <2>2 DEF IsInjective, Range
  <2>5. Tokens(ranked[1]) \in Nat /\ Tokens(ranked[i]) \in Nat
    <3>1. ranked[1] \in Leaf /\ ranked[i] \in Leaf
      BY <1>2, <2>1
    <3> QED
      BY <1>1, <3>1
  <2>6. Tokens(ranked[1]) + Tokens(ranked[i]) \in Nat
    BY <2>5
  <2>7. TokensOf(first) \in Nat /\ TokensOf(first) <= request.budget
    BY <1>5, <2>3, <2>6
  <2> QED
    BY <2>2, <2>4, <2>7
<1> QED
  BY <1>3, <1>4, <1>5, LeafFirstCases

LEMMA ProbeStep == IInv /\ Probe => IInv'
<1> SUFFICES ASSUME IInv, Probe PROVE IInv'
  OBVIOUS
<1>0. /\ ProbeTypes /\ DescentTypes /\ ContextTypes /\ SelectionTypes /\ StoreTypes /\ TypeOK
      /\ stage \in Stage /\ spent \in 0..consumed
  BY TypeParts DEF IInv
<1>1. SUFFICES ASSUME
         NEW ranked \in Ranked(Live(Leaf), [n \in Leaf |-> LeafScore(n, entities)], Listed),
         NEW first, first = LeafFirst(ranked),
         leaves' = ranked,
         stage' = IF first # <<>> THEN "pack" ELSE IF legacy THEN "list" ELSE "route",
         legacy' = (first = <<>>),
         picked' = [i \in DOMAIN first |->
                      [node |-> first[i], score |-> LeafScore(first[i], entities)]],
         trace' = [i \in DOMAIN first |-> [node |-> first[i], as |-> "query_router_flat"]],
         consumed' = TokensOf(first), queue' = first, marking' = first
      PROVE IInv'
  BY DEF Probe
<1>2. /\ stage = "probe"
      /\ UNCHANGED <<store, request, entities, descent, seen, context>>
  BY DEF Probe
<1>3. /\ picked = <<>> /\ consumed = 0 /\ branch = 1 /\ spent = 0 /\ Traced = {}
  BY <1>0, <1>2 DEF IInv, Fresh, SelectedOnce, PickedNodes
<1>4. /\ ranked \in Seq(Leaf) /\ IsInjective(ranked) /\ Range(ranked) = Live(Leaf)
      /\ Live(Leaf) \subseteq written /\ Live(Leaf) \subseteq Leaf
  <2>1. IsFiniteSet(Live(Leaf)) /\ Live(Leaf) \subseteq Leaf /\ Live(Leaf) \subseteq written
    BY <1>0, LiveFinite DEF Node, StoreTypes
  <2> QED
    BY <2>1, RankedLists, SeqMonotonic
<1>5. /\ first \in Seq(Leaf) /\ IsInjective(first) /\ Range(first) \subseteq Live(Leaf)
      /\ TokensOf(first) \in Nat /\ (Len(first) = 1 \/ TokensOf(first) <= request.budget)
      /\ first = <<>> => TokensOf(first) = 0
  BY <1>0, <1>1, <1>4, LeafFirstAnswer
<1>6. Len(first) \in Nat /\ DOMAIN first = 1..Len(first)
      /\ \A i \in 1..Len(first) : first[i] \in Node
  BY <1>5 DEF Node
<1>7. /\ picked' \in Seq([node : Node, score : Int]) /\ Len(picked') = Len(first)
      /\ DOMAIN picked' = DOMAIN first /\ \A i \in DOMAIN first : picked'[i].node = first[i]
  <2> DEFINE Picks == [node : Node, score : Int]
             pick(i) == [node |-> first[i], score |-> LeafScore(first[i], entities)]
  <2>1. \A i \in 1..Len(first) : pick(i) \in Picks /\ pick(i).node = first[i]
    BY <1>6, ScoreTypes
  <2>2. picked' = [i \in 1..Len(first) |-> pick(i)]
    BY <1>1, <1>6
  <2> HIDE DEF Picks, pick
  <2>3. picked' \in [1..Len(first) -> Picks]
    BY <2>1, <2>2
  <2>4. picked' \in Seq(Picks) /\ Len(picked') = Len(first)
    BY <1>6, <2>3, FunctionIsSeq
  <2>5. DOMAIN picked' = DOMAIN first /\ \A i \in DOMAIN first : picked'[i].node = first[i]
    BY <1>6, <2>1, <2>2
  <2> QED
    BY <2>4, <2>5 DEF Picks
<1>8. /\ trace' \in Seq([node : Node, as : SelectedAs]) /\ Len(trace') = Len(first)
      /\ DOMAIN trace' = DOMAIN first
      /\ \A i \in DOMAIN first : trace'[i].node = first[i] /\ trace'[i].as = "query_router_flat"
  <2> DEFINE Traces == [node : Node, as : SelectedAs]
             entry(i) == [node |-> first[i], as |-> "query_router_flat"]
  <2>1. \A i \in 1..Len(first) : /\ entry(i) \in Traces /\ entry(i).node = first[i]
                                 /\ entry(i).as = "query_router_flat"
    BY <1>6 DEF SelectedAs
  <2>2. trace' = [i \in 1..Len(first) |-> entry(i)]
    BY <1>1, <1>6
  <2> HIDE DEF Traces, entry
  <2>3. trace' \in [1..Len(first) -> Traces]
    BY <2>1, <2>2
  <2>4. trace' \in Seq(Traces) /\ Len(trace') = Len(first)
    BY <1>6, <2>3, FunctionIsSeq
  <2>5. /\ DOMAIN trace' = DOMAIN first
        /\ \A i \in DOMAIN first : trace'[i].node = first[i] /\ trace'[i].as = "query_router_flat"
    BY <1>6, <2>1, <2>2
  <2> QED
    BY <2>4, <2>5 DEF Traces
<1>9. PickedNodes' = Range(first) /\ Traced' = Range(first)
  BY <1>7, <1>8 DEF PickedNodes, Traced, Range
<1>10. SelectedOnce'
  <2>1. \A i, j \in DOMAIN picked' : picked'[i].node = picked'[j].node => i = j
    BY <1>5, <1>7 DEF IsInjective
  <2>2. picked' = <<>> => consumed' = 0
    BY <1>1, <1>5, <1>6, <1>7, EmptySeq
  <2> QED
    BY <1>7, <1>8, <1>9, <2>1, <2>2 DEF SelectedOnce
<1>11. first = <<>> => picked' = <<>>
  BY <1>7, EmptySeq
<1>12. WithinBudget'
  <2>1. BudgetKept'
    BY <1>1, <1>2, <1>5, <1>6, <1>7, <1>8 DEF BudgetKept
  <2>2. (stage \notin {"pack", "done", "failed"} => consumed <= request.budget)'
    BY <1>0, <1>1, <1>2, <1>5, RequestsAssumption DEF ProbeTypes
  <2> QED
    BY <2>1, <2>2 DEF WithinBudget
<1>13. StoreTypes' /\ CountsKept' /\ Pending'
  <2>1. marking = <<>> /\ seen = NotRead
    <3>1. marking \in Seq(Node) /\ Range(marking) = {}
      BY <1>0, <1>3 DEF IInv, Pending, SelectionTypes
    <3>2. marking # <<>> => Len(marking) \in Nat \ {0} /\ DOMAIN marking = 1..Len(marking)
      BY <3>1, EmptySeq
    <3>3. marking # <<>> => marking[1] \in Range(marking)
      BY <3>2 DEF Range
    <3>4. marking = <<>>
      BY <3>1, <3>3
    <3> QED
      BY <3>4 DEF IInv, Pending
  <2>2. \A n : Made(n)' = Made(n)
    BY <1>1, <1>2, <1>3, <1>9 DEF Made, store
  <2>3. StoreTypes' /\ CountsKept'
    BY <1>0, <1>2, <2>2 DEF IInv, StoreTypes, CountsKept, store
  <2>4. Pending'
    BY <1>1, <1>2, <1>5, <1>9, <2>1 DEF Pending
  <2> QED
    BY <2>3, <2>4
<1>14. stage' \in {"pack", "list", "route"} /\ (stage' = "pack" => picked' # <<>>)
       /\ (stage' # "pack" => picked' = <<>>)
  <2>1. first # <<>> => picked' # <<>>
    BY <1>5, <1>6, <1>7, EmptySeq
  <2> QED
    BY <1>1, <1>11, <2>1
<1>15. /\ ProbeTypes' /\ DescentTypes' /\ ContextTypes' /\ SelectionTypes'
       /\ (stage \in Stage)' /\ (queue \in Seq(Node))' /\ (spent \in 0..consumed)'
  <2>1. ProbeTypes' /\ (stage \in Stage)'
    BY <1>0, <1>1, <1>2, <1>4, <1>14 DEF ProbeTypes, Stage
  <2>2. DescentTypes' /\ ContextTypes'
    BY <1>0, <1>2 DEF DescentTypes, ContextTypes, descent, context
  <2>5. consumed' \in Nat /\ spent' = 0
    BY <1>1, <1>2, <1>3, <1>5 DEF descent
  <2>4. (queue \in Seq(Node))' /\ (marking \in Seq(Node))'
    BY <1>1, <1>5, SeqMonotonic DEF Node
  <2>3. SelectionTypes' /\ (spent \in 0..consumed)'
    BY <1>0, <1>2, <2>4, <2>5, <1>7, <1>8 DEF SelectionTypes
  <2> QED
    BY <2>1, <2>2, <2>3, <2>4
<1>16. Fresh' /\ BranchOpen' /\ FlatQueue' /\ EmptyMeansNothingFits'
  BY <1>2, <1>3, <1>14 DEF Fresh, BranchOpen, FlatQueue, EmptyMeansNothingFits, descent
<1>17. NodesWritten'
  BY <1>1, <1>2, <1>4, <1>5, <1>9 DEF IInv, NodesWritten, descent, store
<1> QED
  BY <1>10, <1>12, <1>13, <1>15, <1>16, <1>17, TypeParts DEF IInv

-----------------------------------------------------------------------------
(* Marking *)

(* Whatever is marked, the call holds what it held. *)
LEMMA MarksKeep ==
  ASSUME IInv, UNCHANGED <<request, probe, descent, queue, consumed, picked, trace, context>>,
         UNCHANGED <<stored, written, deleted>>, stage' = stage \/ stage' = "failed"
  PROVE  /\ ProbeTypes' /\ DescentTypes' /\ ContextTypes' /\ (stage \in Stage)'
         /\ (queue \in Seq(Node))' /\ (spent \in 0..consumed)'
         /\ Fresh' /\ SelectedOnce' /\ WithinBudget' /\ BranchOpen' /\ NodesWritten'
         /\ FlatQueue' /\ EmptyMeansNothingFits' /\ Traced' = Traced
<1>1. /\ ProbeTypes /\ DescentTypes /\ ContextTypes
      /\ stage \in Stage /\ queue \in Seq(Node) /\ spent \in 0..consumed
  BY TypeParts DEF IInv
<1>2. ProbeTypes' /\ DescentTypes' /\ ContextTypes'
  BY <1>1 DEF ProbeTypes, DescentTypes, ContextTypes, probe, descent, context
<1>3. (stage \in Stage)' /\ (queue \in Seq(Node))' /\ (spent \in 0..consumed)'
  BY <1>1 DEF Stage, descent
<1>4. Traced' = Traced /\ PickedNodes' = PickedNodes
  BY DEF Traced, PickedNodes
<1>5. SelectedOnce'
  BY <1>4 DEF IInv, SelectedOnce
<1>6. WithinBudget'
  BY DEF IInv, WithinBudget, BudgetKept
<1>7. NodesWritten'
  BY <1>4 DEF IInv, NodesWritten, probe, descent
<1>8. Fresh' /\ BranchOpen'
  BY DEF IInv, Fresh, BranchOpen, descent
<1>9. FlatLimit' = FlatLimit /\ \A n \in Node : MayFit(n)' <=> MayFit(n)
  BY DEF FlatLimit, FlatSelectedAs, q, probe, MayFit
<1>10. FlatQueue' /\ EmptyMeansNothingFits'
  BY <1>4, <1>9 DEF IInv, FlatQueue, EmptyMeansNothingFits
<1> QED
  BY <1>2, <1>3, <1>4, <1>5, <1>6, <1>7, <1>8, <1>10

(* The first of what is to be marked, and the rest. *)
LEMMA MarkingTail ==
  ASSUME IInv, marking # <<>>
  PROVE  /\ Head(marking) \in Node /\ Head(marking) \in Traced
         /\ Tail(marking) \in Seq(Node) /\ IsInjective(Tail(marking))
         /\ Range(Tail(marking)) = Range(marking) \ {Head(marking)}
         /\ Head(marking) \in Range(marking)
<1>1. marking \in Seq(Node) /\ IsInjective(marking) /\ Range(marking) \subseteq Traced
  BY TypeParts DEF IInv, SelectionTypes, Pending
<1>2. /\ Tail(marking) \in Seq(Node) /\ Head(marking) \in Node
      /\ Len(Tail(marking)) = Len(marking) - 1
      /\ \A i \in 1..Len(Tail(marking)) : Tail(marking)[i] = marking[i + 1]
  BY <1>1, HeadTailProperties
<1>3. /\ Head(marking) = marking[1] /\ Len(marking) \in Nat \ {0}
      /\ DOMAIN marking = 1..Len(marking)
      /\ DOMAIN Tail(marking) = 1..(Len(marking) - 1)
  BY <1>1, <1>2, EmptySeq
<1>4. Head(marking) \in Range(marking)
  BY <1>3 DEF Range
<1>5. IsInjective(Tail(marking)) /\ Head(marking) \notin Range(Tail(marking))
  BY <1>1, <1>2, <1>3 DEF IsInjective, Range
<1>6. Range(Tail(marking)) \subseteq Range(marking)
  BY <1>2, <1>3 DEF Range
<1>7. ASSUME NEW i \in 1..Len(marking), i # 1 PROVE marking[i] \in Range(Tail(marking))
  <2>1. i - 1 \in DOMAIN Tail(marking) /\ Tail(marking)[i - 1] = marking[i]
    BY <1>2, <1>3, <1>7
  <2> QED
    BY <2>1 DEF Range
<1>8. \A n \in Range(marking) : n = Head(marking) \/ n \in Range(Tail(marking))
  BY <1>3, <1>7 DEF Range
<1> QED
  BY <1>1, <1>2, <1>4, <1>5, <1>6, <1>8

LEMMA MarkReadsStep == IInv /\ MarkReads => IInv'
<1> SUFFICES ASSUME IInv, MarkReads PROVE IInv'
  OBVIOUS
<1>1. /\ marking # <<>> /\ seen' = accesses[Head(marking)] /\ UNCHANGED store
      /\ UNCHANGED <<request, stage, probe, descent, queue, consumed, picked, trace, marking,
                     context>>
  BY DEF MarkReads
<1>2. StoreTypes /\ SelectionTypes /\ CountsKept /\ Pending /\ Head(marking) \in Node
  BY <1>1, TypeParts, MarkingTail DEF IInv
<1>3. seen' \in Nat /\ seen' <= highest[Head(marking)]
  BY <1>1, <1>2 DEF StoreTypes, CountsKept
<1>4. StoreTypes' /\ SelectionTypes'
  BY <1>1, <1>2, <1>3 DEF StoreTypes, SelectionTypes, store
<1>5. \A n : Made(n)' = Made(n)
  BY <1>1 DEF Made, Traced, store
<1>6. CountsKept'
  BY <1>1, <1>2, <1>5 DEF CountsKept, store
<1>7. Traced' = Traced
  BY <1>1 DEF Traced
<1>8. Pending'
  BY <1>1, <1>2, <1>3, <1>7 DEF Pending, store
<1>9. UNCHANGED <<stored, written, deleted>>
  BY <1>1 DEF store
<1> QED
  BY <1>1, <1>4, <1>6, <1>8, <1>9, MarksKeep, TypeParts DEF IInv

LEMMA MarkMissesRowStep == IInv /\ MarkMissesRow => IInv'
<1> SUFFICES ASSUME IInv, MarkMissesRow PROVE IInv'
  OBVIOUS
<1>1. /\ marking # <<>> /\ seen = NotRead /\ seen' = seen /\ Head(marking) \notin stored
      /\ marking' = Tail(marking) /\ UNCHANGED store
      /\ UNCHANGED <<request, stage, probe, descent, queue, consumed, picked, trace, context>>
  BY DEF MarkMissesRow
<1>2. StoreTypes /\ SelectionTypes /\ CountsKept /\ Pending
  BY TypeParts DEF IInv
<1>3. /\ Head(marking) \in Node /\ Head(marking) \in Traced
      /\ Tail(marking) \in Seq(Node) /\ IsInjective(Tail(marking))
      /\ Range(Tail(marking)) = Range(marking) \ {Head(marking)}
  BY <1>1, MarkingTail
<1>4. StoreTypes' /\ SelectionTypes'
  BY <1>1, <1>2, <1>3 DEF StoreTypes, SelectionTypes, store
<1>5. Traced' = Traced
  BY <1>1 DEF Traced
<1>6. \A n \in Node : /\ Made(n) \in Nat /\ Made(n)' \in Nat /\ Made(n) <= Made(n)'
                      /\ n # Head(marking) => Made(n)' = Made(n)
  <2>1. others' = others /\ others \in [Node -> Nat]
    BY <1>1, <1>2 DEF StoreTypes, store
  <2>2. \A n : /\ n \in Traced \ Range(marking) => n \in Traced' \ Range(marking')
               /\ n # Head(marking) =>
                    (n \in Traced' \ Range(marking') <=> n \in Traced \ Range(marking))
    BY <1>1, <1>3, <1>5
  <2> QED
    BY <2>1, <2>2 DEF Made
<1>7. CountsKept'
  <2>1. \A n \in Node : accesses'[n] <= highest'[n] /\ highest'[n] <= Made(n)'
    BY <1>1, <1>2, <1>6 DEF CountsKept, StoreTypes, store
  <2>2. \A n \in stored' \ (deleted' \cup outdated') : accesses'[n] = Made(n)'
    BY <1>1, <1>2, <1>6 DEF CountsKept, StoreTypes, store
  <2> QED
    BY <1>1, <1>2, <2>1, <2>2 DEF CountsKept, store
<1>8. Pending'
  BY <1>1, <1>2, <1>3, <1>5 DEF Pending
<1>9. UNCHANGED <<stored, written, deleted>>
  BY <1>1 DEF store
<1> QED
  BY <1>1, <1>4, <1>7, <1>8, <1>9, MarksKeep, TypeParts DEF IInv

LEMMA MarkWritesStep == IInv /\ MarkWrites => IInv'
<1> SUFFICES ASSUME IInv, MarkWrites PROVE IInv'
  OBVIOUS
<1>1. StoreTypes /\ SelectionTypes /\ CountsKept /\ Pending
  BY TypeParts DEF IInv
<1>2. PICK n : n = Head(marking)
  OBVIOUS
<1>3. /\ seen # NotRead /\ marking # <<>> /\ seen \in Nat /\ n \in stored
      /\ seen <= highest[n]
      /\ accesses' = [accesses EXCEPT ![n] = seen + 1]
      /\ highest' = [highest EXCEPT ![n] = AtLeast(@, seen + 1)]
      /\ Outdates(n, seen)
      /\ marking' = Tail(marking) /\ seen' = NotRead
      /\ UNCHANGED <<stored, stale, written, changes, deleted>> /\ others' = others
      /\ UNCHANGED <<request, stage, probe, descent, queue, consumed, picked, trace, context>>
  BY <1>1, <1>2 DEF MarkWrites, Pending, SelectionTypes
<1>4. /\ n \in Node /\ n \in Traced
      /\ Tail(marking) \in Seq(Node) /\ IsInjective(Tail(marking))
      /\ Range(Tail(marking)) = Range(marking) \ {n} /\ n \in Range(marking)
  BY <1>2, <1>3, MarkingTail
<1>5. Traced' = Traced
  BY <1>3 DEF Traced
<1>6. \A m \in Node : Made(m)' = IF m = n THEN Made(m) + 1 ELSE Made(m)
  <2>1. others' = others /\ others \in [Node -> Nat]
    BY <1>1, <1>3 DEF StoreTypes
  <2>2. /\ n \notin Traced \ Range(marking) /\ n \in Traced' \ Range(marking')
        /\ \A m : m # n =>
             (m \in Traced' \ Range(marking') <=> m \in Traced \ Range(marking))
    BY <1>3, <1>4, <1>5
  <2> QED
    BY <2>1, <2>2 DEF Made
<1>7. others' \in [Node -> Nat] /\ \A m \in Node \ written : others'[m] = 0
  BY <1>1, <1>3 DEF StoreTypes, CountsKept
<1>8. changes' \in 0..MaxChanges
  BY <1>1, <1>3 DEF StoreTypes
<1>9. StoreTypes' /\ CountsKept'
  BY <1>1, <1>3, <1>6, <1>7, <1>8, AccessCounted
<1>10. SelectionTypes' /\ Pending'
  BY <1>1, <1>3, <1>4, <1>5 DEF SelectionTypes, Pending
<1> QED
  BY <1>3, <1>9, <1>10, MarksKeep, TypeParts DEF IInv

LEMMA MarkFailsStep == IInv /\ MarkFails => IInv'
<1> SUFFICES ASSUME IInv, MarkFails PROVE IInv'
  OBVIOUS
<1>1. /\ seen' = NotRead /\ stage' = "failed" /\ UNCHANGED store
      /\ UNCHANGED <<request, probe, descent, queue, consumed, picked, trace, marking, context>>
  BY DEF MarkFails
<1>2. StoreTypes /\ SelectionTypes /\ CountsKept /\ Pending
  BY TypeParts DEF IInv
<1>3. StoreTypes' /\ SelectionTypes'
  BY <1>1, <1>2 DEF StoreTypes, SelectionTypes, store
<1>4. Traced' = Traced /\ \A n : Made(n)' = Made(n)
  BY <1>1 DEF Made, Traced, store
<1>5. CountsKept' /\ Pending'
  BY <1>1, <1>2, <1>4 DEF CountsKept, Pending, store
<1>6. UNCHANGED <<stored, written, deleted>>
  BY <1>1 DEF store
<1> QED
  BY <1>1, <1>3, <1>5, <1>6, MarksKeep, TypeParts DEF IInv

-----------------------------------------------------------------------------
(* Theorems *)

LEMMA Stutter == IInv /\ UNCHANGED vars => IInv'
<1> SUFFICES ASSUME IInv, UNCHANGED vars PROVE IInv'
  OBVIOUS
<1>1. /\ UNCHANGED <<request, stage, probe, descent, queue, selection, context>>
      /\ UNCHANGED store /\ written' = written
  BY DEF vars, store
<1>2. \A n \in Node : MayFit(n)' => MayFit(n)
  BY <1>1 DEF MayFit, store
<1>3. FlatQueue' /\ EmptyMeansNothingFits'
  BY <1>1, <1>2, FitKept
<1>4. StoreTypes' /\ CountsKept' /\ Pending'
  BY <1>1, SelectionKept
<1> QED
  BY <1>1, <1>3, <1>4, CallKept, TypeParts DEF IInv

LEMMA Inductive == IInv /\ [Next]_vars => IInv'
<1> SUFFICES ASSUME IInv, [Next]_vars PROVE IInv'
  OBVIOUS
<1>1. CASE marking = <<>> /\ Selects
  BY <1>1, RouteQueryStep, ProbeStep, ListSummariesStep, OpenBranchStep, ReadChildStep,
     DescendStep, AddChildStep, SkipChildStep, ChildrenAddedStep, TakeSummaryStep,
     SupplementStep, FinishStep, ListFlatStep, TakeFlatStep, SkipFlatStep, FlatEndsStep,
     PackNodeStep, AnswerStep
  DEF Selects
<1>7. CASE Marks
  BY <1>7, MarkReadsStep, MarkMissesRowStep, MarkWritesStep, MarkFailsStep DEF Marks
<1>2. CASE Forget
  BY <1>2, ForgetStep
<1>3. CASE \E n \in Node : Write(n) \/ OtherMarks(n) \/ WriteBack(n)
  BY <1>3, WriteStep, OtherMarksStep, WriteBackStep
<1>4. CASE \E s \in Summary : MarkStale(s)
  BY <1>4, MarkStaleStep
<1>5. CASE \E r \in Request : Receive(r)
  BY <1>5, ReceiveStep
<1>6. CASE UNCHANGED vars
  BY <1>6, Stutter
<1> QED
  BY <1>1, <1>2, <1>3, <1>4, <1>5, <1>6, <1>7 DEF Next, Work

(* The inductive invariant holds throughout every call. *)
THEOREM Invariance == Spec => []IInv
  BY Initially, Inductive, PTL DEF Spec

(* A call keeps its types, whatever the policy and the nodes: its branch is    *)
(* one of those listed, and what it spends in it is part of what it consumes. *)
THEOREM TypeCorrect == Spec => []TypeOK
<1>1. IInv => TypeOK
  BY DEF IInv
<1> QED
  BY <1>1, Invariance, PTL

(* For any budget and any number of branches and leaves, the selection keeps   *)
(* within token_budget, except for a leaf-first answer of one leaf.          *)
THEOREM Budget == Spec => []BudgetKept
<1>1. IInv => BudgetKept
  BY DEF IInv, WithinBudget
<1> QED
  BY <1>1, Invariance, PTL

(* The trace and the selection are about the same nodes, each of them once,    *)
(* at every moment of a call and through the final sort.                     *)
THEOREM Selected == Spec => []SelectedOnce
<1>1. IInv => SelectedOnce
  BY DEF IInv
<1> QED
  BY <1>1, Invariance, PTL

(* For any number of other retrievals, builds, verify jobs and deletions under *)
(* way, a call counts one access to each node it selected: a row never has   *)
(* more than were made, and has all of them unless it was deleted under way  *)
(* or somebody wrote a count that was no longer the row's.                   *)
THEOREM Accesses == Spec => []AccessOnceEach
<1>1. IInv => AccessOnceEach
  <2> SUFFICES ASSUME IInv, NEW n \in stored
               PROVE  /\ accesses[n] <= Made(n)
                      /\ n \notin deleted \cup outdated => accesses[n] = Made(n)
    BY DEF AccessOnceEach
  <2>1. StoreTypes /\ CountsKept
    BY TypeParts DEF IInv
  <2>2. n \in Node /\ accesses[n] \in Nat /\ highest[n] \in Nat /\ Made(n) \in Nat
    BY <2>1, MadeType DEF StoreTypes
  <2> QED
    BY <2>1, <2>2 DEF CountsKept
<1> QED
  BY <1>1, Invariance, PTL

(* Whatever the branches and the allowances, a call that answers with nothing  *)
(* found no leaf that fits.                                                  *)
THEOREM EmptyAnswer == Spec => []NothingFitsIfEmpty
<1>1. IInv => NothingFitsIfEmpty
  <2> SUFFICES ASSUME IInv, stage = "done", picked = <<>>, FlatLimit # 0,
                      NEW n \in (FirstNodes \cap stored \cap Leaf) \ deleted
               PROVE  Tokens(n) > request.budget
    BY DEF NothingFitsIfEmpty
  <2>1. \A m \in Node : ~MayFit(m)
    BY DEF IInv, EmptyMeansNothingFits
  <2> QED
    BY <2>1 DEF MayFit, Node
<1> QED
  BY <1>1, Invariance, PTL

-----------------------------------------------------------------------------
(* Sums *)

(* The sums of the beginnings of s. *)
Running(s, f) == f = [i \in 0..Len(s) |-> IF i = 0 THEN 0 ELSE f[i - 1] + s[i]]

LEMMA RunningParts ==
  ASSUME NEW s \in Seq(Nat), NEW f
  PROVE  Running(s, f) <=> /\ f = [i \in 0..Len(s) |-> f[i]]
                           /\ f[0] = 0 /\ \A i \in 1..Len(s) : f[i] = f[i - 1] + s[i]
<1>1. Len(s) \in Nat
  OBVIOUS
<1>2. ASSUME Running(s, f)
      PROVE  /\ f = [i \in 0..Len(s) |-> f[i]]
             /\ f[0] = 0 /\ \A i \in 1..Len(s) : f[i] = f[i - 1] + s[i]
  BY <1>1, <1>2 DEF Running
<1>3. ASSUME f = [i \in 0..Len(s) |-> f[i]], f[0] = 0,
             \A i \in 1..Len(s) : f[i] = f[i - 1] + s[i]
      PROVE  Running(s, f)
  <2>1. \A i \in 0..Len(s) : i = 0 \/ i \in 1..Len(s)
    BY <1>1
  <2>2. \A i \in 0..Len(s) : f[i] = IF i = 0 THEN 0 ELSE f[i - 1] + s[i]
    BY <1>3, <2>1
  <2> QED
    BY <1>3, <2>2 DEF Running
<1> QED
  BY <1>2, <1>3

(* The sums of a list and of its beginning agree. *)
LEMMA RunningAgree ==
  ASSUME NEW s \in Seq(Nat), NEW t \in Seq(Nat), NEW f, NEW g, Running(s, f), Running(t, g),
         Len(t) <= Len(s), \A i \in 1..Len(t) : s[i] = t[i]
  PROVE  \A i \in 0..Len(t) : f[i] = g[i]
<1>1. Len(s) \in Nat /\ Len(t) \in Nat
  OBVIOUS
<1>2. f[0] = 0 /\ \A i \in 1..Len(s) : f[i] = f[i - 1] + s[i]
  BY RunningParts
<1>3. g[0] = 0 /\ \A i \in 1..Len(t) : g[i] = g[i - 1] + t[i]
  BY RunningParts
<1> DEFINE Bad == {i \in 0..Len(t) : f[i] # g[i]}
<1> SUFFICES ASSUME Bad # {} PROVE FALSE
  OBVIOUS
<1>4. Bad \in SUBSET Nat
  BY <1>1
<1>5. PICK n \in Bad : \A m \in Bad : n <= m
  <2> HIDE DEF Bad
  <2> QED
    BY <1>4, Least
<1>6. n \in 1..Len(t)
  BY <1>1, <1>2, <1>3, <1>5
<1>7. n - 1 \in 0..Len(t) /\ n - 1 \notin Bad /\ n \in 1..Len(s)
  BY <1>1, <1>5, <1>6
<1>8. f[n - 1] = g[n - 1] /\ s[n] = t[n]
  BY <1>6, <1>7
<1>9. f[n] = g[n]
  BY <1>2, <1>3, <1>6, <1>7, <1>8
<1> QED
  BY <1>5, <1>9

(* Every list has them. *)
LEMMA RunningExists ==
  ASSUME NEW s \in Seq(Nat)
  PROVE  \E f \in [0..Len(s) -> Nat] : Running(s, f)
<1> DEFINE Has(t) == \E f \in [0..Len(t) -> Nat] : Running(t, f)
           Bad == {n \in Nat : \E t \in Seq(Nat) : Len(t) = n /\ ~Has(t)}
<1> SUFFICES ASSUME ~Has(s) PROVE FALSE
  OBVIOUS
<1>1. Bad \in SUBSET Nat /\ Bad # {}
  BY LenProperties
<1>2. PICK n \in Bad : \A m \in Bad : n <= m
  <2> HIDE DEF Bad
  <2> QED
    BY <1>1, Least
<1>3. PICK t \in Seq(Nat) : Len(t) = n /\ ~Has(t)
  BY <1>2
<1>4. n \in Nat
  BY <1>2
<1>5. CASE n = 0
  <2>1. PICK f : f = [i \in 0..Len(t) |-> 0]
    OBVIOUS
  <2>2. f \in [0..Len(t) -> Nat] /\ f = [i \in 0..Len(t) |-> f[i]] /\ f[0] = 0
    BY <1>3, <1>5, <2>1
  <2>3. \A i \in 1..Len(t) : f[i] = f[i - 1] + t[i]
    BY <1>3, <1>5
  <2>4. Running(t, f)
    BY <2>2, <2>3, RunningParts
  <2> QED
    BY <1>3, <2>2, <2>4
<1>6. CASE n # 0
  <2>1. PICK u : u = [i \in 1..n - 1 |-> t[i]]
    OBVIOUS
  <2>2. u \in Seq(Nat) /\ Len(u) = n - 1 /\ n - 1 \in Nat
    BY <1>3, <1>4, <1>6, <2>1
  <2>3. Has(u)
    <3>1. n - 1 \notin Bad
      BY <1>2, <1>4, <2>2
    <3> QED
      BY <2>2, <3>1
  <2>4. PICK g \in [0..n - 1 -> Nat] : Running(u, g)
    BY <2>2, <2>3
  <2>5. g[0] = 0 /\ \A i \in 1..n - 1 : g[i] = g[i - 1] + u[i]
    <3>1. g[0] = 0 /\ \A i \in 1..Len(u) : g[i] = g[i - 1] + u[i]
      BY <2>2, <2>4, RunningParts
    <3> QED
      BY <2>2, <3>1
  <2>6. PICK f : f = [i \in 0..n |-> IF i = n THEN g[n - 1] + t[n] ELSE g[i]]
    OBVIOUS
  <2>7. t[n] \in Nat /\ n \in 1..n /\ n - 1 \in 0..n - 1
    BY <1>3, <1>4, <1>6
  <2>8. f[n] = g[n - 1] + t[n] /\ \A i \in 0..n - 1 : f[i] = g[i]
    BY <1>4, <2>6
  <2>9. f \in [0..Len(t) -> Nat]
    <3>1. \A i \in 0..n : i = n \/ i \in 0..n - 1
      BY <1>4
    <3>2. \A i \in 0..n : (IF i = n THEN g[n - 1] + t[n] ELSE g[i]) \in Nat
      BY <2>4, <2>7, <3>1
    <3> QED
      BY <1>3, <2>6, <3>2
  <2>10. \A i \in 1..n : f[i] = f[i - 1] + t[i]
    <3> SUFFICES ASSUME NEW i \in 1..n PROVE f[i] = f[i - 1] + t[i]
      OBVIOUS
    <3>1. CASE i = n
      BY <2>7, <2>8, <3>1
    <3>2. CASE i # n
      <4>1. i \in 1..n - 1 /\ i \in 0..n - 1 /\ i - 1 \in 0..n - 1
        BY <1>4, <3>2
      <4>2. u[i] = t[i]
        BY <2>1, <4>1
      <4> QED
        BY <2>5, <2>8, <4>1, <4>2
    <3> QED
      BY <3>1, <3>2
  <2>11. f[0] = 0
    BY <1>4, <1>6, <2>5, <2>8
  <2>12. Running(t, f)
    <3>1. f = [i \in 0..Len(t) |-> f[i]]
      BY <2>9
    <3>2. \A i \in 1..Len(t) : f[i] = f[i - 1] + t[i]
      BY <1>3, <2>10
    <3> QED
      BY <1>3, <2>11, <3>1, <3>2, RunningParts
  <2> QED
    BY <1>3, <2>9, <2>12
<1> QED
  BY <1>5, <1>6

LEMMA TotalIs ==
  ASSUME NEW s \in Seq(Nat), NEW f, Running(s, f)
  PROVE  Total(s) = f[Len(s)]
<1>1. PICK g : g = CHOOSE upTo : upTo = [i \in 0..Len(s) |->
                                           IF i = 0 THEN 0 ELSE upTo[i - 1] + s[i]]
  OBVIOUS
<1>2. Running(s, g)
  BY <1>1, Zenon DEF Running
<1>3. Total(s) = g[Len(s)]
  BY <1>1 DEF Total
<1>4. Len(s) \in 0..Len(s)
  BY LenProperties
<1>5. \A i \in 0..Len(s) : f[i] = g[i]
  BY <1>2, RunningAgree
<1> QED
  BY <1>3, <1>4, <1>5

(* What is counted when an element is added. *)
LEMMA TotalAppend ==
  /\ Total(<<>>) = 0
  /\ \A s \in Seq(Nat) : \A k \in Nat :
       Total(s) \in Nat /\ Total(Append(s, k)) = Total(s) + k
<1>1. Total(<<>>) = 0
  <2>1. <<>> \in Seq(Nat) /\ Len(<<>>) = 0
    OBVIOUS
  <2>2. PICK f \in [0..0 -> Nat] : Running(<<>>, f)
    BY <2>1, RunningExists
  <2>3. f[0] = 0
    BY <2>1, <2>2, RunningParts
  <2> QED
    BY <2>1, <2>2, <2>3, TotalIs
<1>2. ASSUME NEW s \in Seq(Nat), NEW k \in Nat
      PROVE  Total(s) \in Nat /\ Total(Append(s, k)) = Total(s) + k
  <2>1. PICK t : t = Append(s, k)
    OBVIOUS
  <2>2. /\ t \in Seq(Nat) /\ Len(t) = Len(s) + 1 /\ Len(s) \in Nat /\ t[Len(s) + 1] = k
        /\ \A i \in 1..Len(s) : t[i] = s[i]
    BY <2>1
  <2>3. PICK f \in [0..Len(s) -> Nat] : Running(s, f)
    BY RunningExists
  <2>4. PICK g \in [0..Len(t) -> Nat] : Running(t, g)
    BY <2>2, RunningExists
  <2>5. g[Len(s)] = f[Len(s)]
    <3>1. t \in Seq(Nat) /\ Len(s) <= Len(t)
      BY <2>2
    <3>2. Running(t, g) /\ Running(s, f)
      BY <2>3, <2>4
    <3>3. \A i \in 1..Len(s) : t[i] = s[i]
      BY <2>2
    <3> HIDE <2>1, <2>2, <2>3, <2>4
    <3>4. \A i \in 0..Len(s) : g[i] = f[i]
      BY <3>1, <3>2, <3>3, RunningAgree
    <3>5. Len(s) \in 0..Len(s)
      <4>1. Len(s) \in Nat
        OBVIOUS
      <4> QED
        BY <4>1
    <3> QED
      BY <3>4, <3>5
  <2>6. g[Len(s) + 1] = g[Len(s)] + k
    <3>1. \A i \in 1..Len(t) : g[i] = g[i - 1] + t[i]
      BY <2>2, <2>4, RunningParts
    <3>2. Len(s) + 1 \in 1..Len(t) /\ Len(s) + 1 - 1 = Len(s)
      BY <2>2
    <3>3. g[Len(s) + 1] = g[Len(s) + 1 - 1] + t[Len(s) + 1]
      BY <3>1, <3>2
    <3>4. t[Len(s) + 1] = k
      BY <2>2
    <3> QED
      BY <3>2, <3>3, <3>4
  <2>7. Total(s) = f[Len(s)] /\ Total(t) = g[Len(t)]
    BY <2>2, <2>3, <2>4, TotalIs
  <2>8. f[Len(s)] \in Nat
    <3>1. Len(s) \in 0..Len(s)
      BY <2>2
    <3> QED
      BY <2>3, <3>1
  <2>9. Total(t) = Total(s) + k
    BY <2>2, <2>5, <2>6, <2>7
  <2> QED
    BY <2>1, <2>7, <2>8, <2>9
<1> QED
  BY <1>1, <1>2

(* The tokens that a trace stands for; what has been consumed is their sum.   *)
Weights(t) == [i \in DOMAIN t |-> Tokens(t[i].node)]
Counted == consumed = Total(Weights(trace))

LEMMA WeightsAppend ==
  ASSUME NEW t, t \in Seq([node : Node, as : SelectedAs]), NEW n \in Node, NEW as \in SelectedAs
  PROVE  /\ Weights(t) \in Seq(Nat)
         /\ Weights(Append(t, [node |-> n, as |-> as])) = Append(Weights(t), Tokens(n))
<1> DEFINE Traces == [node : Node, as : SelectedAs]
           new == [node |-> n, as |-> as]
<1>1. \A e \in Traces : Tokens(e.node) \in Nat
  BY TokensType
<1>2. new \in Traces /\ new.node = n
  OBVIOUS
<1>t. t \in Seq(Traces)
  OBVIOUS
<1> HIDE DEF Traces, new
<1>3. /\ Len(t) \in Nat /\ DOMAIN t = 1..Len(t) /\ \A i \in 1..Len(t) : t[i] \in Traces
  BY <1>t, LenProperties, ElementOfSeq
<1>4. PICK u : u = Append(t, new)
  OBVIOUS
<1>5. /\ DOMAIN u = 1..Len(t) + 1 /\ u[Len(t) + 1] = new
      /\ \A i \in 1..Len(t) : u[i] = t[i]
  <2>1. /\ u \in Seq(Traces) /\ Len(u) = Len(t) + 1 /\ u[Len(t) + 1] = new
        /\ \A i \in 1..Len(t) : u[i] = t[i]
    BY <1>t, <1>2, <1>4, AppendProperties
  <2>2. DOMAIN u = 1..Len(u)
    BY <2>1, LenProperties
  <2> QED
    BY <2>1, <2>2
<1>6. PICK w : w = Weights(t)
  OBVIOUS
<1>7. w \in Seq(Nat) /\ Len(w) = Len(t) /\ \A i \in 1..Len(t) : w[i] = Tokens(t[i].node)
  BY <1>1, <1>3, <1>6 DEF Weights
<1>8. PICK v : v = Append(w, Tokens(n))
  OBVIOUS
<1>9. /\ DOMAIN v = 1..Len(t) + 1 /\ v[Len(t) + 1] = Tokens(n)
      /\ \A i \in 1..Len(t) : v[i] = w[i]
      /\ v = [i \in 1..Len(t) + 1 |-> v[i]]
  <2>1. Tokens(n) \in Nat
    BY TokensType
  <2>2. /\ v \in Seq(Nat) /\ Len(v) = Len(w) + 1 /\ v[Len(w) + 1] = Tokens(n)
        /\ \A i \in 1..Len(w) : v[i] = w[i]
    BY <1>7, <1>8, <2>1, AppendProperties
  <2>3. DOMAIN v = 1..Len(v) /\ v = [i \in 1..Len(v) |-> v[i]]
    BY <2>2
  <2> QED
    BY <1>7, <2>2, <2>3
<1>10. \A i \in 1..Len(t) + 1 : i \in 1..Len(t) \/ i = Len(t) + 1
  BY <1>3
<1>11. Weights(u) = [i \in 1..Len(t) + 1 |-> Tokens(u[i].node)]
  BY <1>5 DEF Weights
<1>12. \A i \in 1..Len(t) + 1 : Tokens(u[i].node) = v[i]
  BY <1>2, <1>5, <1>7, <1>9, <1>10
<1> QED
  BY <1>4, <1>6, <1>7, <1>8, <1>9, <1>11, <1>12 DEF new

(* A node that is picked is counted. *)
LEMMA PickCounts ==
  ASSUME IInv, Counted, NEW n \in Node, NEW score, NEW as \in SelectedAs, Pick(n, score, as)
  PROVE  Counted'
<1>1. /\ trace' = Append(trace, [node |-> n, as |-> as])
      /\ consumed' = consumed + Tokens(n)
  BY DEF Pick
<1>2. trace \in Seq([node : Node, as : SelectedAs])
  BY TypeParts DEF IInv, SelectionTypes
<1>3. PICK t : t = trace
  OBVIOUS
<1>4. /\ Weights(t) \in Seq(Nat)
      /\ Weights(Append(t, [node |-> n, as |-> as])) = Append(Weights(t), Tokens(n))
  BY <1>2, <1>3, WeightsAppend
<1>5. Tokens(n) \in Nat
  BY TokensType
<1>6. Total(Append(Weights(t), Tokens(n))) = Total(Weights(t)) + Tokens(n)
  BY <1>4, <1>5, TotalAppend
<1>7. PICK u : u = trace'
  OBVIOUS
<1>8. consumed = Total(Weights(t)) /\ u = Append(t, [node |-> n, as |-> as])
  BY <1>1, <1>3, <1>7 DEF Counted
<1>9. consumed' = Total(Weights(u))
  BY <1>1, <1>4, <1>6, <1>8
<1> QED
  BY <1>7, <1>9 DEF Counted

(* What TokensOf says of an answer of two leaves at most is their sum. *)
LEMMA TokensOfCounts ==
  ASSUME NEW first \in Seq(Leaf), Len(first) <= 2
  PROVE  TokensOf(first) = Total([i \in DOMAIN first |-> Tokens(first[i])])
<1>1. \A l \in Leaf : Tokens(l) \in Nat
  BY TokensType DEF Node
<1>2. Len(first) \in Nat /\ DOMAIN first = 1..Len(first) /\ \A i \in 1..Len(first) : first[i] \in Leaf
  OBVIOUS
<1>3. PICK w : w = [i \in DOMAIN first |-> Tokens(first[i])]
  OBVIOUS
<1>4. w \in Seq(Nat) /\ Len(w) = Len(first) /\ \A i \in 1..Len(first) : w[i] = Tokens(first[i])
  BY <1>1, <1>2, <1>3
<1>5. Total(<<>>) = 0 /\ <<>> \in Seq(Nat)
  BY TotalAppend
<1>6. CASE Len(first) = 0
  <2>1. w = <<>>
    BY <1>4, <1>6
  <2> QED
    BY <1>2, <1>3, <1>5, <1>6, <2>1 DEF TokensOf
<1>7. CASE Len(first) = 1
  <2>1. DOMAIN first = {1} /\ 1 \in 1..Len(first) /\ Tokens(first[1]) \in Nat
    BY <1>1, <1>2, <1>7
  <2>2. w = Append(<<>>, Tokens(first[1]))
    BY <1>4, <1>7, <2>1
  <2>3. Total(w) = 0 + Tokens(first[1])
    BY <1>5, <2>1, <2>2, TotalAppend
  <2> QED
    BY <1>3, <2>1, <2>3 DEF TokensOf
<1>8. CASE Len(first) = 2
  <2>1. /\ DOMAIN first = {1, 2} /\ 1 \in 1..Len(first) /\ 2 \in 1..Len(first)
        /\ Tokens(first[1]) \in Nat /\ Tokens(first[2]) \in Nat
    BY <1>1, <1>2, <1>8
  <2>2. PICK v : v = Append(<<>>, Tokens(first[1]))
    OBVIOUS
  <2>3. v \in Seq(Nat) /\ Len(v) = 1 /\ v[1] = Tokens(first[1]) /\ Total(v) = Tokens(first[1])
    <3>1. Total(v) = 0 + Tokens(first[1])
      BY <1>5, <2>1, <2>2, TotalAppend
    <3>2. v = <<Tokens(first[1])>>
      BY <2>2
    <3> QED
      BY <2>1, <3>1, <3>2
  <2>4. w = Append(v, Tokens(first[2]))
    <3>1. PICK x : x = Append(v, Tokens(first[2]))
      OBVIOUS
    <3>2. /\ x \in Seq(Nat) /\ Len(x) = 2 /\ x[1] = Tokens(first[1])
          /\ x[2] = Tokens(first[2])
      <4>1. /\ x \in Seq(Nat) /\ Len(x) = Len(v) + 1 /\ x[Len(v) + 1] = Tokens(first[2])
            /\ \A i \in 1..Len(v) : x[i] = v[i]
        <5>1. v \in Seq(Nat)
          BY <2>3
        <5>2. PICK k \in Nat : k = Tokens(first[2])
          BY <2>1
        <5>3. x = Append(v, k)
          BY <3>1, <5>2
        <5> HIDE <3>1
        <5>4. /\ x \in Seq(Nat) /\ Len(x) = Len(v) + 1 /\ x[Len(v) + 1] = k
              /\ \A i \in 1..Len(v) : x[i] = v[i]
          BY <5>1, <5>3, AppendProperties
        <5> QED
          BY <5>2, <5>4
      <4>2. 1 \in 1..Len(v) /\ Len(v) + 1 = 2
        BY <2>3
      <4> QED
        BY <2>3, <4>1, <4>2
    <3>3. \A i \in 1..2 : x[i] = w[i]
      BY <1>4, <1>8, <2>1, <3>2
    <3>4. x = w
      <4>1. w \in Seq(Nat) /\ Len(x) = Len(w) /\ \A i \in 1..Len(x) : x[i] = w[i]
        BY <1>4, <1>8, <3>2, <3>3
      <4> QED
        BY <3>2, <4>1, SeqEqual
    <3> QED
      BY <3>1, <3>4
  <2>5. Total(w) = Tokens(first[1]) + Tokens(first[2])
    BY <2>1, <2>3, <2>4, TotalAppend
  <2> QED
    BY <1>3, <2>1, <2>5 DEF TokensOf
<1> QED
  BY <1>2, <1>6, <1>7, <1>8

(* A leaf-first answer is counted. *)
LEMMA ProbeCounts ==
  ASSUME IInv, Probe
  PROVE  Counted'
<1>1. PICK ranked \in Ranked(Live(Leaf), [n \in Leaf |-> LeafScore(n, entities)], Listed) :
        \E first \in {LeafFirst(ranked)} :
          /\ trace' = [i \in DOMAIN first |-> [node |-> first[i], as |-> "query_router_flat"]]
          /\ consumed' = TokensOf(first)
  BY DEF Probe
<1>a. PICK first \in {LeafFirst(ranked)} :
        /\ trace' = [i \in DOMAIN first |-> [node |-> first[i], as |-> "query_router_flat"]]
        /\ consumed' = TokensOf(first)
  BY <1>1
<1>2. IsFiniteSet(Live(Leaf)) /\ Live(Leaf) \subseteq Leaf
  BY LiveFinite DEF Node
<1>3. ranked \in Seq(Leaf)
  BY <1>2, RankedLists, SeqMonotonic
<1>4. first \in Seq(Leaf) /\ Len(first) <= 2
  <2>1. TypeOK
    BY DEF IInv
  <2>2. \/ first = <<>>
        \/ ranked # <<>> /\ first = <<ranked[1]>>
        \/ \E i \in 2..Len(ranked) : first = <<ranked[1], ranked[i]>>
    BY <1>3, <2>1, LeafFirstCases
  <2>3. ranked # <<>> => ranked[1] \in Leaf
    BY <1>3
  <2>4. \A i \in 2..Len(ranked) : ranked[i] \in Leaf /\ ranked # <<>>
    BY <1>3
  <2>5. CASE first = <<>>
    BY <2>5
  <2>6. CASE ranked # <<>> /\ first = <<ranked[1]>>
    BY <2>3, <2>6
  <2>7. ASSUME NEW i \in 2..Len(ranked), first = <<ranked[1], ranked[i]>>
        PROVE  first \in Seq(Leaf) /\ Len(first) <= 2
    <3>1. PICK x \in Leaf, y \in Leaf : x = ranked[1] /\ y = ranked[i]
      BY <2>3, <2>4
    <3>2. first = <<x, y>>
      BY <2>7, <3>1
    <3> HIDE <2>2, <2>7
    <3> QED
      BY <3>2
  <2> QED
    BY <2>2, <2>5, <2>6, <2>7
<1>5. PICK t : t = trace'
  OBVIOUS
<1>6. Weights(t) = [i \in DOMAIN first |-> Tokens(first[i])]
  <2>1. DOMAIN t = DOMAIN first /\ \A i \in DOMAIN first : t[i].node = first[i]
    BY <1>a, <1>5
  <2> QED
    BY <2>1 DEF Weights
<1>7. TokensOf(first) = Total(Weights(t))
  BY <1>4, <1>6, TokensOfCounts
<1> QED
  BY <1>a, <1>5, <1>7 DEF Counted

(* Every step keeps the count; only those that select change what is counted. *)
LEMMA CountKept == IInv /\ Counted /\ [Next]_vars => Counted'
<1> SUFFICES ASSUME IInv, Counted, [Next]_vars PROVE Counted'
  OBVIOUS
<1>0. ASSUME UNCHANGED <<consumed, trace>> PROVE Counted'
  BY <1>0 DEF Counted
<1>1. CASE Probe
  BY <1>1, ProbeCounts
<1>2. CASE AddChild
  <2>1. Head(queue) \in Node
    BY <1>2, QueueTail DEF AddChild
  <2> QED
    BY <1>2, <2>1, PickCounts, SelectedAsLabels DEF AddChild
<1>3. CASE TakeSummary
  <2>1. CASE UNCHANGED <<store, selection>>
    BY <1>0, <2>1 DEF selection
  <2>2. CASE Pick(summaries[branch], SummaryScore(summaries[branch]), "summary")
    <3>1. branch \in 1..Len(summaries) /\ summaries \in Seq(Summary)
      BY <1>3 DEF TakeSummary, IInv, TypeOK, BranchOpen
    <3>2. summaries[branch] \in Node
      BY <3>1 DEF Node
    <3> QED
      BY <2>2, <3>2, PickCounts, SelectedAsLabels
  <2> QED
    BY <1>3, <2>1, <2>2 DEF TakeSummary
<1>4. CASE Supplement
  <2>1. CASE UNCHANGED <<store, selection>>
    BY <1>0, <2>1 DEF selection
  <2>2. CASE \E n \in BestEligible : Pick(n, LeafScore(n, entities), "supporting_leaf")
    <3>1. PICK n \in BestEligible : Pick(n, LeafScore(n, entities), "supporting_leaf")
      BY <2>2
    <3>2. n \in Range(leaves) /\ leaves \in Seq(Leaf)
      BY DEF BestEligible, Range, IInv, TypeOK
    <3>3. n \in Node
      BY <3>2 DEF Range, Node
    <3> QED
      BY <3>1, <3>3, PickCounts, SelectedAsLabels
  <2> QED
    BY <1>4, <2>1, <2>2 DEF Supplement
<1>5. CASE TakeFlat
  <2>1. Head(queue) \in Node
    BY <1>5, QueueTail DEF TakeFlat
  <2> QED
    BY <1>5, <2>1, PickCounts, SelectedAsLabels DEF TakeFlat
<1>6. CASE RouteQuery \/ ListSummaries \/ OpenBranch \/ ReadChild \/ Descend \/ SkipChild
           \/ ChildrenAdded
  BY <1>0, <1>6 DEF RouteQuery, ListSummaries, OpenBranch, ReadChild, Descend, SkipChild,
     ChildrenAdded, selection
<1>7. CASE Finish \/ ListFlat \/ SkipFlat \/ FlatEnds \/ PackNode \/ Answer
  BY <1>0, <1>7 DEF Finish, ListFlat, SkipFlat, FlatEnds, PackNode, Answer, selection
<1>8. CASE Forget \/ \E n \in Node : Write(n) \/ OtherMarks(n) \/ WriteBack(n)
  BY <1>0, <1>8 DEF Forget, Write, OtherMarks, WriteBack, selection
<1>11. CASE Marks
  BY <1>0, <1>11 DEF Marks, MarkReads, MarkMissesRow, MarkWrites, MarkFails
<1>9. CASE (\E s \in Summary : MarkStale(s)) \/ \E r \in Request : Receive(r)
  BY <1>0, <1>9 DEF MarkStale, Receive, selection
<1>10. CASE UNCHANGED vars
  BY <1>0, <1>10 DEF vars, selection
<1> QED
  BY <1>1, <1>2, <1>3, <1>4, <1>5, <1>6, <1>7, <1>8, <1>9, <1>10, <1>11
  DEF Next, Work, Selects

(* However the branches share leaves, and in whatever order nodes are picked   *)
(* and sorted, a call's `consumed`, its trace and its selection agree.        *)
THEOREM Bookkeeping == Spec => []BookkeepingAgrees
<1>1. Init => Counted
  <2> SUFFICES ASSUME Init PROVE Counted
    OBVIOUS
  <2>1. trace = <<>> /\ consumed = 0
    BY DEF Init
  <2>2. Weights(trace) = <<>>
    BY <2>1 DEF Weights
  <2> QED
    BY <2>1, <2>2, TotalAppend DEF Counted
<1>2. IInv /\ Counted => BookkeepingAgrees
  <2> SUFFICES ASSUME IInv, Counted PROVE BookkeepingAgrees
    OBVIOUS
  <2>1. /\ Len(picked) \in Nat /\ DOMAIN picked = 1..Len(picked)
        /\ \A i, j \in DOMAIN picked : picked[i].node = picked[j].node => i = j
    BY PickedTypes DEF IInv, SelectedOnce
  <2>2. ExistsBijection(1..Len(picked), PickedNodes)
    <3>1. PICK f : f = [i \in 1..Len(picked) |-> picked[i].node]
      OBVIOUS
    <3>2. f \in Bijection(1..Len(picked), PickedNodes)
      BY <2>1, <3>1 DEF Bijection, Injection, Surjection, IsInjective, PickedNodes, Range
    <3> QED
      BY <3>2 DEF ExistsBijection
  <2>3. Cardinality(PickedNodes) = Len(picked)
    BY <2>1, <2>2, FS_CountingElements
  <2>4. Traced = PickedNodes /\ Len(trace) = Len(picked)
    BY DEF IInv, SelectedOnce
  <2>5. consumed = Total([i \in DOMAIN trace |-> Tokens(trace[i].node)])
    BY DEF Counted, Weights
  <2> QED
    BY <2>3, <2>4, <2>5 DEF BookkeepingAgrees
<1> QED
  BY <1>1, <1>2, CountKept, Invariance, PTL DEF Spec

-----------------------------------------------------------------------------
(* The context *)

Snippets(s) == [i \in DOMAIN s |-> SnippetTokens(s[i])]

(* The context is what the query and the snippets in it count, within the      *)
(* budget unless the query alone is not.                                     *)
ContextCounted ==
  /\ stage \notin {"pack", "done", "failed"} => packed = <<>>
  /\ stage # "idle" => /\ used = q.tokens + Total(Snippets(packed))
                       /\ used <= AtLeast(request.budget, q.tokens)

NoOverlap ==
  \A i, j \in DOMAIN packed : i < j =>
    packed[i] # packed[j] /\ {packed[i], packed[j]} \notin Similar

(* Whatever was selected is still to pack, or was left out for a reason that   *)
(* has not gone away: the context only grows.                                *)
NoneForgotten ==
  /\ stage \in {"pack", "done"} =>
       \A n \in PickedNodes : n \in Range(queue) \/ Overlaps(n) \/ ~FitsContext(n)
  /\ stage = "done" => queue = <<>>

Packing == ContextCounted /\ NoOverlap /\ NoneForgotten

LEMMA SnippetsAppend ==
  ASSUME NEW s \in Seq(Node), NEW n \in Node
  PROVE  Total(Snippets(Append(s, n))) = Total(Snippets(s)) + SnippetTokens(n)
<1>1. \A m \in Node : SnippetTokens(m) \in Nat
  BY TokensType DEF SnippetTokens
<1>2. PICK u \in Seq(Node) : u = Append(s, n)
  BY AppendProperties
<1>3. /\ Len(u) = Len(s) + 1 /\ u[Len(s) + 1] = n /\ \A i \in 1..Len(s) : u[i] = s[i]
      /\ Len(s) \in Nat
  BY <1>2, AppendProperties, LenProperties
<1>4. PICK w : w = Snippets(s)
  OBVIOUS
<1>5. w \in Seq(Nat) /\ Len(w) = Len(s) /\ \A i \in 1..Len(s) : w[i] = SnippetTokens(s[i])
  BY <1>1, <1>4 DEF Snippets
<1>6. PICK v : v = Snippets(u)
  OBVIOUS
<1>7. v \in Seq(Nat) /\ Len(v) = Len(u) /\ \A i \in 1..Len(u) : v[i] = SnippetTokens(u[i])
  BY <1>1, <1>6 DEF Snippets
<1>8. PICK k \in Nat : k = SnippetTokens(n)
  BY <1>1
<1>9. PICK x : x = Append(w, k)
  OBVIOUS
<1>10. /\ x \in Seq(Nat) /\ Len(x) = Len(w) + 1 /\ x[Len(w) + 1] = k
       /\ \A i \in 1..Len(w) : x[i] = w[i]
  BY <1>5, <1>9, AppendProperties
<1>11. Len(x) = Len(v) /\ \A i \in 1..Len(x) : x[i] = v[i]
  <2>1. \A i \in 1..Len(x) : i \in 1..Len(u) /\ (i \in 1..Len(s) \/ i = Len(s) + 1)
    BY <1>3, <1>5, <1>10
  <2> QED
    BY <1>3, <1>5, <1>7, <1>8, <1>10, <2>1
<1>12. x = v
  BY <1>7, <1>10, <1>11, SeqEqual
<1>13. Total(x) = Total(w) + k
  BY <1>5, <1>9, TotalAppend
<1> QED
  BY <1>2, <1>4, <1>6, <1>8, <1>12, <1>13

(* A step outside the packing. *)
LEMMA PackingKept ==
  ASSUME Packing, UNCHANGED <<request, context>>,
         \/ UNCHANGED <<stage, queue, picked>>
         \/ stage \notin {"idle", "pack", "done", "failed"} /\ stage' \notin {"pack", "done"}
         \/ stage # "idle" /\ stage' = "failed"
  PROVE  Packing'
<1>1. packed' = packed /\ used' = used /\ request' = request
  BY DEF context
<1>2. ContextCounted'
  BY <1>1 DEF Packing, ContextCounted, q
<1>3. NoOverlap'
  BY <1>1 DEF Packing, NoOverlap
<1>4. NoneForgotten'
  <2>1. CASE UNCHANGED <<stage, queue, picked>>
    BY <1>1, <2>1 DEF Packing, NoneForgotten, PickedNodes, Overlaps, FitsContext
  <2>2. CASE stage' \notin {"pack", "done"}
    BY <2>2 DEF NoneForgotten
  <2> QED
    BY <2>1, <2>2
<1> QED
  BY <1>2, <1>3, <1>4 DEF Packing

(* A step that starts the packing with everything that is selected. *)
LEMMA PackingStarts ==
  ASSUME Packing, UNCHANGED <<request, context>>, stage \notin {"idle", "pack", "done", "failed"},
         stage' = "pack", PickedNodes' \subseteq Range(queue')
  PROVE  Packing'
<1>1. packed' = packed /\ used' = used /\ request' = request
  BY DEF context
<1>2. ContextCounted' /\ NoOverlap'
  BY <1>1 DEF Packing, ContextCounted, NoOverlap, q
<1>3. NoneForgotten'
  BY DEF NoneForgotten
<1> QED
  BY <1>2, <1>3 DEF Packing

(* One node is packed, or left out. *)
LEMMA PackNodePacks ==
  ASSUME IInv, Packing, PackNode
  PROVE  Packing'
<1> DEFINE n == Head(queue)
<1>0. /\ packed \in Seq(Node) /\ used \in Nat /\ request.budget \in Nat /\ q.tokens \in Nat
      /\ queue \in Seq(Node)
  BY TypeParts, RequestsAssumption DEF IInv, ContextTypes, ProbeTypes, q
<1>1. /\ stage = "pack" /\ queue # <<>> /\ queue' = Tail(queue) /\ stage' = "pack"
      /\ request' = request /\ PickedNodes' = PickedNodes
  BY DEF PackNode, PickedNodes, selection
<1>2. \/ Overlaps(n) /\ packed' = packed /\ used' = used
      \/ ~FitsContext(n) /\ packed' = packed /\ used' = used
      \/ /\ ~Overlaps(n) /\ FitsContext(n)
         /\ packed' = Append(packed, n) /\ used' = used + SnippetTokens(n)
  BY DEF PackNode, context
<1>3. n \in Node /\ SnippetTokens(n) \in Nat
  BY <1>1, QueueTail, TokensType DEF SnippetTokens
<1>4. \A m \in Range(queue) : m = n \/ m \in Range(queue')
  <2>1. /\ Len(queue) \in Nat /\ DOMAIN queue = 1..Len(queue) /\ n = queue[1]
        /\ DOMAIN Tail(queue) = 1..Len(queue) - 1
        /\ \A i \in 1..Len(queue) - 1 : Tail(queue)[i] = queue[i + 1]
    BY <1>0, <1>1
  <2> HIDE DEF n
  <2> SUFFICES ASSUME NEW i \in DOMAIN queue, queue[i] # n PROVE queue[i] \in Range(Tail(queue))
    BY <1>1 DEF Range
  <2>2. i - 1 \in 1..Len(queue) - 1 /\ i - 1 + 1 = i
    BY <2>1
  <2>3. Tail(queue)[i - 1] = queue[i] /\ i - 1 \in DOMAIN Tail(queue)
    BY <2>1, <2>2
  <2> QED
    BY <2>3 DEF Range
<1> HIDE DEF n
<1>5. CASE packed' = packed /\ used' = used /\ (Overlaps(n) \/ ~FitsContext(n))
  <2>1. ContextCounted' /\ NoOverlap'
    BY <1>1, <1>5 DEF Packing, ContextCounted, NoOverlap, q
  <2>2. \A m : (Overlaps(m))' = Overlaps(m) /\ (FitsContext(m))' = FitsContext(m)
    BY <1>1, <1>5 DEF Overlaps, FitsContext
  <2>3. NoneForgotten'
    BY <1>1, <1>4, <1>5, <2>2 DEF Packing, NoneForgotten
  <2> QED
    BY <2>1, <2>3 DEF Packing
<1>6. CASE /\ ~Overlaps(n) /\ FitsContext(n)
           /\ packed' = Append(packed, n) /\ used' = used + SnippetTokens(n)
  <2>1. /\ Len(packed) \in Nat /\ DOMAIN packed = 1..Len(packed)
        /\ DOMAIN packed' = 1..Len(packed) + 1 /\ packed'[Len(packed) + 1] = n
        /\ \A i \in 1..Len(packed) : packed'[i] = packed[i]
    <3>1. PICK s : s = packed'
      OBVIOUS
    <3>2. /\ s \in Seq(Node) /\ Len(s) = Len(packed) + 1 /\ s[Len(packed) + 1] = n
          /\ \A i \in 1..Len(packed) : s[i] = packed[i]
      BY <1>0, <1>3, <1>6, <3>1, AppendProperties
    <3>3. DOMAIN s = 1..Len(s) /\ DOMAIN packed = 1..Len(packed) /\ Len(packed) \in Nat
      BY <1>0, <3>2, LenProperties
    <3> QED
      BY <3>1, <3>2, <3>3
  <2>2. ContextCounted'
    <3>1. PICK s \in Seq(Node) : s = packed
      BY <1>0
    <3>2. PICK t : t = packed'
      OBVIOUS
    <3>3. Total(Snippets(t)) = Total(Snippets(s)) + SnippetTokens(n)
      BY <1>3, <1>6, <3>1, <3>2, SnippetsAppend
    <3>4. Total(Snippets(s)) \in Nat
      <4>1. Snippets(s) \in Seq(Nat)
        BY TokensType DEF Snippets, SnippetTokens
      <4> QED
        BY <4>1, TotalAppend
    <3>5. used = q.tokens + Total(Snippets(s))
      BY <1>1, <3>1 DEF Packing, ContextCounted
    <3>6. used' = q.tokens + Total(Snippets(t))
      BY <1>0, <1>3, <1>6, <3>3, <3>4, <3>5
    <3>7. used' <= request.budget /\ used' \in Nat
      BY <1>0, <1>3, <1>6 DEF FitsContext
    <3>8. used' <= AtLeast(request.budget, q.tokens)
      BY <1>0, <3>7 DEF AtLeast
    <3> QED
      BY <1>1, <3>2, <3>6, <3>8 DEF ContextCounted, q
  <2>3. NoOverlap'
    <3>1. \A i \in 1..Len(packed) : packed[i] # n /\ {packed[i], n} \notin Similar
      BY <1>6, <2>1 DEF Overlaps
    <3>2. ASSUME NEW i \in 1..Len(packed) + 1, NEW j \in 1..Len(packed) + 1, i < j
          PROVE  packed'[i] # packed'[j] /\ {packed'[i], packed'[j]} \notin Similar
      <4>1. i \in 1..Len(packed) /\ (j \in 1..Len(packed) \/ j = Len(packed) + 1)
        BY <2>1, <3>2
      <4>2. CASE j \in 1..Len(packed)
        BY <2>1, <3>2, <4>1, <4>2 DEF Packing, NoOverlap
      <4>3. CASE j = Len(packed) + 1
        BY <2>1, <3>1, <4>1, <4>3
      <4> QED
        BY <4>1, <4>2, <4>3
    <3> QED
      BY <2>1, <3>2 DEF NoOverlap
  <2>t. /\ DOMAIN packed \subseteq DOMAIN packed'
        /\ \A i \in DOMAIN packed : packed'[i] = packed[i]
        /\ Len(packed) + 1 \in DOMAIN packed'
    BY <2>1
  <2>4. ASSUME NEW m, Overlaps(m) PROVE Overlaps(m)'
    <3>1. PICK i \in DOMAIN packed : m = packed[i] \/ {m, packed[i]} \in Similar
      BY <2>4 DEF Overlaps
    <3>2. i \in DOMAIN packed' /\ packed'[i] = packed[i]
      BY <2>t
    <3> QED
      BY <3>1, <3>2 DEF Overlaps
  <2>5. \A m \in Node : ~FitsContext(m) => ~FitsContext(m)'
    <3>1. \A m \in Node : SnippetTokens(m) \in Nat
      BY TokensType DEF SnippetTokens
    <3> QED
      BY <1>0, <1>1, <1>3, <1>6, <3>1 DEF FitsContext
  <2>6. ASSUME NEW m, m = n PROVE Overlaps(m)'
    BY <2>1, <2>t, <2>6 DEF Overlaps
  <2>7. PickedNodes \subseteq Node
    BY PickedTypes DEF PickedNodes
  <2>8. ASSUME NEW m \in PickedNodes
        PROVE  m \in Range(queue') \/ Overlaps(m)' \/ ~FitsContext(m)'
    <3>1. m \in Range(queue) \/ Overlaps(m) \/ ~FitsContext(m)
      BY <1>1 DEF Packing, NoneForgotten
    <3>2. CASE m \in Range(queue)
      BY <1>4, <2>6, <3>2
    <3>3. CASE Overlaps(m)
      BY <2>4, <3>3
    <3>4. CASE ~FitsContext(m)
      BY <2>5, <2>7, <3>4
    <3> QED
      BY <3>1, <3>2, <3>3, <3>4
  <2>9. NoneForgotten'
    BY <1>1, <2>8 DEF NoneForgotten
  <2> QED
    BY <2>2, <2>3, <2>9 DEF Packing
<1> QED
  BY <1>2, <1>5, <1>6

(* Everything that was selected is queued when the packing starts. *)
LEMMA ProbePacks ==
  ASSUME IInv, Packing, Probe
  PROVE  Packing'
<1>0. stage = "probe" /\ UNCHANGED <<request, context>>
  BY DEF Probe
<1>1. PICK ranked \in Ranked(Live(Leaf), [n \in Leaf |-> LeafScore(n, entities)], Listed) :
        \E first \in {LeafFirst(ranked)} :
          /\ stage' = IF first # <<>> THEN "pack" ELSE IF legacy THEN "list" ELSE "route"
          /\ picked' = [i \in DOMAIN first |->
                          [node |-> first[i], score |-> LeafScore(first[i], entities)]]
          /\ queue' = first
  BY DEF Probe
<1>2. PICK first \in {LeafFirst(ranked)} :
        /\ stage' = IF first # <<>> THEN "pack" ELSE IF legacy THEN "list" ELSE "route"
        /\ picked' = [i \in DOMAIN first |->
                        [node |-> first[i], score |-> LeafScore(first[i], entities)]]
        /\ queue' = first
  BY <1>1
<1>3. CASE stage' = "pack"
  <2>1. \A i \in DOMAIN picked' : i \in DOMAIN queue' /\ picked'[i].node = queue'[i]
    BY <1>2
  <2>2. PickedNodes' \subseteq Range(queue')
    BY <2>1 DEF PickedNodes, Range
  <2> QED
    BY <1>0, <1>3, <2>2, PackingStarts
<1>4. CASE stage' # "pack"
  <2>1. stage' \notin {"pack", "done"}
    BY <1>2, <1>4
  <2> QED
    BY <1>0, <2>1, PackingKept
<1> QED
  BY <1>3, <1>4

LEMMA FinishPacks ==
  ASSUME IInv, Packing, Finish
  PROVE  Packing'
<1>0. stage = "finish" /\ UNCHANGED <<request, context>>
  BY DEF Finish
<1>1. CASE picked = <<>>
  <2>1. stage' = "flatList"
    BY <1>1 DEF Finish
  <2> QED
    BY <1>0, <2>1, PackingKept
<1>2. CASE picked # <<>>
  <2>1. PICK order \in Ranked(DOMAIN picked, [i \in DOMAIN picked |-> picked[i].score],
                              [i \in DOMAIN picked |-> i]) :
          /\ picked' = [i \in DOMAIN picked |-> picked[order[i]]]
          /\ queue' = [i \in DOMAIN picked |-> picked[order[i]].node]
    BY <1>2 DEF Finish
  <2>2. stage' = "pack"
    BY <1>2 DEF Finish
  <2>3. \A i \in DOMAIN picked' : i \in DOMAIN queue' /\ picked'[i].node = queue'[i]
    BY <2>1
  <2>4. PickedNodes' \subseteq Range(queue')
    BY <2>3 DEF PickedNodes, Range
  <2> QED
    BY <1>0, <2>2, <2>4, PackingStarts
<1> QED
  BY <1>1, <1>2

LEMMA FlatEndsPacks ==
  ASSUME IInv, Packing, FlatEnds
  PROVE  Packing'
<1>1. /\ stage = "flat" /\ stage' = "pack" /\ picked' = picked
      /\ UNCHANGED <<request, context>>
      /\ queue' = [i \in DOMAIN picked |-> picked[i].node]
  BY DEF FlatEnds, selection
<1>2. PickedNodes' = PickedNodes /\ Range(queue') = PickedNodes
  BY <1>1 DEF PickedNodes, Range
<1> QED
  BY <1>1, <1>2, PackingStarts

(* The call starts with the tokens of the query. *)
LEMMA ReceivePacks ==
  ASSUME IInv, Packing, NEW r \in Request, Receive(r)
  PROVE  Packing'
<1>1. /\ packed = <<>> /\ packed' = <<>> /\ request' = r /\ used' = r.query.tokens
      /\ stage' \in {"flatList", "route"}
  BY DEF Receive, Packing, ContextCounted
<1>2. Snippets(<<>>) = <<>>
  BY DEF Snippets
<1>3. r.query.tokens \in Nat /\ r.budget \in Nat
  BY RequestsAssumption
<1>4. used' = r.query.tokens + Total(Snippets(<<>>)) /\ used' <= AtLeast(r.budget, r.query.tokens)
  BY <1>1, <1>2, <1>3, TotalAppend DEF AtLeast
<1>5. ContextCounted'
  BY <1>1, <1>4 DEF ContextCounted, q
<1>6. NoOverlap' /\ NoneForgotten'
  BY <1>1 DEF NoOverlap, NoneForgotten
<1> QED
  BY <1>5, <1>6 DEF Packing

LEMMA PackingInductive == IInv /\ Packing /\ [Next]_vars => Packing'
<1> SUFFICES ASSUME IInv, Packing, [Next]_vars PROVE Packing'
  OBVIOUS
<1>1. CASE Probe
  BY <1>1, ProbePacks
<1>2. CASE Finish
  BY <1>2, FinishPacks
<1>3. CASE FlatEnds
  BY <1>3, FlatEndsPacks
<1>4. CASE PackNode
  BY <1>4, PackNodePacks
<1>5. CASE Answer
  <2>1. /\ stage = "pack" /\ stage' = "done" /\ queue = <<>> /\ queue' = <<>>
        /\ UNCHANGED <<request, context, selection>>
    BY <1>5 DEF Answer
  <2>2. packed' = packed /\ used' = used /\ request' = request /\ PickedNodes' = PickedNodes
    BY <2>1 DEF context, selection, PickedNodes
  <2>3. ContextCounted' /\ NoOverlap'
    BY <2>1, <2>2 DEF Packing, ContextCounted, NoOverlap, q
  <2>4. NoneForgotten'
    BY <2>1, <2>2 DEF Packing, NoneForgotten, Overlaps, FitsContext
  <2> QED
    BY <2>3, <2>4 DEF Packing
<1>6. CASE \E r \in Request : Receive(r)
  BY <1>6, ReceivePacks
<1>7. CASE RouteQuery \/ ListSummaries \/ OpenBranch \/ ReadChild \/ Descend
  <2>1. /\ UNCHANGED <<request, context>> /\ stage \notin {"idle", "pack", "done", "failed"}
        /\ stage' \notin {"pack", "done"}
    BY <1>7 DEF RouteQuery, ListSummaries, OpenBranch, ReadChild, Descend
  <2> QED
    BY <2>1, PackingKept
<1>8. CASE AddChild \/ SkipChild \/ ChildrenAdded \/ TakeSummary \/ Supplement
  <2>1. /\ UNCHANGED <<request, context>> /\ stage \notin {"idle", "pack", "done", "failed"}
        /\ stage' \notin {"pack", "done"}
    BY <1>8 DEF AddChild, SkipChild, ChildrenAdded, TakeSummary, Supplement, NextBranch
  <2> QED
    BY <2>1, PackingKept
<1>9. CASE ListFlat \/ TakeFlat \/ SkipFlat
  <2>1. /\ UNCHANGED <<request, context>> /\ stage \notin {"idle", "pack", "done", "failed"}
        /\ stage' \notin {"pack", "done"}
    BY <1>9 DEF ListFlat, TakeFlat, SkipFlat
  <2> QED
    BY <2>1, PackingKept
<1>10. CASE \/ Forget \/ UNCHANGED vars
            \/ \E n \in Node : Write(n) \/ OtherMarks(n) \/ WriteBack(n)
            \/ \E s \in Summary : MarkStale(s)
  <2>1. UNCHANGED <<request, context, stage, queue, picked>>
    BY <1>10 DEF Forget, Write, OtherMarks, WriteBack, MarkStale, vars, selection
  <2> QED
    BY <2>1, PackingKept
<1>11. CASE MarkReads \/ MarkMissesRow \/ MarkWrites
  <2>1. UNCHANGED <<request, context, stage, queue, picked>>
    BY <1>11 DEF MarkReads, MarkMissesRow, MarkWrites
  <2> QED
    BY <2>1, PackingKept
<1>12. CASE MarkFails
  <2>1. stage' = "failed" /\ UNCHANGED <<request, context>> /\ marking # <<>>
    BY <1>12 DEF MarkFails, IInv, Pending
  <2>2. Head(marking) \in Traced
    BY <2>1, MarkingTail
  <2>3. stage # "idle"
    BY <2>2 DEF IInv, Fresh, SelectedOnce, PickedNodes
  <2> QED
    BY <2>1, <2>3, PackingKept
<1> QED
  BY <1>1, <1>2, <1>3, <1>4, <1>5, <1>6, <1>7, <1>8, <1>9, <1>10, <1>11, <1>12
  DEF Next, Work, Marks, Selects

(* For any selection and any budget, the context keeps within the budget of    *)
(* the request, repeats nothing, and leaves out only what overlaps or does   *)
(* not fit.                                                                  *)
THEOREM Packed == Spec => []ContextPacked
<1>1. Init => Packing
  BY DEF Init, Packing, ContextCounted, NoOverlap, NoneForgotten
<1>2. Packing => ContextPacked
  BY DEF Packing, ContextCounted, NoOverlap, NoneForgotten, ContextPacked, Snippets, Range
<1> QED
  BY <1>1, <1>2, PackingInductive, Invariance, PTL DEF Spec

=============================================================================
