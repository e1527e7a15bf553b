------------------------- MODULE ParetoFrontierProofs -------------------------
(***************************************************************************)
(* What the arithmetic of the frontier sweep guarantees for any finite set of *)
(* candidates: the one with the best utility score is on the frontier.        *)
(***************************************************************************)
EXTENDS ParetoFrontier, FiniteSetTheorems, WellFoundedInduction, TLAPS

(* A set of natural numbers has a least member.                              *)
LEMMA Least ==
  ASSUME NEW T \in SUBSET Nat, T # {}
  PROVE  \E n \in T : \A m \in T : n <= m
<1>1. PICK n \in T : \A m \in T : ~(<<m, n>> \in OpToRel(<, Nat))
  BY NatLessThanWellFounded, WFMin
<1>2. \A m \in T : ~(m < n)
  BY <1>1 DEF OpToRel
<1> QED
  BY <1>2

(* A finite set has a member at which a function is greatest: a smallest set   *)
(* without one would have one left when any other member is taken out.       *)
LEMMA Greatest ==
  ASSUME NEW S, IsFiniteSet(S), S # {}, NEW f \in [S -> Int]
  PROVE  \E m \in S : \A x \in S : f[x] <= f[m]
<1> DEFINE Topped(T) == \E m \in T : \A x \in T : f[x] <= f[m]
           Bad == {n \in Nat : \E T \in SUBSET S : T # {} /\ Cardinality(T) = n /\ ~Topped(T)}
<1> SUFFICES ASSUME ~Topped(S) PROVE FALSE
  OBVIOUS
<1>1. Cardinality(S) \in Bad
  BY FS_CardinalityType
<1>2. PICK n \in Bad : \A m \in Bad : n <= m
  <2> HIDE DEF Bad
  <2>1. Bad \in SUBSET Nat
    BY DEF Bad
  <2> QED
    BY <1>1, <2>1, Least
<1>3. PICK T \in SUBSET S : T # {} /\ Cardinality(T) = n /\ ~Topped(T)
  BY <1>2
<1>4. PICK t \in T : TRUE
  BY <1>3
<1>5. PICK R : R = T \ {t}
  OBVIOUS
<1>6. IsFiniteSet(T)
  BY <1>3, FS_Subset
<1>7. Cardinality(R) = n - 1 /\ n \in Nat /\ Cardinality(R) \in Nat
  BY <1>2, <1>3, <1>4, <1>5, <1>6, FS_RemoveElement, FS_CardinalityType
<1>8. R # {}
  <2> SUFFICES ASSUME R = {} PROVE FALSE
    OBVIOUS
  <2>1. T = {t}
    BY <1>4, <1>5
  <2>2. f[t] \in Int
    BY <1>3, <1>4
  <2> QED
    BY <1>3, <2>1, <2>2
<1>9. Topped(R)
  <2> SUFFICES ASSUME ~Topped(R) PROVE FALSE
    OBVIOUS
  <2>1. Cardinality(R) \in Bad
    BY <1>3, <1>5, <1>7, <1>8
  <2> QED
    BY <1>2, <1>7, <2>1
<1>10. PICK m \in R : \A x \in R : f[x] <= f[m]
  BY <1>9
<1>11. \A x \in T : x \in R \/ x = t
  BY <1>5
<1>12. m \in S /\ t \in S /\ m \in T /\ \A x \in T : x \in S
  BY <1>3, <1>4, <1>5, <1>10
<1>13. CASE f[t] <= f[m]
  BY <1>3, <1>10, <1>11, <1>12, <1>13
<1>14. CASE f[m] <= f[t]
  <2>1. \A x \in T : f[x] <= f[t]
    BY <1>10, <1>11, <1>12, <1>14
  <2> QED
    BY <1>3, <1>4, <2>1
<1> QED
  BY <1>12, <1>13, <1>14

LEMMA ImageFinite ==
  ASSUME NEW S, IsFiniteSet(S), NEW T, NEW f \in [S -> T], T = {f[x] : x \in S}
  PROVE  IsFiniteSet(T)
<1>1. f \in Surjection(S, T)
  BY DEF Surjection
<1> QED
  BY <1>1, FS_Surjection

-----------------------------------------------------------------------------
(* Rows of a ranking: finitely many, each with an integer for an objective.   *)
Rows(rows) == IsFiniteSet(rows) /\ rows # {} /\ \A x \in rows : x.vector \in [Objective -> Int]

(* The greatest and the least value of an objective.                         *)
LEMMA Extremes ==
  ASSUME NEW rows, Rows(rows), NEW k \in Objective
  PROVE  /\ Lowest(rows, k) \in Int /\ Span(rows, k) \in Nat
         /\ \A x \in rows : x.vector[k] - Lowest(rows, k) \in 0..Span(rows, k)
<1>1. \A x \in rows : x.vector[k] \in Int
  BY DEF Rows
<1>2. PICK f : f = [x \in rows |-> x.vector[k]]
  OBVIOUS
<1>3. PICK g : g = [x \in rows |-> -x.vector[k]]
  OBVIOUS
<1>4. f \in [rows -> Int] /\ g \in [rows -> Int]
  BY <1>1, <1>2, <1>3
<1>5. PICK hi \in rows : \A x \in rows : f[x] <= f[hi]
  BY <1>4, Greatest DEF Rows
<1>6. PICK lo \in rows : \A x \in rows : g[x] <= g[lo]
  BY <1>4, Greatest DEF Rows
<1>7. PICK values : values = {x.vector[k] : x \in rows}
  OBVIOUS
<1>8. \A v \in values : v \in Int
  BY <1>1, <1>7
<1>9. \A x \in rows : x.vector[k] <= hi.vector[k] /\ lo.vector[k] <= x.vector[k]
  BY <1>1, <1>2, <1>3, <1>5, <1>6
<1>10. /\ Max(values) \in values /\ \A v \in values : Max(values) >= v
       /\ Min(values) \in values /\ \A v \in values : Min(values) <= v
  <2>1. hi.vector[k] \in values /\ \A v \in values : hi.vector[k] >= v
    BY <1>1, <1>7, <1>9
  <2>2. lo.vector[k] \in values /\ \A v \in values : lo.vector[k] <= v
    BY <1>1, <1>7, <1>9
  <2>3. Max(values) \in values /\ \A v \in values : Max(values) >= v
    BY <2>1 DEF Max
  <2>4. Min(values) \in values /\ \A v \in values : Min(values) <= v
    BY <2>2 DEF Min
  <2> QED
    BY <2>3, <2>4
<1>11. Lowest(rows, k) = Min(values) /\ Span(rows, k) = Max(values) - Min(values)
  BY <1>7 DEF Lowest, Span
<1>12. Max(values) \in Int /\ Min(values) \in Int /\ Max(values) >= Min(values)
  BY <1>8, <1>10
<1>13. \A x \in rows : x.vector[k] \in values
  BY <1>7
<1> HIDE DEF Rows
<1>14. \A v \in values : v - Min(values) \in 0..(Max(values) - Min(values))
  BY <1>8, <1>10, <1>12
<1> QED
  BY <1>11, <1>12, <1>13, <1>14

(* What one objective adds to the utility, and that more of it adds more.     *)
Scaled(rows, x, k) ==
  IF Span(rows, k) = 0 THEN Unit(rows) \div 2
  ELSE (x.vector[k] - Lowest(rows, k)) * (Unit(rows) \div Span(rows, k))

LEMMA ScaleIsSpan ==
  ASSUME NEW rows, Rows(rows), NEW k \in Objective
  PROVE  /\ Scale(rows, k) \in Nat /\ Scale(rows, k) > 0
         /\ Span(rows, k) # 0 => Scale(rows, k) = Span(rows, k)
<1>1. Span(rows, k) \in Nat
  BY Extremes
<1>2. ASSUME NEW n \in Nat
      PROVE  Max({n, 1}) = IF n = 0 THEN 1 ELSE n
  <2>1. PICK m \in {n, 1} : \A y \in {n, 1} : m >= y
    OBVIOUS
  <2>2. Max({n, 1}) \in {n, 1} /\ \A y \in {n, 1} : Max({n, 1}) >= y
    BY <2>1 DEF Max
  <2> QED
    BY <2>2
<1> QED
  BY <1>1, <1>2 DEF Scale

LEMMA Multiple ==
  ASSUME NEW a \in Nat, NEW b \in Nat, NEW n, a > 0, b > 0, n = a * b
  PROVE  n \in Nat /\ n \div a = b
  OBVIOUS

LEMMA UnitDivides ==
  ASSUME NEW rows, Rows(rows), NEW k \in Objective
  PROVE  /\ Unit(rows) \in Nat /\ Unit(rows) \div 2 \in Nat
         /\ Span(rows, k) # 0 => Unit(rows) \div Span(rows, k) \in Nat /\ Unit(rows) \div Span(rows, k) > 0
<1>1. PICK a, b, c : a = Scale(rows, "gain") /\ b = Scale(rows, "worst") /\ c = Scale(rows, "family")
  OBVIOUS
<1>2. a \in Nat /\ b \in Nat /\ c \in Nat /\ a > 0 /\ b > 0 /\ c > 0
  BY <1>1, ScaleIsSpan DEF Objective
<1>3. Unit(rows) = 2 * a * b * c
  BY <1>1 DEF Unit
<1>4. ASSUME NEW u \in Nat, NEW v \in Nat, u > 0, v > 0 PROVE u * v \in Nat /\ u * v > 0
  BY <1>4
<1>5. b * c \in Nat /\ b * c > 0 /\ a * c \in Nat /\ a * c > 0 /\ a * b \in Nat /\ a * b > 0
  BY <1>2, <1>4
<1>6. /\ Unit(rows) = 2 * (a * (b * c)) /\ Unit(rows) = a * (2 * (b * c))
      /\ Unit(rows) = b * (2 * (a * c)) /\ Unit(rows) = c * (2 * (a * b))
  BY <1>2, <1>3
<1>7. a * (b * c) \in Nat /\ a * (b * c) > 0
  BY <1>2, <1>4, <1>5
<1>8. Unit(rows) \in Nat /\ Unit(rows) \div 2 = a * (b * c)
  BY <1>6, <1>7, Multiple
<1>9. \A u \in Nat : u > 0 => 2 * u \in Nat /\ 2 * u > 0
  OBVIOUS
<1>10. /\ Unit(rows) \div a = 2 * (b * c) /\ Unit(rows) \div b = 2 * (a * c) /\ Unit(rows) \div c = 2 * (a * b)
  <2>1. Unit(rows) \div a = 2 * (b * c)
    BY <1>2, <1>5, <1>6, <1>9, Multiple
  <2>2. Unit(rows) \div b = 2 * (a * c)
    BY <1>2, <1>5, <1>6, <1>9, Multiple
  <2>3. Unit(rows) \div c = 2 * (a * b)
    BY <1>2, <1>5, <1>6, <1>9, Multiple
  <2> QED
    BY <2>1, <2>2, <2>3
<1>11. ASSUME Span(rows, k) # 0 PROVE Span(rows, k) \in {a, b, c}
  BY <1>1, <1>11, ScaleIsSpan DEF Objective
<1>12. \A d \in {a, b, c} : Unit(rows) \div d \in Nat /\ Unit(rows) \div d > 0
  BY <1>5, <1>9, <1>10
<1> QED
  BY <1>7, <1>8, <1>11, <1>12

LEMMA ProductGrows ==
  ASSUME NEW u \in Nat, NEW v \in Nat, NEW w \in Nat
  PROVE  /\ u * w \in Nat
         /\ u <= v => u * w <= v * w
         /\ u < v /\ w > 0 => u * w < v * w
<1>1. \A a \in Nat, b \in Nat : a * b \in Nat /\ (a > 0 /\ b > 0 => a * b > 0)
  OBVIOUS
<1>2. v * w = u * w + (v - u) * w
  OBVIOUS
<1>3. ASSUME u <= v PROVE (v - u) \in Nat /\ (v - u) * w \in Nat
  BY <1>1, <1>3
<1>4. ASSUME u < v, w > 0 PROVE (v - u) * w > 0
  <2>1. v - u \in Nat /\ v - u > 0
    BY <1>4
  <2> QED
    BY <1>1, <1>4, <2>1
<1>5. u * w \in Nat /\ v * w \in Nat
  BY <1>1
<1>6. PICK p, q, d : p = u * w /\ q = v * w /\ d = (v - u) * w
  OBVIOUS
<1>7. u <= v => p <= q
  BY <1>2, <1>3, <1>5, <1>6
<1>8. u < v /\ w > 0 => p < q
  BY <1>2, <1>4, <1>3, <1>5, <1>6
<1> QED
  BY <1>5, <1>6, <1>7, <1>8

LEMMA ScaledGrows ==
  ASSUME NEW rows, Rows(rows), NEW k \in Objective, NEW x \in rows, NEW y \in rows
  PROVE  /\ Scaled(rows, x, k) \in Nat /\ Scaled(rows, y, k) \in Nat
         /\ x.vector[k] <= y.vector[k] => Scaled(rows, x, k) <= Scaled(rows, y, k)
         /\ x.vector[k] < y.vector[k] => Scaled(rows, x, k) < Scaled(rows, y, k)
<1>1. x.vector[k] \in Int /\ y.vector[k] \in Int
  BY DEF Rows
<1>2. PICK lo, span : lo = Lowest(rows, k) /\ span = Span(rows, k)
  OBVIOUS
<1>3. lo \in Int /\ span \in Nat /\ x.vector[k] - lo \in 0..span /\ y.vector[k] - lo \in 0..span
  BY <1>2, Extremes
<1>4. PICK u, v : u = x.vector[k] - lo /\ v = y.vector[k] - lo
  OBVIOUS
<1>5. /\ u \in Nat /\ v \in Nat /\ u <= span /\ v <= span
      /\ x.vector[k] <= y.vector[k] => u <= v
      /\ x.vector[k] < y.vector[k] => u < v
  BY <1>1, <1>3, <1>4
<1>6. CASE span = 0
  <2>1. Scaled(rows, x, k) = Unit(rows) \div 2 /\ Scaled(rows, y, k) = Unit(rows) \div 2
    BY <1>2, <1>6 DEF Scaled
  <2>2. Unit(rows) \div 2 \in Nat
    BY UnitDivides
  <2>3. ~(u < v)
    BY <1>5, <1>6
  <2> QED
    BY <1>5, <2>1, <2>2, <2>3
<1>7. CASE span # 0
  <2>1. PICK w : w = Unit(rows) \div span
    OBVIOUS
  <2>2. w \in Nat /\ w > 0
    BY <1>2, <1>7, <2>1, UnitDivides
  <2>3. Scaled(rows, x, k) = u * w /\ Scaled(rows, y, k) = v * w
    BY <1>2, <1>4, <1>7, <2>1 DEF Scaled
  <2>4. u * w \in Nat /\ v * w \in Nat /\ (u <= v => u * w <= v * w) /\ (u < v => u * w < v * w)
    BY <1>5, <2>2, ProductGrows
  <2> QED
    BY <1>5, <2>3, <2>4
<1> QED
  BY <1>6, <1>7

(* Families: without a family objective all rows have the same value of it,    *)
(* and only then does it have no weight.                                     *)
FamilyIdle(rows, family) ==
  family = "none" => \A x, y \in rows : x.vector["family"] = y.vector["family"]

LEMMA UtilityIsSum ==
  ASSUME NEW rows, NEW family, NEW x
  PROVE  Utility(rows, family, x) =
           UtilityWeight(family)["gain"] * Scaled(rows, x, "gain")
             + UtilityWeight(family)["worst"] * Scaled(rows, x, "worst")
             + UtilityWeight(family)["family"] * Scaled(rows, x, "family")
  BY DEF Utility, Scaled

LEMMA UtilityType ==
  ASSUME NEW rows, Rows(rows), NEW family, NEW x \in rows
  PROVE  Utility(rows, family, x) \in Int
<1>1. \A k \in Objective : Scaled(rows, x, k) \in Nat
  BY ScaledGrows
<1>2. PICK g, w, f : g = Scaled(rows, x, "gain") /\ w = Scaled(rows, x, "worst") /\ f = Scaled(rows, x, "family")
  OBVIOUS
<1>3. g \in Nat /\ w \in Nat /\ f \in Nat
  BY <1>1, <1>2 DEF Objective
<1>4. Utility(rows, family, x) =
        UtilityWeight(family)["gain"] * g + UtilityWeight(family)["worst"] * w
          + UtilityWeight(family)["family"] * f
  BY <1>2, UtilityIsSum
<1> QED
  BY <1>3, <1>4 DEF UtilityWeight

(* A row that dominates another has more utility.                            *)
LEMMA UtilityGrows ==
  ASSUME NEW rows, Rows(rows), NEW family, FamilyIdle(rows, family),
         NEW x \in rows, NEW y \in rows, Dominates(y.vector, x.vector, 0)
  PROVE  Utility(rows, family, x) < Utility(rows, family, y)
<1>1. \A k \in Objective : x.vector[k] \in Int /\ y.vector[k] \in Int
  BY DEF Rows
<1>2. /\ \A k \in Objective : x.vector[k] <= y.vector[k]
      /\ \E k \in Objective : x.vector[k] < y.vector[k]
  BY <1>1 DEF Dominates
<1>3. PICK g, w, f : g = Scaled(rows, x, "gain") /\ w = Scaled(rows, x, "worst") /\ f = Scaled(rows, x, "family")
  OBVIOUS
<1>4. PICK h, v, e : h = Scaled(rows, y, "gain") /\ v = Scaled(rows, y, "worst") /\ e = Scaled(rows, y, "family")
  OBVIOUS
<1>5. /\ g \in Nat /\ h \in Nat /\ w \in Nat /\ v \in Nat /\ f \in Nat /\ e \in Nat
      /\ g <= h /\ w <= v /\ f <= e
  BY <1>2, <1>3, <1>4, ScaledGrows DEF Objective
<1>6. x.vector["gain"] < y.vector["gain"] \/ x.vector["worst"] < y.vector["worst"]
      \/ x.vector["family"] < y.vector["family"]
  BY <1>2 DEF Objective
<1>7. /\ x.vector["gain"] < y.vector["gain"] => g < h
      /\ x.vector["worst"] < y.vector["worst"] => w < v
      /\ x.vector["family"] < y.vector["family"] => f < e
  BY <1>3, <1>4, ScaledGrows DEF Objective
<1>8. /\ Utility(rows, family, x) =
           UtilityWeight(family)["gain"] * g + UtilityWeight(family)["worst"] * w
             + UtilityWeight(family)["family"] * f
      /\ Utility(rows, family, y) =
           UtilityWeight(family)["gain"] * h + UtilityWeight(family)["worst"] * v
             + UtilityWeight(family)["family"] * e
  BY <1>3, <1>4, UtilityIsSum
<1>9. CASE family = "none"
  <2>1. g < h \/ w < v
    BY <1>1, <1>6, <1>7, <1>9 DEF FamilyIdle, Objective
  <2>2. /\ Utility(rows, family, x) = 240 * g + 120 * w + 0 * f
        /\ Utility(rows, family, y) = 240 * h + 120 * v + 0 * e
    BY <1>8, <1>9 DEF UtilityWeight
  <2> QED
    BY <1>5, <2>1, <2>2
<1>10. CASE family # "none"
  <2>1. /\ Utility(rows, family, x) = 168 * g + 84 * w + 300 * f
        /\ Utility(rows, family, y) = 168 * h + 84 * v + 300 * e
    BY <1>8, <1>10 DEF UtilityWeight
  <2> QED
    BY <1>5, <1>6, <1>7, <2>1
<1> QED
  BY <1>9, <1>10

(* For any finite set of candidates: without tolerance, the ones that head the *)
(* list by utility score (_assign_utility_scores) are there, and none of them *)
(* is dominated (_frontier).                                                 *)
THEOREM BestUndominated ==
  ASSUME NEW rows, Rows(rows), NEW family, FamilyIdle(rows, family)
  PROVE  /\ Best(rows, family) # {}
         /\ Best(rows, family) \subseteq {x.id : x \in Undominated(rows, 0)}
<1>1. PICK u : u = [x \in rows |-> Utility(rows, family, x)]
  OBVIOUS
<1>2. \A x \in rows : Utility(rows, family, x) \in Int
  BY UtilityType
<1>3. u \in [rows -> Int]
  BY <1>1, <1>2
<1>4. PICK m \in rows : \A x \in rows : u[x] <= u[m]
  BY <1>3, Greatest DEF Rows
<1>5. \A z \in rows : Utility(rows, family, z) <= Utility(rows, family, m)
  BY <1>1, <1>4
<1>6. m.id \in Best(rows, family)
  BY <1>4, <1>5 DEF Best
<1>7. ASSUME NEW x \in rows, \A z \in rows : Utility(rows, family, z) <= Utility(rows, family, x)
      PROVE  x \in Undominated(rows, 0)
  <2> SUFFICES ASSUME NEW y \in rows, Dominates(y.vector, x.vector, 0) PROVE FALSE
    BY <1>7 DEF Undominated
  <2>1. Utility(rows, family, x) < Utility(rows, family, y)
    BY UtilityGrows
  <2> QED
    BY <1>2, <1>7, <2>1
<1> QED
  BY <1>6, <1>7 DEF Best

-----------------------------------------------------------------------------
(* First occurrences: every value of a sequence has one, and they are listed   *)
(* by their rank among the first occurrences.                                *)
First(s) == {i \in DOMAIN s : \A j \in DOMAIN s : j < i => s[j] # s[i]}
UpTo(s, i) == {j \in First(s) : j <= i}

LEMMA DistinctByRank ==
  ASSUME NEW s
  PROVE  Distinct(s) = [n \in 1..Cardinality(First(s)) |->
                          s[CHOOSE i \in First(s) : Cardinality(UpTo(s, i)) = n]]
  BY DEF Distinct, First, UpTo

LEMMA FirstFinite ==
  ASSUME NEW S, NEW s \in Seq(S)
  PROVE  /\ IsFiniteSet(First(s)) /\ First(s) \subseteq Nat
         /\ Cardinality(First(s)) \in 0..Len(s)
<1>1. Len(s) \in Nat /\ DOMAIN s = 1..Len(s)
  OBVIOUS
<1>2. IsFiniteSet(1..Len(s)) /\ Cardinality(1..Len(s)) = Len(s)
  BY <1>1, FS_Interval
<1>3. First(s) \in SUBSET (1..Len(s))
  BY <1>1 DEF First
<1>4. IsFiniteSet(First(s)) /\ Cardinality(First(s)) <= Len(s)
  BY <1>2, <1>3, FS_Subset
<1>5. Cardinality(First(s)) \in Nat
  BY <1>4, FS_CardinalityType
<1> QED
  BY <1>1, <1>3, <1>4, <1>5

(* The rank of a first occurrence is a position of the list, and of one only.  *)
LEMMA Ranked ==
  ASSUME NEW S, NEW s \in Seq(S)
  PROVE  /\ \A i \in First(s) : Cardinality(UpTo(s, i)) \in 1..Cardinality(First(s))
         /\ \A i, j \in First(s) : Cardinality(UpTo(s, i)) = Cardinality(UpTo(s, j)) => i = j
<1>1. IsFiniteSet(First(s)) /\ \A i \in First(s) : i \in Nat
  BY FirstFinite
<1>2. ASSUME NEW i \in First(s)
      PROVE  IsFiniteSet(UpTo(s, i)) /\ Cardinality(UpTo(s, i)) \in 1..Cardinality(First(s))
  <2>1. UpTo(s, i) \in SUBSET First(s) /\ i \in UpTo(s, i)
    BY <1>1 DEF UpTo
  <2>2. IsFiniteSet(UpTo(s, i)) /\ Cardinality(UpTo(s, i)) <= Cardinality(First(s))
    BY <1>1, <2>1, FS_Subset
  <2>3. Cardinality(UpTo(s, i)) \in Nat /\ Cardinality(First(s)) \in Nat /\ Cardinality(UpTo(s, i)) # 0
    BY <1>1, <2>1, <2>2, FS_CardinalityType, FS_EmptySet
  <2> QED
    BY <2>2, <2>3
<1>3. ASSUME NEW i \in First(s), NEW j \in First(s), i < j
      PROVE  Cardinality(UpTo(s, i)) # Cardinality(UpTo(s, j))
  <2>1. i \in Nat /\ j \in Nat
    BY <1>1
  <2>2. UpTo(s, i) \in SUBSET UpTo(s, j) /\ j \in UpTo(s, j) /\ j \notin UpTo(s, i)
    <3>1. j <= j /\ ~(j <= i) /\ \A k \in Nat : k <= i => k <= j
      BY <1>3, <2>1
    <3> QED
      BY <1>1, <3>1 DEF UpTo
  <2>3. IsFiniteSet(UpTo(s, j))
    BY <1>2
  <2> QED
    BY <2>2, <2>3, FS_Subset
<1>4. ASSUME NEW i \in First(s), NEW j \in First(s), i # j PROVE i < j \/ j < i
  BY <1>1, <1>4
<1> QED
  BY <1>2, <1>3, <1>4

(* Every position of the list is the rank of a first occurrence.              *)
LEMMA RankTaken ==
  ASSUME NEW S, NEW s \in Seq(S), NEW n \in 1..Cardinality(First(s))
  PROVE  \E i \in First(s) : Cardinality(UpTo(s, i)) = n
<1>1. PICK T : T = 1..Cardinality(First(s))
  OBVIOUS
<1>2. PICK rank : rank = [i \in First(s) |-> Cardinality(UpTo(s, i))]
  OBVIOUS
<1>3. Cardinality(First(s)) \in Nat /\ IsFiniteSet(First(s))
  BY FirstFinite, FS_CardinalityType
<1>4. IsFiniteSet(T) /\ Cardinality(T) = Cardinality(First(s))
  BY <1>1, <1>3, FS_Interval
<1>5. rank \in [First(s) -> T]
  BY <1>1, <1>2, Ranked
<1>6. rank \in Injection(First(s), T)
  <2>1. \A i, j \in First(s) : rank[i] = rank[j] => i = j
    BY <1>2, Ranked
  <2> QED
    BY <1>5, <2>1 DEF Injection, IsInjective
<1>7. rank \in Surjection(First(s), T)
  BY <1>4, <1>6, FS_Injection
<1> QED
  BY <1>1, <1>2, <1>7 DEF Surjection

(* dict.fromkeys, and the loop that draws candidates: a list with the same     *)
(* values, no longer than the one it is made from.                           *)
LEMMA DistinctKeeps ==
  ASSUME NEW S, NEW s \in Seq(S)
  PROVE  /\ Distinct(s) \in Seq(S) /\ Len(Distinct(s)) \in 0..Len(s)
         /\ \A n \in 1..Len(Distinct(s)) : \E i \in DOMAIN s : Distinct(s)[n] = s[i]
         /\ \A i \in DOMAIN s : \E n \in 1..Len(Distinct(s)) : Distinct(s)[n] = s[i]
<1>1. PICK d : d = Distinct(s)
  OBVIOUS
<1>2. PICK N : N = Cardinality(First(s))
  OBVIOUS
<1>3. N \in 0..Len(s) /\ Len(s) \in Nat /\ First(s) \subseteq DOMAIN s
  BY <1>2, FirstFinite DEF First
<1>4. DOMAIN d = 1..N /\ \A n \in 1..N : d[n] = s[CHOOSE i \in First(s) : Cardinality(UpTo(s, i)) = n]
  BY <1>1, <1>2, DistinctByRank
<1>5. ASSUME NEW i \in First(s)
      PROVE  Cardinality(UpTo(s, i)) \in 1..N /\ d[Cardinality(UpTo(s, i))] = s[i]
  <2>1. PICK n : n = Cardinality(UpTo(s, i))
    OBVIOUS
  <2>2. n \in 1..N
    BY <1>2, <2>1, Ranked
  <2>3. (CHOOSE j \in First(s) : Cardinality(UpTo(s, j)) = n) = i
    BY <2>1, Ranked
  <2> QED
    BY <1>4, <2>1, <2>2, <2>3
<1>6. ASSUME NEW n \in 1..N
      PROVE  \E i \in First(s) : d[n] = s[i]
  <2>1. PICK i \in First(s) : Cardinality(UpTo(s, i)) = n
    BY <1>2, RankTaken
  <2> QED
    BY <1>5, <2>1
<1>7. \A n \in 1..N : d[n] \in S
  BY <1>3, <1>6
<1>8. d = [n \in 1..N |-> d[n]]
  BY <1>1, <1>2, <1>4, DistinctByRank
<1>9. d \in Seq(S) /\ Len(d) = N
  BY <1>3, <1>4, <1>7, <1>8
<1>10. ASSUME NEW i \in DOMAIN s
       PROVE  \E n \in 1..N : d[n] = s[i]
  <2>1. PICK T : T = {j \in DOMAIN s : s[j] = s[i]}
    OBVIOUS
  <2>2. T \in SUBSET Nat /\ T # {}
    BY <1>3, <2>1
  <2>3. PICK j \in T : \A m \in T : j <= m
    BY <2>2, Least
  <2>4. j \in First(s) /\ s[j] = s[i]
    BY <2>1, <2>2, <2>3 DEF First
  <2> QED
    BY <1>5, <2>4
<1> QED
  BY <1>1, <1>3, <1>6, <1>9, <1>10

=============================================================================
