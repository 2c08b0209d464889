----------------------------- MODULE LadderProofs -----------------------------
(***************************************************************************)
(* Theorems about module Ladder: every invariant that its runs check holds *)
(* for all specifications of the three domains, of any size.               *)
(*                                                                         *)
(* Each domain has three parts: what its reduction yields (IsPool, IsBatch,*)
(* IsNet), that its encoding has the energy that is meant, and that the    *)
(* rows of its integer program admit what its check accepts.  The last     *)
(* section has the inductive invariant LadderInv, with what the two exact  *)
(* rungs returned (Optimum, ExactIsGround), and the theorems.              *)
(***************************************************************************)
EXTENDS Ladder, QuboProofs

-----------------------------------------------------------------------------
(* The collateral domain                                                   *)

\* More coverage per cost, where no cost is the best.
MorePerCost(u, v) == v.cost > 0 /\ (u.cost = 0 \/ u.coverage * v.cost > v.coverage * u.cost)

\* Not to be better by that measure is transitive.
LEMMA PerCostOrder ==
  ASSUME NEW x, IsSecurity(x), NEW y, IsSecurity(y), NEW z, IsSecurity(z),
         ~MorePerCost(x, y), ~MorePerCost(y, z)
  PROVE  ~MorePerCost(x, z)
<1> SUFFICES ASSUME z.cost > 0
             PROVE  x.cost # 0 /\ ~(x.coverage * z.cost > z.coverage * x.cost)
  BY DEF MorePerCost
<1>1. /\ y.cost \in Nat /\ y.cost > 0 /\ y.coverage * z.cost <= z.coverage * y.cost
      /\ x.cost \in Nat /\ x.cost > 0 /\ x.coverage * y.cost <= y.coverage * x.cost
      /\ z.cost \in Nat /\ x.coverage \in Nat /\ y.coverage \in Nat /\ z.coverage \in Nat
  BY DEF MorePerCost, IsSecurity
<1> DEFINE cx == x.cost
           cy == y.cost
           cz == z.cost
           vx == x.coverage
           vy == y.coverage
           vz == z.coverage
<1> HIDE DEF cx, cy, cz, vx, vy, vz
<1>2. /\ cx \in Nat /\ cy \in Nat /\ cz \in Nat /\ vx \in Nat /\ vy \in Nat /\ vz \in Nat
      /\ cx > 0 /\ cy > 0 /\ cz > 0 /\ vy * cz <= vz * cy /\ vx * cy <= vy * cx
  BY <1>1 DEF cx, cy, cz, vx, vy, vz
<1>3. (vx * cy) * cz <= (vy * cx) * cz
  BY <1>2
<1>4. (vy * cz) * cx <= (vz * cy) * cx
  BY <1>2
<1>5. (vx * cz) * cy <= (vz * cx) * cy
  BY <1>2, <1>3, <1>4
<1>6. vx * cz <= vz * cx
  BY <1>2, <1>5
<1> QED
  BY <1>1, <1>6 DEF cx, cy, cz, vx, vy, vz

\* The efficiency that the reduction sorts securities by is a weak order, so that sorting
\* keeps all securities.
LEMMA ByEfficiency ==
  ASSUME NEW T, NEW s \in Seq(T), \A x \in T : IsSecurity(x)
  PROVE  Permutes(StableSort(s, MoreEfficient), s)
<1> DEFINE n == Len(s)
           B == {c \in (1..n) \X (1..n) : MoreEfficient(s[c[1]], s[c[2]])}
<1>1. n \in Nat /\ DOMAIN s = 1..n /\ \A i \in 1..n : IsSecurity(s[i])
  BY ElementOfSeq
<1>2. IsWeakOrder(B, 1..n)
  <2>1. ASSUME NEW x, IsSecurity(x), NEW y, IsSecurity(y)
        PROVE  ~(MoreEfficient(x, y) /\ MoreEfficient(y, x))
    BY <2>1 DEF MoreEfficient, IsSecurity
  <2>2. ASSUME NEW x, IsSecurity(x), NEW y, IsSecurity(y)
        PROVE  /\ x.coverage \in Int /\ y.coverage \in Int
               /\ MoreEfficient(x, y) <=> \/ MorePerCost(x, y)
                                          \/ ~MorePerCost(y, x) /\ x.coverage > y.coverage
    BY <2>2 DEF MoreEfficient, MorePerCost, IsSecurity
  <2>3. ASSUME NEW x, IsSecurity(x), NEW y, IsSecurity(y), NEW z, IsSecurity(z),
               ~MoreEfficient(x, y), ~MoreEfficient(y, z)
        PROVE  ~MoreEfficient(x, z)
    <3>1. ~MorePerCost(x, y) /\ ~MorePerCost(y, z)
      BY <2>2, <2>3
    <3>2. ~MorePerCost(x, z)
      BY <2>3, <3>1, PerCostOrder
    <3>3. CASE MorePerCost(y, x) \/ MorePerCost(z, y)
      BY <2>2, <2>3, <3>1, <3>2, <3>3, PerCostOrder
    <3>4. CASE ~MorePerCost(y, x) /\ ~MorePerCost(z, y)
      BY <2>2, <2>3, <3>2, <3>4
    <3> QED
      BY <3>3, <3>4
  <2> QED
    BY <1>1, <2>1, <2>3 DEF IsWeakOrder
<1>3. StableSort(s, MoreEfficient) = SortedBy(s, B)
  <2> DEFINE precedes(i, j) == \/ MoreEfficient(s[i], s[j])
                               \/ ~MoreEfficient(s[j], s[i]) /\ i < j
             rank(i) == Cardinality({j \in DOMAIN s : precedes(j, i)})
  <2>1. \A i \in 1..n : {j \in DOMAIN s : precedes(j, i)} = Preceding(B, 1..n, i)
    BY <1>1 DEF Preceding
  <2>2. \A k \in 1..n : (CHOOSE i \in 1..n : Cardinality(Preceding(B, 1..n, i)) = k - 1) =
                        (CHOOSE i \in DOMAIN s : rank(i) = k - 1)
    BY <1>1, <2>1
  <2>3. StableSort(s, MoreEfficient) =
          [k \in DOMAIN s |-> s[CHOOSE i \in DOMAIN s : rank(i) = k - 1]]
    BY DEF StableSort
  <2> HIDE DEF rank, B
  <2> QED
    BY <1>1, <2>2, <2>3 DEF SortedBy
<1> QED
  BY <1>2, <1>3, SortingPermutes

\* What reduce_to_instance yields.
IsPool(inst) ==
  /\ inst.securities \in Seq(ToSet(inst.securities))
  /\ \A i \in DOMAIN inst.securities : IsSecurity(inst.securities[i])
  /\ inst.required \in Nat /\ inst.minimumHqla \in Nat /\ inst.cap \in 1..10
  /\ inst.degenerate \in BOOLEAN
  /\ inst.degenerate => inst.securities = <<>>
  /\ ~inst.degenerate => inst.securities # <<>> /\ inst.required > 0

\* Coverage and cost of what is posted are numbers.
LEMMA CoverageType ==
  ASSUME NEW inst, inst.securities \in Seq(ToSet(inst.securities)),
         \A i \in DOMAIN inst.securities : IsSecurity(inst.securities[i]),
         NEW posted \in SUBSET (DOMAIN inst.securities)
  PROVE  /\ CoverageOf(inst, posted) \in Nat /\ PostingCost(inst, posted) \in Nat
         /\ IsFiniteSet(posted) /\ IsFiniteSet(DOMAIN inst.securities)
<1> DEFINE f == [i \in posted |-> inst.securities[i].coverage]
           g == [i \in posted |-> inst.securities[i].cost]
<1>1. DOMAIN inst.securities = 1..Len(inst.securities) /\ Len(inst.securities) \in Nat
  BY LenProperties
<1>2. IsFiniteSet(DOMAIN inst.securities)
  BY <1>1, FS_Interval
<1>3. IsFiniteSet(posted)
  BY <1>2, FS_Subset
<1>4. /\ \A i \in posted : f[i] \in Nat /\ g[i] \in Nat
      /\ DOMAIN f = posted /\ DOMAIN g = posted
  BY DEF IsSecurity
<1>5. /\ CoverageOf(inst, posted) = SumFunction(f)
      /\ PostingCost(inst, posted) = SumFunction(g)
  BY DEF CoverageOf, PostingCost
<1> HIDE DEF f, g
<1>6. SumFunction(f) \in Nat /\ SumFunction(g) \in Nat
  BY <1>3, <1>4, SumOfDomain, SumOfNaturals
<1> QED
  BY <1>2, <1>3, <1>5, <1>6

\* The reduction keeps securities, one at least if one is eligible, and leaves
\* room for the slack bits.
LEMMA CollateralReduces ==
  ASSUME NEW p, IsCollateralSpec(p)
  PROVE  LET inst == CollateralInstance(p)
         IN  IsPool(inst) /\ Len(inst.securities) <= p.maxQubits
<1> DEFINE inv == p.inventory
           T == ToSet(inv)
           kept == {i \in DOMAIN inv : inv[i].eligible}
           elig == Kept(inv, kept)
           m == Min({Len(elig), p.maxQubits - SLACK_BITS_DEFAULT})
           n == Max({1, m})
           sorted == StableSort(elig, MoreEfficient)
           chosen == SubSeq(sorted, 1, n)
           reachable == CoverageOf([securities |-> chosen], DOMAIN chosen)
           target == Max({1, ThreeFifthsRounded(reachable)})
           hqla == \E i \in DOMAIN chosen : chosen[i].hqla
           inst == CollateralInstance(p)
<1>1. inv \in Seq(T) /\ kept \in SUBSET (DOMAIN inv) /\ p.minimumHqla \in Nat /\ p.cap \in 1..10
      /\ p.maxQubits \in Nat \ {0}
  BY DEF IsCollateralSpec
<1>2. \A x \in T : IsSecurity(x)
  BY DEF IsCollateralSpec, ToSet
<1>3. KeepsOnly(elig, inv, kept)
  BY <1>1, KeptIs
<1>4. elig \in Seq(T) /\ Len(elig) \in Nat
  BY <1>3, LenProperties DEF KeepsOnly
<1>5. inst = IF elig = <<>>
             THEN [securities |-> <<>>, required |-> 0, minimumHqla |-> 0, cap |-> p.cap,
                   degenerate |-> TRUE]
             ELSE [securities |-> chosen, required |-> target,
                   minimumHqla |-> IF hqla /\ p.minimumHqla > 0 THEN QuarterRounded(target) ELSE 0,
                   cap |-> p.cap, degenerate |-> FALSE]
  BY DEF CollateralInstance
<1>6. CASE elig = <<>>
  <2>1. /\ inst.securities = <<>> /\ inst.required = 0 /\ inst.minimumHqla = 0
        /\ inst.cap = p.cap /\ inst.degenerate = TRUE
    BY <1>5, <1>6
  <2>2. <<>> \in Seq(ToSet(inst.securities)) /\ Len(<<>>) = 0
    BY EmptySeq
  <2>3. DOMAIN inst.securities = {}
    BY <2>1
  <2> HIDE DEF inst
  <2>4. inst.securities \in Seq(ToSet(inst.securities)) /\ Len(inst.securities) = 0
    BY <2>1, <2>2
  <2>5. IsPool(inst)
    <3>1. inst.degenerate \in BOOLEAN /\ inst.degenerate
      BY <2>1, Zenon
    <3>2. \A i \in DOMAIN inst.securities : IsSecurity(inst.securities[i])
      BY <2>3
    <3>3. inst.required \in Nat /\ inst.minimumHqla \in Nat /\ inst.cap \in 1..10
      BY <1>1, <2>1
    <3> QED
      BY <2>1, <2>4, <3>1, <3>2, <3>3 DEF IsPool
  <2> QED
    BY <1>1, <2>4, <2>5 DEF inst
<1>7. CASE elig # <<>>
  <2>1. Len(elig) >= 1
    BY <1>4, <1>7, EmptySeq
  <2> HIDE DEF elig, kept
  <2>2. p.maxQubits - SLACK_BITS_DEFAULT \in Int /\ 1 \in Int
    BY <1>1 DEF SLACK_BITS_DEFAULT
  <2>3. m = IF Len(elig) <= p.maxQubits - SLACK_BITS_DEFAULT THEN Len(elig)
            ELSE p.maxQubits - SLACK_BITS_DEFAULT
    BY <1>4, <2>2, SmallerAndLarger
  <2>4. m \in Int /\ m <= Len(elig) /\ m <= p.maxQubits
    BY <1>1, <1>4, <2>2, <2>3 DEF SLACK_BITS_DEFAULT
  <2> HIDE DEF m
  <2>5. n = IF 1 >= m THEN 1 ELSE m
    BY <2>4, SmallerAndLarger
  <2>6. n \in 1..Len(elig) /\ n <= p.maxQubits
    BY <1>1, <1>4, <2>1, <2>4, <2>5
  <2> HIDE DEF n
  <2>7. Permutes(sorted, elig)
    BY <1>2, <1>4, ByEfficiency
  <2>8. sorted \in Seq(ToSet(elig)) /\ Len(sorted) = Len(elig)
    BY <2>7 DEF Permutes
  <2>9. \A x \in ToSet(elig) : IsSecurity(x)
    BY <1>2, <1>4, ElementOfSeq, LenProperties DEF ToSet
  <2> HIDE DEF sorted
  <2>10. /\ chosen \in Seq(ToSet(elig)) /\ Len(chosen) = n
    BY <2>6, <2>8, FirstOnes
  <2>11. /\ DOMAIN chosen = 1..n
         /\ \A i \in DOMAIN chosen : IsSecurity(chosen[i])
         /\ chosen # <<>>
    <3>1. DOMAIN chosen = 1..n /\ \A i \in 1..n : chosen[i] \in ToSet(elig)
      BY <2>10, ElementOfSeq, LenProperties
    <3>2. Len(<<>>) = 0
      BY EmptySeq
    <3>3. chosen # <<>>
      <4> SUFFICES ASSUME chosen = <<>> PROVE FALSE
        OBVIOUS
      <4>1. Len(chosen) = 0
        BY <3>2
      <4>2. n >= 1
        BY <1>4, <2>6
      <4> QED
        BY <2>10, <4>1, <4>2
    <3> QED
      BY <2>9, <3>1, <3>3
  <2>12. chosen \in Seq(ToSet(chosen))
    BY <2>10, SeqOfRange DEF Range, ToSet
  <2> HIDE DEF chosen
  <2>13. reachable \in Nat
    <3> DEFINE all == [securities |-> chosen]
    <3>1. all.securities = chosen
      OBVIOUS
    <3> HIDE DEF all
    <3>2. CoverageOf(all, DOMAIN all.securities) \in Nat
      BY <2>11, <2>12, <3>1, CoverageType
    <3> QED
      BY <3>1, <3>2 DEF all
  <2>14. ThreeFifthsRounded(reachable) \in Nat
    <3> HIDE DEF reachable
    <3> QED
      BY <2>13 DEF ThreeFifthsRounded
  <2> HIDE DEF reachable
  <2>15. target \in Nat /\ target > 0
    <3> DEFINE rounded == ThreeFifthsRounded(reachable)
    <3>1. rounded \in Nat /\ 1 \in Int /\ target = Max({1, rounded})
      BY <2>14
    <3> HIDE DEF rounded, target
    <3>2. target = IF 1 >= rounded THEN 1 ELSE rounded
      BY <3>1, SmallerAndLarger
    <3> QED
      BY <3>1, <3>2
  <2> HIDE DEF target
  <2>16. QuarterRounded(target) \in Nat
    BY <2>15 DEF QuarterRounded
  <2>17. /\ inst.securities = chosen /\ inst.required = target
         /\ inst.minimumHqla \in Nat
         /\ inst.cap = p.cap /\ inst.degenerate = FALSE
    BY <1>5, <1>7, <2>16
  <2> HIDE DEF inst
  <2>18. IsPool(inst) /\ Len(inst.securities) = n
    BY <1>1, <2>10, <2>11, <2>12, <2>15, <2>17 DEF IsPool
  <2> QED
    BY <2>6, <2>18 DEF inst
<1> QED
  BY <1>6, <1>7

\* The slack bits the planner offers are a number, and fit.
LEMMA SlackFits ==
  ASSUME NEW p, p.maxQubits \in Nat, NEW inst, Len(inst.securities) \in Nat,
         Len(inst.securities) <= p.maxQubits
  PROVE  /\ OfferedSlack(p, inst) \in Nat
         /\ Len(inst.securities) + OfferedSlack(p, inst) <= p.maxQubits
<1> DEFINE n == Len(inst.securities)
           room == p.maxQubits - n
           m == Min({SLACK_BITS_DEFAULT, room})
<1>1. room \in Nat /\ SLACK_BITS_DEFAULT = 4 /\ room = p.maxQubits - n
  BY DEF SLACK_BITS_DEFAULT
<1>2. OfferedSlack(p, inst) = Max({0, m})
  BY DEF OfferedSlack
<1> HIDE DEF room
<1>3. m = IF 4 <= room THEN 4 ELSE room
  BY <1>1, SmallerAndLarger
<1>4. m \in Nat /\ m <= room
  BY <1>1, <1>3
<1> HIDE DEF m
<1>5. OfferedSlack(p, inst) = m
  <2>1. 0 \in Int /\ m \in Int
    BY <1>4
  <2>2. Max({0, m}) = IF 0 >= m THEN 0 ELSE m
    BY <2>1, SmallerAndLarger
  <2> QED
    BY <1>2, <1>4, <2>2
<1> HIDE DEF n
<1>6. n \in Nat /\ p.maxQubits \in Nat
  BY DEF n
<1>7. n + m <= p.maxQubits
  BY <1>1, <1>4, <1>6
<1> QED
  BY <1>4, <1>5, <1>7 DEF n

\* The numbers that the encoding of a pool is made of, on the scale D.
CollateralD(k) == IF k > 0 THEN 2^k - 1 ELSE 1

\* The weight of the penalty.
CollateralWeight(inst) == PenaltyWeight(SmallestCoverage(inst), inst.required)

\* They are integers.
LEMMA CollateralNumbers ==
  ASSUME NEW inst, IsPool(inst), inst.securities # <<>>, NEW slackBits \in Nat
  PROVE  LET k == SlackUsed(inst, slackBits)
             A == CollateralWeight(inst)
         IN  /\ Len(inst.securities) \in Nat \ {0} /\ k \in Nat /\ k <= slackBits
             /\ CollateralD(k) \in Int /\ A.num \in Int /\ A.den \in Int
             /\ CollateralScale(inst) \in Int /\ Surplus(inst) \in Int
             /\ \A v \in 1..Len(inst.securities) + k :
                  CollateralForm(inst, k, CollateralD(k))[v] \in Int
<1> DEFINE n == Len(inst.securities)
           k == SlackUsed(inst, slackBits)
           D == CollateralD(k)
           N == DOMAIN inst.securities
<1>1. /\ inst.securities \in Seq(ToSet(inst.securities)) /\ n \in Nat \ {0} /\ N = 1..n
      /\ \A i \in N : IsSecurity(inst.securities[i])
      /\ inst.required \in Nat
  BY EmptySeq, LenProperties DEF IsPool
<1>2. /\ CoverageOf(inst, N) \in Nat /\ PostingCost(inst, N) \in Nat /\ IsFiniteSet(N)
  <2> DEFINE all == N
  <2>1. all \in SUBSET N /\ all = N
    OBVIOUS
  <2> HIDE DEF all
  <2>2. CoverageOf(inst, all) \in Nat /\ PostingCost(inst, all) \in Nat /\ IsFiniteSet(all)
    BY <1>1, <2>1, CoverageType
  <2> QED
    BY <2>1, <2>2
<1>3. CollateralScale(inst) \in Int
  <2> DEFINE cost == PostingCost(inst, N)
  <2>1. cost \in Int /\ 1 \in Int /\ CollateralScale(inst) = Max({1, cost})
    BY <1>2 DEF CollateralScale
  <2> HIDE DEF cost
  <2>2. Max({1, cost}) = IF 1 >= cost THEN 1 ELSE cost
    BY <2>1, SmallerAndLarger
  <2> QED
    BY <2>1, <2>2
<1>4. Surplus(inst) \in Int /\ k \in Nat /\ k <= slackBits
  BY <1>1, <1>2 DEF Surplus, SlackUsed
<1>5. SmallestCoverage(inst) \in Int
  <2> DEFINE f == [i \in N |-> inst.securities[i].coverage]
             values == {inst.securities[i].coverage : i \in N}
  <2>1. \A i \in N : f[i] \in Int /\ f[i] = inst.securities[i].coverage
    BY <1>1 DEF IsSecurity
  <2>2. Summable(f, N) /\ N # {}
    BY <1>1, <1>2, <2>1 DEF Summable
  <2>3. PICK i \in N : \A j \in N : f[i] <= f[j]
    BY <2>2, LeastAndGreatest
  <2>4. f[i] \in values /\ \A v \in values : f[i] <= v
    BY <2>1, <2>3
  <2>5. Min(values) \in values
    BY <2>4 DEF Min
  <2>6. \A v \in values : v \in Int
    BY <2>1
  <2> QED
    BY <2>5, <2>6 DEF SmallestCoverage
<1>6. CollateralWeight(inst).num \in Int /\ CollateralWeight(inst).den \in Int
  <2> DEFINE s == SmallestCoverage(inst)
             R == inst.required
  <2>1. s \in Int /\ R \in Int
    BY <1>1, <1>5
  <2>2. CollateralWeight(inst) \in {[num |-> 8, den |-> 1], [num |-> 1000, den |-> 1],
                                   [num |-> 5 * R * R, den |-> 2 * s * s]}
    BY DEF CollateralWeight, PenaltyWeight
  <2> HIDE DEF s, R
  <2>3. 5 * R * R \in Int /\ 2 * s * s \in Int
    BY <2>1
  <2> QED
    BY <2>2, <2>3
<1> HIDE DEF k
<1>7. D \in Int
  BY <1>4 DEF CollateralD
<1> HIDE DEF D
<1>8. ASSUME NEW v \in 1..n + k
      PROVE  CollateralForm(inst, k, D)[v] \in Int
  <2>1. CollateralForm(inst, k, D)[v] = IF v <= n THEN D * inst.securities[v].coverage
                                        ELSE -(Surplus(inst) * 2^(v - n - 1))
    BY DEF CollateralForm
  <2>2. CASE v <= n
    <3>1. inst.securities[v].coverage \in Int
      BY <1>1, <2>2 DEF IsSecurity
    <3> QED
      BY <1>7, <2>1, <2>2, <3>1
  <2>3. CASE ~(v <= n)
    <3>1. v - n - 1 \in Nat
      BY <1>1, <1>4, <2>3
    <3>2. 2^(v - n - 1) \in Int
      BY <3>1
    <3> QED
      BY <1>4, <2>1, <2>3, <3>2
  <2> QED
    BY <2>2, <2>3
<1> QED
  BY <1>1, <1>3, <1>4, <1>6, <1>7, <1>8 DEF k, D

\* The penalty of the encoding of a pool: one square.
CollateralSquare(inst, k) ==
  Square(Len(inst.securities) + k, CollateralForm(inst, k, CollateralD(k)),
         -CollateralD(k) * inst.required)

\* What posting the security of variable v costs in the encoding.
CollateralPrice(inst, k, v) ==
  CollateralWeight(inst).den * (CollateralD(k) * inst.required) * (CollateralD(k) * inst.required)
    * (IF v <= Len(inst.securities) THEN inst.securities[v].cost ELSE 0)

\* The encoding by these names, which build_qubo leaves out for a degenerate pool.
LEMMA CollateralEncodes ==
  ASSUME NEW inst, IsPool(inst), NEW slackBits \in Nat
  PROVE  LET q == CollateralQubo(inst, slackBits)
             k == SlackUsed(inst, slackBits)
             n == Len(inst.securities)
             w == CollateralScale(inst) * CollateralWeight(inst).num
             DR == CollateralD(k) * inst.required
         IN  IF inst.degenerate THEN q = NoEncoding
             ELSE /\ inst.securities # <<>>
                  /\ q.n = n + k
                  /\ q.offset = w * DR * DR
                  /\ q.Q = [p \in Pairs(n + k) |->
                             w * CollateralSquare(inst, k)[p]
                               + IF p[1] = p[2] THEN CollateralPrice(inst, k, p[1]) ELSE 0]
<1>1. CASE inst.degenerate
  <2>1. Len(inst.securities) = 0
    BY <1>1, EmptySeq DEF IsPool
  <2> QED
    BY <1>1, <2>1 DEF CollateralQubo
<1>2. CASE ~inst.degenerate
  <2>1. Len(inst.securities) # 0 /\ ~(inst.required <= 0) /\ inst.securities # <<>>
    BY <1>2, EmptySeq DEF IsPool
  <2> QED
    BY <1>2, <2>1 DEF CollateralQubo, CollateralSquare, CollateralPrice, CollateralWeight,
                      CollateralD, Encoding
<1> QED
  BY <1>1, <1>2

\* It is one with integer coefficients.
LEMMA CollateralIsQubo ==
  ASSUME NEW inst, IsPool(inst), NEW slackBits \in Nat
  PROVE  IsQubo(CollateralQubo(inst, slackBits))
<1> DEFINE q == CollateralQubo(inst, slackBits)
           k == SlackUsed(inst, slackBits)
           n == Len(inst.securities)
           w == CollateralScale(inst) * CollateralWeight(inst).num
           D == CollateralD(k)
           DR == D * inst.required
           price(v) == CollateralPrice(inst, k, v)
<1>1. CASE inst.degenerate
  <2>1. q = NoEncoding
    BY <1>1, CollateralEncodes
  <2>2. NoEncoding.n = 0 /\ NoEncoding.Q = <<>> /\ NoEncoding.offset = 0
    BY DEF NoEncoding, Encoding
  <2>3. Pairs(0) = {}
    BY DEF Pairs
  <2>4. <<>> \in [{} -> Int]
    OBVIOUS
  <2> QED
    BY <2>1, <2>2, <2>3, <2>4 DEF IsQubo
<1>2. CASE ~inst.degenerate
  <2>1. /\ inst.securities # <<>> /\ q.n = n + k /\ q.offset = w * DR * DR
        /\ q.Q = [p \in Pairs(n + k) |-> w * CollateralSquare(inst, k)[p]
                                           + IF p[1] = p[2] THEN price(p[1]) ELSE 0]
    BY <1>2, CollateralEncodes
  <2> HIDE DEF q
  <2>2. /\ n \in Nat \ {0} /\ k \in Nat /\ D \in Int /\ CollateralWeight(inst).num \in Int
        /\ CollateralWeight(inst).den \in Int /\ CollateralScale(inst) \in Int
        /\ \A v \in 1..n + k : CollateralForm(inst, k, D)[v] \in Int
        /\ inst.required \in Int
    BY <2>1, CollateralNumbers DEF IsPool
  <2>3. w \in Int /\ DR \in Int
    BY <2>2
  <2>4. ASSUME NEW v \in 1..n + k PROVE price(v) \in Int
    <3> DEFINE cost == IF v <= Len(inst.securities) THEN inst.securities[v].cost ELSE 0
    <3>1. cost \in Int
      BY <2>2, LenProperties DEF IsPool, IsSecurity
    <3>2. price(v) = CollateralWeight(inst).den * DR * DR * cost
      BY DEF CollateralPrice
    <3> HIDE DEF cost, DR
    <3> QED
      BY <2>2, <2>3, <3>1, <3>2
  <2>5. CollateralSquare(inst, k) \in [Pairs(n + k) -> Int]
    <3> DEFINE m == n + k
               c == CollateralForm(inst, k, D)
               const == -D * inst.required
    <3>1. m \in Nat /\ const \in Int /\ \A v \in 1..m : c[v] \in Int
      BY <2>2
    <3>2. CollateralSquare(inst, k) = Square(m, c, const)
      BY DEF CollateralSquare
    <3> HIDE DEF m, c, const
    <3>3. Square(m, c, const) \in [Pairs(m) -> Int]
      BY <3>1, SquareType
    <3> QED
      BY <3>2, <3>3 DEF m
  <2> HIDE DEF k, w, DR, price
  <2>6. n + k \in Nat /\ w * DR * DR \in Int
    BY <2>2, <2>3
  <2>7. \A p \in Pairs(n + k) : w * CollateralSquare(inst, k)[p]
                                   + (IF p[1] = p[2] THEN price(p[1]) ELSE 0) \in Int
    <3> TAKE p \in Pairs(n + k)
    <3>1. p[1] \in 1..n + k
      BY DEF Pairs
    <3>2. price(p[1]) \in Int /\ CollateralSquare(inst, k)[p] \in Int
      BY <2>4, <2>5, <3>1
    <3> QED
      BY <2>3, <3>2
  <2> HIDE DEF n
  <2> QED
    BY <2>1, <2>6, <2>7 DEF q, IsQubo
<1> QED
  BY <1>1, <1>2

\* For every bit string the energy of the encoding of a pool is the weighted square of
\* coverage less slack less target, plus the cost of what is posted.
LEMMA CollateralExact ==
  ASSUME NEW inst, IsPool(inst), NEW slackBits \in Nat,
         CollateralQubo(inst, slackBits).n > 0,
         NEW b \in Bits(CollateralQubo(inst, slackBits).n)
  PROVE  Energy(CollateralQubo(inst, slackBits), b) = CollateralEnergy(inst, slackBits, b)
<1> DEFINE q == CollateralQubo(inst, slackBits)
           k == SlackUsed(inst, slackBits)
           n == Len(inst.securities)
           N == DOMAIN inst.securities
           m == n + k
           D == CollateralD(k)
           R == inst.required
           A == CollateralWeight(inst)
           w == CollateralScale(inst) * A.num
           c == CollateralForm(inst, k, D)
           const == -D * R
           square == CollateralSquare(inst, k)
           d == [v \in 1..m |-> CollateralPrice(inst, k, v)]
           posted == {i \in 1..n : b[i] = 1}
           over == Surplus(inst)
           unit == [j \in 1..k |-> b[n + j] * 2^(j - 1)]
           cover == [i \in posted |-> inst.securities[i].coverage]
           cost == [i \in posted |-> inst.securities[i].cost]
           units == SumFunction(unit)
           P == A.den * (D * R) * (D * R)
           ctail == [j \in 1..k |-> c[n + j] * b[n + j]]
           dtail == [j \in 1..k |-> d[n + j] * b[n + j]]
<1>1. /\ ~inst.degenerate /\ inst.securities # <<>> /\ q.n = m
      /\ q.offset = w * (D * R) * (D * R)
      /\ q.Q = [p \in Pairs(m) |-> w * square[p]
                                     + IF p[1] = p[2] THEN CollateralPrice(inst, k, p[1]) ELSE 0]
  <2>1. NoEncoding.n = 0
    BY DEF NoEncoding, Encoding
  <2>2. ASSUME inst.degenerate PROVE FALSE
    <3>1. CollateralQubo(inst, slackBits) = NoEncoding
      BY <2>2, CollateralEncodes
    <3> QED
      BY <2>1, <3>1
  <2> QED
    BY <2>2, CollateralEncodes
<1>2. IsQubo(q)
  BY CollateralIsQubo
<1>3. /\ n \in Nat /\ k \in Nat /\ D \in Int /\ A.num \in Int /\ A.den \in Int
      /\ CollateralScale(inst) \in Int /\ over \in Int /\ R \in Int
      /\ \A v \in 1..m : c[v] \in Int
  BY <1>1, CollateralNumbers DEF IsPool
<1>4. N = 1..n /\ \A i \in 1..n : IsSecurity(inst.securities[i])
  BY LenProperties DEF IsPool
<1>5. CollateralEnergy(inst, slackBits, b) =
        w * (D * (CoverageOf(inst, posted) - R) - units * over)
          * (D * (CoverageOf(inst, posted) - R) - units * over)
          + P * PostingCost(inst, posted)
  BY DEF CollateralEnergy, CollateralD, CollateralWeight
<1>6. /\ \A v \in 1..m : c[v] = IF v <= n THEN D * inst.securities[v].coverage
                                ELSE -(over * 2^(v - n - 1))
      /\ square = Square(m, c, const)
  BY DEF CollateralForm, CollateralSquare
<1>7. \A v \in 1..m : d[v] = P * (IF v <= n THEN inst.securities[v].cost ELSE 0)
  BY DEF CollateralPrice
<1> HIDE DEF q
<1>8. b \in Bits(m)
  BY <1>1 DEF q
<1> HIDE DEF k, n, A, c, square, d, D, over, R, N
<1>9. w \in Int /\ P \in Int /\ const \in Int /\ D * R \in Int
  <2>1. D * R \in Int /\ const \in Int
    BY <1>3
  <2> DEFINE DR == D * R
  <2>2. DR \in Int
    BY <2>1
  <2> HIDE DEF DR
  <2>3. A.den * DR * DR \in Int
    BY <1>3, <2>2
  <2> QED
    BY <1>3, <2>1, <2>3 DEF DR
<1> HIDE DEF w, P, const
<1>10. \A v \in 1..m : d[v] \in Int
  <2> TAKE v \in 1..m
  <2> DEFINE x == IF v <= n THEN inst.securities[v].cost ELSE 0
  <2>1. x \in Int
    BY <1>3, <1>4 DEF IsSecurity
  <2>2. d[v] = P * x
    BY <1>7
  <2> HIDE DEF x
  <2> QED
    BY <1>9, <2>1, <2>2
<1>11. posted \in SUBSET (1..n) /\ IsFiniteSet(posted)
  <2>1. posted \in SUBSET (1..n)
    OBVIOUS
  <2> QED
    BY <1>3, <2>1, PairsFinite
<1>12. /\ CoverageOf(inst, posted) = SumFunctionOnSet(cover, posted)
       /\ PostingCost(inst, posted) = SumFunctionOnSet(cost, posted)
       /\ Summable(cover, posted) /\ Summable(cost, posted)
  <2>1. CoverageOf(inst, posted) = SumFunctionOnSet(cover, posted)
    BY DEF CoverageOf, SumFunction
  <2>2. PostingCost(inst, posted) = SumFunctionOnSet(cost, posted)
    BY DEF PostingCost, SumFunction
  <2>3. \A i \in posted : cover[i] \in Int /\ cost[i] \in Int
    BY <1>4 DEF IsSecurity
  <2> QED
    BY <1>11, <2>1, <2>2, <2>3 DEF Summable
<1> DEFINE Cov == SumFunctionOnSet(cover, posted)
           Cost == SumFunctionOnSet(cost, posted)
<1>13. Cov \in Int /\ Cost \in Int
  <2> HIDE DEF posted, cover, cost
  <2> QED
    BY <1>12, SumType DEF Summable
<1>14. Splits(c, b, posted, ctail, n, k) /\ Splits(d, b, posted, dtail, n, k)
  BY <1>3, <1>8, <1>10 DEF Splits
<1>15. \A i \in posted : c[i] = D * cover[i] /\ d[i] = P * cost[i]
  <2> TAKE i \in posted
  <2>1. i \in 1..m /\ i <= n
    BY <1>3
  <2> QED
    BY <1>6, <1>7, <2>1
<1>16. \A j \in 1..k : unit[j] \in Int /\ ctail[j] = (-over) * unit[j] /\ dtail[j] = 0
  <2> TAKE j \in 1..k
  <2> DEFINE v == n + j
             e == 2^(j - 1)
  <2>1. v \in 1..m /\ ~(v <= n) /\ v - n - 1 = j - 1 /\ j - 1 \in Nat
    BY <1>3
  <2>2. c[v] = -(over * e) /\ d[v] = P * 0
    BY <1>6, <1>7, <2>1
  <2>3. b[v] \in Int
    BY <1>3, <1>8, <2>1, BitsAre
  <2>4. e \in Int
    BY <2>1
  <2>5. unit[j] = b[v] * e /\ ctail[j] = c[v] * b[v] /\ dtail[j] = d[v] * b[v]
    OBVIOUS
  <2> HIDE DEF v, e, unit, ctail, dtail
  <2> QED
    BY <1>3, <1>9, <2>2, <2>3, <2>4, <2>5
<1>17. units = SumFunctionOnSet(unit, 1..k)
  BY DEF SumFunction
<1>18. IsFiniteSet(1..k)
  BY <1>3, PairsFinite
<1> HIDE DEF posted, cover, cost, unit, ctail, dtail, Cov, Cost, units
<1>19. SumFunctionOnSet(c, posted) = D * Cov /\ SumFunctionOnSet(d, posted) = P * Cost
  BY <1>3, <1>9, <1>12, <1>15, SumScale DEF Cov, Cost
<1>20. SumFunctionOnSet(ctail, 1..k) = (-over) * units /\ units \in Int
  <2> DEFINE J == 1..k
             neg == -over
  <2>1. Summable(unit, J)
    BY <1>16, <1>18 DEF Summable
  <2>2. neg \in Int /\ \A j \in J : ctail[j] = neg * unit[j]
    BY <1>3, <1>16
  <2> HIDE DEF J, neg
  <2>3. SumFunctionOnSet(ctail, J) = neg * SumFunctionOnSet(unit, J)
    BY <2>1, <2>2, SumScale
  <2>4. SumFunctionOnSet(unit, J) \in Int
    BY <2>1, SumType DEF Summable
  <2> QED
    BY <1>17, <2>3, <2>4 DEF J, neg
<1>21. SumFunctionOnSet(dtail, 1..k) = 0
  <2> DEFINE J == 1..k
             none == {}
  <2>1. none \in SUBSET J /\ IsFiniteSet(none) /\ (\A x \in none : dtail[x] \in Int)
        /\ SumFunctionOnSet(dtail, none) = 0
    BY SumType, FS_EmptySet
  <2>2. \A j \in J \ none : dtail[j] = 0
    BY <1>16
  <2> HIDE DEF J, none
  <2>3. SumFunctionOnSet(dtail, J) = SumFunctionOnSet(dtail, none)
    BY <1>18, <2>1, <2>2, SumZeros DEF Summable, J
  <2> QED
    BY <2>1, <2>3 DEF J
<1>22. Linear(m, c, b) = D * Cov + (-over) * units /\ Linear(m, d, b) = P * Cost
  <2>1. /\ Linear(n + k, c, b) = SumFunctionOnSet(c, posted) + SumFunctionOnSet(ctail, 1..k)
        /\ Linear(n + k, d, b) = SumFunctionOnSet(d, posted) + SumFunctionOnSet(dtail, 1..k)
    BY <1>14, LinearSplits
  <2>2. P * Cost + 0 = P * Cost
    BY <1>9, <1>13
  <2> QED
    BY <1>19, <1>20, <1>21, <2>1, <2>2
<1>23. IsOneSquare(q, b, c, const, w, d, square)
  <2>1. \A p \in Pairs(m) : CollateralPrice(inst, k, p[1]) = d[p[1]]
    BY PairsIn DEF d
  <2>2. \A p \in Pairs(q.n) : q.Q[p] = w * square[p] + IF p[1] = p[2] THEN d[p[1]] ELSE 0
    BY <1>1, <2>1
  <2> QED
    BY <1>1, <1>2, <1>3, <1>6, <1>8, <1>9, <1>10, <2>2 DEF IsOneSquare
<1>24. Energy(q, b) = q.offset - w * (const * const)
                        + w * ((Linear(m, c, b) + const) * (Linear(m, c, b) + const))
                        + Linear(m, d, b)
  BY <1>1, <1>23, EnergyOfSquare
<1>25. Linear(m, c, b) + const = D * (Cov - R) - units * over
  BY <1>3, <1>13, <1>20, <1>22 DEF const
<1> DEFINE miss == D * (Cov - R) - units * over
<1>26. miss \in Int
  BY <1>3, <1>13, <1>20
<1>27. q.offset - w * (const * const) = 0
  <2>1. \A x, y, z \in Int : x * (y * z) * (y * z) - x * ((-y * z) * (-y * z)) = 0
    OBVIOUS
  <2> QED
    BY <1>1, <1>3, <1>9, <2>1 DEF const
<1>28. Energy(q, b) = 0 + w * (miss * miss) + P * Cost
  BY <1>22, <1>24, <1>25, <1>27
<1>29. CollateralEnergy(inst, slackBits, b) = w * miss * miss + P * Cost
  BY <1>5, <1>12 DEF Cov, Cost
<1> HIDE DEF miss
<1>30. 0 + w * (miss * miss) + P * Cost = w * miss * miss + P * Cost
  BY <1>9, <1>13, <1>26
<1> QED
  BY <1>28, <1>29, <1>30 DEF q

\* On a pool with securities _linear_solve admits what check_constraints accepts: that looks
\* at the issuer with the largest coverage only, and the target is positive.
LEMMA CollateralChecksRows ==
  ASSUME NEW inst, IsPool(inst), ~inst.degenerate, NEW posted \in SUBSET (DOMAIN inst.securities)
  PROVE  CollateralRows(inst, posted) <=> CollateralCheck(inst, posted)
<1> DEFINE N == DOMAIN inst.securities
           T == CoverageOf(inst, posted)
           cov(g) == CoverageOf(inst, Of(inst, posted, g))
           issuer(i) == inst.securities[i].issuer
           f == [i \in N |-> cov(issuer(i))]
           worst == CHOOSE g \in Issuers(inst) : \A h \in Issuers(inst) : cov(g) >= cov(h)
<1>1. /\ inst.securities # <<>> /\ inst.required \in Nat /\ inst.required > 0 /\ inst.cap \in Nat
      /\ inst.securities \in Seq(ToSet(inst.securities))
      /\ \A i \in N : IsSecurity(inst.securities[i])
  BY DEF IsPool
<1>2. T \in Nat /\ IsFiniteSet(N) /\ \A g : cov(g) \in Nat
  <2>1. \A g : Of(inst, posted, g) \in SUBSET N
    BY DEF Of
  <2> QED
    BY <1>1, <2>1, CoverageType
<1>3. N # {}
  BY <1>1
<1>4. worst \in Issuers(inst) /\ \A h \in Issuers(inst) : cov(worst) >= cov(h)
  <2>1. Summable(f, N)
    BY <1>2 DEF Summable
  <2>2. \E i \in N : \A j \in N : f[i] >= f[j]
    <3> HIDE DEF f, N
    <3> QED
      BY <1>3, <2>1, LeastAndGreatest
  <2>3. PICK i \in N : \A j \in N : f[i] >= f[j]
    BY <2>2
  <2>4. \A j \in N : cov(issuer(i)) >= cov(issuer(j))
    BY <2>3
  <2>5. Issuers(inst) = {issuer(j) : j \in N}
    BY DEF Issuers
  <2> HIDE DEF cov, issuer, N
  <2>6. issuer(i) \in Issuers(inst) /\ \A h \in Issuers(inst) : cov(issuer(i)) >= cov(h)
    BY <2>4, <2>5
  <2> QED
    BY <2>6
<1>5. CollateralCheck(inst, posted) <=>
        /\ T >= inst.required
        /\ inst.minimumHqla > 0 => CoverageOf(inst, Hqla(inst, posted)) >= inst.minimumHqla
        /\ T = 0 \/ 10 * cov(worst) <= inst.cap * T
  BY DEF CollateralCheck
<1>6. CollateralRows(inst, posted) <=>
        /\ T >= inst.required
        /\ inst.minimumHqla > 0 => CoverageOf(inst, Hqla(inst, posted)) >= inst.minimumHqla
        /\ \A g \in Issuers(inst) : 10 * cov(g) - inst.cap * T <= 0
  BY <1>1 DEF CollateralRows
<1> HIDE DEF worst, cov, T
<1> DEFINE cap == inst.cap * T
<1>7. cap \in Nat
  BY <1>1, <1>2
<1>8. ASSUME T >= inst.required
      PROVE  (T = 0 \/ 10 * cov(worst) <= cap)
               <=> \A g \in Issuers(inst) : 10 * cov(g) - cap <= 0
  <2> HIDE DEF cap
  <2>1. T # 0
    BY <1>1, <1>2, <1>8
  <2>2. ASSUME 10 * cov(worst) <= cap, NEW g \in Issuers(inst)
        PROVE  10 * cov(g) - cap <= 0
    <3>1. cov(worst) >= cov(g) /\ cov(g) \in Nat /\ cov(worst) \in Nat
      BY <1>2, <1>4
    <3> QED
      BY <1>7, <2>2, <3>1
  <2>3. ASSUME 10 * cov(worst) - cap <= 0
        PROVE  10 * cov(worst) <= cap
    BY <1>2, <1>7, <2>3
  <2> QED
    BY <1>4, <2>1, <2>2, <2>3
<1> QED
  BY <1>5, <1>6, <1>8

-----------------------------------------------------------------------------
(* The settlement domain: the reduction                                    *)

\* A party is added once.
LEMMA IncludeIs ==
  ASSUME NEW S, NEW parties \in Seq(S), NEW k \in S
  PROVE  /\ Include(parties, k) \in Seq(S)
         /\ Len(Include(parties, k)) = IF k \in ToSet(parties) THEN Len(parties)
                                       ELSE Len(parties) + 1
         /\ ToSet(Include(parties, k)) = ToSet(parties) \cup {k}
<1>1. CASE k \in ToSet(parties)
  BY <1>1 DEF Include
<1>2. CASE k \notin ToSet(parties)
  <2> DEFINE more == Append(parties, k)
             n == Len(parties)
  <2>1. /\ more \in Seq(S) /\ Len(more) = n + 1 /\ n \in Nat
        /\ \A i \in 1..n : more[i] = parties[i]
        /\ more[n + 1] = k
    BY AppendProperties, LenProperties
  <2>2. DOMAIN more = 1..n + 1 /\ DOMAIN parties = 1..n
    BY <2>1, LenProperties
  <2>3. Include(parties, k) = more
    BY <1>2 DEF Include
  <2> HIDE DEF more, n
  <2>4. ToSet(more) = ToSet(parties) \cup {k}
    <3>1. \A i \in 1..n + 1 : i \in 1..n \/ i = n + 1
      BY <2>1
    <3>2. \A i \in 1..n : i \in 1..n + 1
      BY <2>1
    <3>3. n + 1 \in 1..n + 1
      BY <2>1
    <3> QED
      BY <2>1, <2>2, <3>1, <3>2, <3>3 DEF ToSet
  <2> QED
    BY <1>2, <2>1, <2>3, <2>4 DEF n
<1> QED
  BY <1>1, <1>2

\* How the parties grow by those of an obligation.
LEMMA InvolveIs ==
  ASSUME NEW S, NEW o, o.payer \in S, o.payee \in S, NEW parties \in Seq(S)
  PROVE  /\ Involve(parties, o) \in Seq(S)
         /\ ToSet(Involve(parties, o)) = ToSet(parties) \cup {o.payer, o.payee}
         /\ Len(Involve(parties, o)) =
              Len(parties) + (IF o.payer \in ToSet(parties) THEN 0 ELSE 1)
                + (IF o.payee \in ToSet(parties) \cup {o.payer} THEN 0 ELSE 1)
<1> DEFINE k == o.payer
           l == o.payee
           one == Include(parties, k)
<1> k \in S /\ l \in S
  OBVIOUS
<1> HIDE DEF k, l
<1>1. /\ one \in Seq(S) /\ ToSet(one) = ToSet(parties) \cup {k}
      /\ Len(one) = IF k \in ToSet(parties) THEN Len(parties) ELSE Len(parties) + 1
  BY IncludeIs
<1> HIDE DEF one
<1>2. /\ Include(one, l) \in Seq(S)
      /\ ToSet(Include(one, l)) = ToSet(one) \cup {l}
      /\ Len(Include(one, l)) = IF l \in ToSet(one) THEN Len(one) ELSE Len(one) + 1
  BY <1>1, IncludeIs
<1>3. Involve(parties, o) = Include(one, l)
  BY DEF Involve, one, k, l
<1>4. Len(parties) \in Nat
  BY LenProperties
<1>5. Len(Include(one, l)) = Len(parties) + (IF k \in ToSet(parties) THEN 0 ELSE 1)
                               + (IF l \in ToSet(parties) \cup {k} THEN 0 ELSE 1)
  <2> DEFINE P == ToSet(parties)
             n == Len(parties)
  <2>1. /\ n \in Nat /\ Len(one) = IF k \in P THEN n ELSE n + 1
        /\ Len(Include(one, l)) = IF l \in P \cup {k} THEN Len(one) ELSE Len(one) + 1
    BY <1>1, <1>2, <1>4
  <2> HIDE DEF P, n
  <2>2. Len(Include(one, l)) = n + (IF k \in P THEN 0 ELSE 1)
                                 + (IF l \in P \cup {k} THEN 0 ELSE 1)
    <3>1. CASE k \in P
      BY <2>1, <3>1
    <3>2. CASE k \notin P
      BY <2>1, <3>2
    <3> QED
      BY <3>1, <3>2
  <2> QED
    BY <2>2 DEF P, n
<1>6. ToSet(Include(one, l)) = ToSet(parties) \cup {k, l}
  BY <1>1, <1>2
<1> QED
  BY <1>2, <1>3, <1>5, <1>6 DEF k, l

\* An obligation needs no fewer parties after another has been taken.
LEMMA InvolvedStay ==
  ASSUME NEW S, NEW o, o.payer \in S, o.payee \in S, NEW u, u.payer \in S, u.payee \in S,
         NEW parties \in Seq(S)
  PROVE  /\ Len(Involve(parties, o)) <= Len(Involve(Involve(parties, u), o))
         /\ Len(parties) <= Len(Involve(parties, u))
<1> DEFINE more == Involve(parties, u)
           P == ToSet(parties)
           Q == ToSet(more)
<1>1. /\ more \in Seq(S) /\ Q = P \cup {u.payer, u.payee}
      /\ Len(more) = Len(parties) + (IF u.payer \in P THEN 0 ELSE 1)
                       + (IF u.payee \in P \cup {u.payer} THEN 0 ELSE 1)
  <2>1. /\ Involve(parties, u) \in Seq(S)
        /\ ToSet(Involve(parties, u)) = ToSet(parties) \cup {u.payer, u.payee}
        /\ Len(Involve(parties, u)) =
             Len(parties) + (IF u.payer \in ToSet(parties) THEN 0 ELSE 1)
               + (IF u.payee \in ToSet(parties) \cup {u.payer} THEN 0 ELSE 1)
    BY InvolveIs
  <2> QED
    BY <2>1
<1>2. Len(Involve(parties, o)) = Len(parties) + (IF o.payer \in P THEN 0 ELSE 1)
                                   + (IF o.payee \in P \cup {o.payer} THEN 0 ELSE 1)
  BY InvolveIs
<1> HIDE DEF more
<1>3. Len(Involve(more, o)) = Len(more) + (IF o.payer \in Q THEN 0 ELSE 1)
                                + (IF o.payee \in Q \cup {o.payer} THEN 0 ELSE 1)
  BY <1>1, InvolveIs
<1>4. Len(parties) \in Nat
  BY LenProperties
<1> DEFINE k == o.payer
           l == o.payee
           v == u.payer
           w == u.payee
           n == Len(parties)
           m == Len(more)
<1>5. /\ Q = P \cup {v, w} /\ n \in Nat
      /\ m = n + (IF v \in P THEN 0 ELSE 1) + (IF w \in P \cup {v} THEN 0 ELSE 1)
      /\ Len(Involve(parties, o)) = n + (IF k \in P THEN 0 ELSE 1) + (IF l \in P \cup {k} THEN 0 ELSE 1)
      /\ Len(Involve(more, o)) = m + (IF k \in Q THEN 0 ELSE 1) + (IF l \in Q \cup {k} THEN 0 ELSE 1)
  BY <1>1, <1>2, <1>3, <1>4
<1> HIDE DEF P, Q, k, l, v, w, n, m
<1>6. n <= m
  BY <1>5
<1>7. Len(Involve(parties, o)) <= Len(Involve(more, o))
  <2>1. (k \in Q \/ k \in P) => k \in P \/ k = v \/ k = w
    BY <1>5
  <2> QED
    BY <1>5, SMTT(30)
<1> QED
  BY <1>6, <1>7 DEF more, n, m

\* One step of the admission: the obligation o after st.
Admitted(st, o, reserve, maxQubits) ==
  LET parties == Involve(st.parties, o)
  IN IF Len(st.chosen) + 1 + Len(parties) * reserve <= maxQubits
     THEN [chosen |-> Append(st.chosen, o), parties |-> parties]
     ELSE st

\* The states of the admission.
AdmitState(T, P) == [chosen : Seq(T), parties : Seq(P)]

\* The one it starts from.
NoneAdmitted == [chosen |-> <<>>, parties |-> <<>>]

\* The admission goes through the obligations in order.
IsAdmission(after, ordered, reserve, maxQubits, T, P) ==
  /\ after \in [0..Len(ordered) -> AdmitState(T, P)]
  /\ after[0] = NoneAdmitted
  /\ \A i \in 1..Len(ordered) : after[i] = Admitted(after[i - 1], ordered[i], reserve, maxQubits)

\* A step leads to such a state again.
LEMMA AdmittedType ==
  ASSUME NEW T, NEW P, NEW reserve, NEW maxQubits,
         NEW st \in AdmitState(T, P), NEW o \in T, o.payer \in P, o.payee \in P
  PROVE  Admitted(st, o, reserve, maxQubits) \in AdmitState(T, P)
<1>1. st.chosen \in Seq(T) /\ st.parties \in Seq(P)
  BY DEF AdmitState
<1>2. Involve(st.parties, o) \in Seq(P)
  BY <1>1, InvolveIs
<1>3. Append(st.chosen, o) \in Seq(T)
  BY <1>1, AppendProperties
<1> QED
  BY <1>2, <1>3 DEF Admitted, AdmitState

\* The parties of all obligations are among P.
Known(T, P) == \A x \in T : x.payer \in P /\ x.payee \in P

\* Admit is the last state of an admission.
LEMMA AdmissionExists ==
  ASSUME NEW T, NEW P, NEW reserve, NEW maxQubits, Known(T, P), NEW ordered \in Seq(T)
  PROVE  \E after : /\ IsAdmission(after, ordered, reserve, maxQubits, T, P)
                    /\ Admit(ordered, reserve, maxQubits) = after[Len(ordered)]
<1> DEFINE n == Len(ordered)
           St == AdmitState(T, P)
           step == [c \in (1..n) \X St |-> Admitted(c[2], ordered[c[1]], reserve, maxQubits)]
           Is(h) == h = [i \in 0..n |-> IF i = 0 THEN NoneAdmitted
                                        ELSE Admitted(h[i - 1], ordered[i], reserve, maxQubits)]
<1> \A x \in T : x.payer \in P /\ x.payee \in P
  BY DEF Known
<1>1. n \in Nat /\ \A i \in 1..n : ordered[i] \in T
  BY LenProperties, ElementOfSeq
<1>2. \A i \in 1..n : \A st \in St : step[<<i, st>>] \in St
  BY <1>1, AdmittedType
<1>3. NoneAdmitted \in St
  BY EmptySeq DEF NoneAdmitted, AdmitState
<1>4. \A i \in 1..n : \A st \in St : step[<<i, st>>] = Admitted(st, ordered[i], reserve, maxQubits)
  OBVIOUS
<1>5. PICK h \in [0..n -> St] : h[0] = NoneAdmitted /\ \A i \in 1..n : h[i] = step[<<i, h[i - 1]>>]
  <2> DEFINE start == NoneAdmitted
  <2>1. start \in St /\ n \in Nat /\ IsStep(step, St, n)
    BY <1>1, <1>2, <1>3 DEF IsStep
  <2> HIDE DEF step, n, St, start
  <2>2. \E h \in [0..n -> St] : h[0] = start /\ \A i \in 1..n : h[i] = step[<<i, h[i - 1]>>]
    BY <2>1, Recursion
  <2> QED
    BY <2>2 DEF start
<1>6. \A i \in 1..n : i - 1 \in 0..n /\ i \in 0..n /\ i # 0
  BY <1>1
<1>7. \A i \in 0..n : i = 0 \/ i \in 1..n
  BY <1>1
<1> HIDE DEF step, St
<1>8. Is(h)
  <2>1. \A i \in 0..n : h[i] = IF i = 0 THEN NoneAdmitted
                               ELSE Admitted(h[i - 1], ordered[i], reserve, maxQubits)
    BY <1>4, <1>5, <1>6, <1>7
  <2> QED
    BY <2>1
<1>9. Is(CHOOSE f : Is(f))
  BY <1>8
<1> DEFINE k == CHOOSE f : Is(f)
<1>10. Admit(ordered, reserve, maxQubits) = k[n]
  BY DEF Admit, Admitted, NoneAdmitted
<1> HIDE DEF k
<1>11. k = [i \in 0..n |-> IF i = 0 THEN NoneAdmitted
                           ELSE Admitted(k[i - 1], ordered[i], reserve, maxQubits)]
  BY <1>9 DEF k
<1>12. k[0] = NoneAdmitted /\ \A i \in 1..n : k[i] = Admitted(k[i - 1], ordered[i], reserve, maxQubits)
  <2>1. 0 \in 0..n
    BY <1>1
  <2> QED
    BY <1>6, <1>11, <2>1
<1>13. \A i \in 0..n : k[i] \in St
  <2> DEFINE good == {i \in Nat : i <= n => k[i] \in St}
  <2>1. 0 \in good
    BY <1>3, <1>12
  <2>2. ASSUME NEW i \in Nat, i \in good PROVE i + 1 \in good
    <3>1. SUFFICES ASSUME i + 1 <= n PROVE k[i + 1] \in St
      OBVIOUS
    <3>2. i <= n /\ i + 1 \in 1..n /\ (i + 1) - 1 = i
      BY <1>1, <3>1
    <3>3. k[i] \in St
      BY <2>2, <3>2
    <3>4. k[i + 1] = Admitted(k[i], ordered[i + 1], reserve, maxQubits)
      BY <1>12, <3>2
    <3>5. ordered[i + 1] \in T
      BY <1>1, <3>2
    <3> QED
      BY <3>3, <3>4, <3>5, AdmittedType DEF St
  <2> HIDE DEF good
  <2>3. \A i \in Nat : i \in good
    BY <2>1, <2>2, NumbersInduction
  <2> QED
    BY <1>1, <2>3 DEF good
<1>14. IsAdmission(k, ordered, reserve, maxQubits, T, P)
  <2>1. k \in [0..n -> St]
    BY <1>11, <1>13
  <2> QED
    BY <1>12, <2>1 DEF IsAdmission, St
<1> QED
  BY <1>10, <1>14

\* An obligation between two of the parties P.
IsObligation(o, P) ==
  o.payer \in P /\ o.payee \in P /\ o.payer # o.payee /\ o.amount \in Nat \ {0}

\* What is taken fits, with the bits reserved, and its parties are known.
IsTaken(st, reserve, maxQubits) ==
  /\ Len(st.chosen) + Len(st.parties) * reserve <= maxQubits
  /\ \A o \in ToSet(st.chosen) : {o.payer, o.payee} \subseteq ToSet(st.parties)
  /\ st.chosen = <<>> <=> st.parties = <<>>

\* An obligation is taken, or too large for what is left.
TakenOrTooLarge(st, o, reserve, maxQubits) ==
  \/ o \in ToSet(st.chosen)
  \/ Len(st.chosen) + 1 + Len(Involve(st.parties, o)) * reserve > maxQubits

\* A step keeps to the budget, takes the obligation or finds it too large, and what was
\* too large before stays so.
LEMMA AdmittedKeeps ==
  ASSUME NEW T, NEW P, NEW st \in AdmitState(T, P), NEW o \in T, o.payer \in P, o.payee \in P,
         NEW reserve \in Nat, NEW maxQubits \in Nat, IsTaken(st, reserve, maxQubits)
  PROVE  LET next == Admitted(st, o, reserve, maxQubits)
         IN  /\ IsTaken(next, reserve, maxQubits)
             /\ TakenOrTooLarge(next, o, reserve, maxQubits)
             /\ \A u \in T : u.payer \in P /\ u.payee \in P /\ TakenOrTooLarge(st, u, reserve, maxQubits)
                             => TakenOrTooLarge(next, u, reserve, maxQubits)
<1> DEFINE next == Admitted(st, o, reserve, maxQubits)
           parties == Involve(st.parties, o)
<1>1. /\ st.chosen \in Seq(T) /\ st.parties \in Seq(P)
      /\ Len(st.chosen) \in Nat /\ Len(st.parties) \in Nat
  BY LenProperties DEF AdmitState
<1>2. /\ parties \in Seq(P) /\ Len(parties) \in Nat
      /\ ToSet(parties) = ToSet(st.parties) \cup {o.payer, o.payee}
  <2> DEFINE before == st.parties
  <2>1. before \in Seq(P)
    BY <1>1
  <2> HIDE DEF before
  <2>2. Involve(before, o) \in Seq(P) /\ ToSet(Involve(before, o)) = ToSet(before) \cup {o.payer, o.payee}
    BY <2>1, InvolveIs
  <2>3. Len(Involve(before, o)) \in Nat
    BY <2>2, LenProperties
  <2> QED
    BY <2>2, <2>3 DEF before
<1> HIDE DEF parties
<1>3. CASE ~(Len(st.chosen) + 1 + Len(parties) * reserve <= maxQubits)
  <2>1. next = st
    BY <1>3 DEF Admitted, parties
  <2>2. Len(parties) * reserve \in Nat
    BY <1>2
  <2>3. TakenOrTooLarge(st, o, reserve, maxQubits)
    <3>1. Len(st.chosen) + 1 + Len(parties) * reserve > maxQubits
      <4> DEFINE extra == Len(parties) * reserve
      <4>1. extra \in Nat /\ ~(Len(st.chosen) + 1 + extra <= maxQubits)
        BY <1>3, <2>2
      <4> HIDE DEF extra
      <4>2. Len(st.chosen) + 1 + extra > maxQubits
        BY <1>1, <4>1
      <4> QED
        BY <4>2 DEF extra
    <3> QED
      BY <3>1 DEF TakenOrTooLarge, parties
  <2> HIDE DEF next
  <2> QED
    BY <2>1, <2>3 DEF next
<1>4. CASE Len(st.chosen) + 1 + Len(parties) * reserve <= maxQubits
  <2>1. next.chosen = Append(st.chosen, o) /\ next.parties = parties
    BY <1>4 DEF Admitted, parties
  <2> HIDE DEF next
  <2>2. /\ ToSet(next.chosen) = ToSet(st.chosen) \cup {o} /\ next.chosen # <<>>
        /\ Len(next.chosen) = Len(st.chosen) + 1
    BY <1>1, <2>1, AppendSet
  <2>3. next.parties # <<>>
    <3>1. SUFFICES ASSUME parties = <<>> PROVE FALSE
      BY <2>1
    <3>2. DOMAIN <<>> = {}
      OBVIOUS
    <3>3. ToSet(parties) = {}
      BY <3>1, <3>2 DEF ToSet
    <3> QED
      BY <1>2, <3>3
  <2>4. IsTaken(next, reserve, maxQubits)
    <3>1. Len(next.chosen) + Len(next.parties) * reserve <= maxQubits
      BY <1>1, <1>2, <1>4, <2>1, <2>2
    <3>2. \A u \in ToSet(next.chosen) : {u.payer, u.payee} \subseteq ToSet(next.parties)
      BY <1>2, <2>1, <2>2 DEF IsTaken
    <3> QED
      BY <2>2, <2>3, <3>1, <3>2 DEF IsTaken
  <2>5. TakenOrTooLarge(next, o, reserve, maxQubits)
    BY <2>2 DEF TakenOrTooLarge
  <2>6. ASSUME NEW u \in T, u.payer \in P, u.payee \in P,
               TakenOrTooLarge(st, u, reserve, maxQubits)
        PROVE  TakenOrTooLarge(next, u, reserve, maxQubits)
    <3>1. CASE u \in ToSet(st.chosen)
      BY <2>2, <3>1 DEF TakenOrTooLarge
    <3>2. CASE Len(st.chosen) + 1 + Len(Involve(st.parties, u)) * reserve > maxQubits
      <4> DEFINE a == Len(Involve(st.parties, u))
                 b == Len(Involve(next.parties, u))
                 before == st.parties
      <4>1. Len(Involve(before, u)) <= Len(Involve(Involve(before, o), u))
        BY <1>1, <2>6, InvolvedStay
      <4>2. a <= b
        BY <2>1, <4>1 DEF parties
      <4>3. a \in Nat /\ b \in Nat
        BY <1>1, <1>2, <2>1, <2>6, InvolveIs, LenProperties
      <4>4. Len(st.chosen) + 1 + a * reserve > maxQubits
        BY <3>2
      <4> HIDE DEF a, b
      <4>5. a * reserve <= b * reserve /\ a * reserve \in Nat /\ b * reserve \in Nat
        BY <4>2, <4>3, Larger
      <4>6. Len(next.chosen) + 1 + b * reserve > maxQubits
        BY <1>1, <2>2, <4>4, <4>5
      <4> QED
        BY <4>6 DEF b, TakenOrTooLarge
    <3> QED
      BY <2>6, <3>1, <3>2 DEF TakenOrTooLarge
  <2> QED
    BY <2>4, <2>5, <2>6 DEF next
<1> QED
  BY <1>3, <1>4

\* What admit makes of the obligations.
LEMMA AdmissionKeeps ==
  ASSUME NEW T, NEW P, Known(T, P), NEW ordered \in Seq(T),
         NEW reserve \in Nat, NEW maxQubits \in Nat
  PROVE  LET taken == Admit(ordered, reserve, maxQubits)
         IN  /\ taken \in AdmitState(T, P)
             /\ IsTaken(taken, reserve, maxQubits)
             /\ \A o \in ToSet(ordered) : TakenOrTooLarge(taken, o, reserve, maxQubits)
<1> \A x \in T : x.payer \in P /\ x.payee \in P
  BY DEF Known
<1>1. PICK after : /\ IsAdmission(after, ordered, reserve, maxQubits, T, P)
                   /\ Admit(ordered, reserve, maxQubits) = after[Len(ordered)]
  BY AdmissionExists
<1> DEFINE n == Len(ordered)
           Fine(i) == /\ IsTaken(after[i], reserve, maxQubits)
                      /\ \A j \in 1..i : TakenOrTooLarge(after[i], ordered[j], reserve, maxQubits)
           good == {i \in Nat : i <= n => Fine(i)}
<1>2. n \in Nat /\ (\A i \in 1..n : ordered[i] \in T) /\ DOMAIN ordered = 1..n
  BY LenProperties, ElementOfSeq
<1>3. /\ \A i \in 0..n : after[i] \in AdmitState(T, P)
      /\ after[0] = NoneAdmitted
      /\ \A i \in 1..n : after[i] = Admitted(after[i - 1], ordered[i], reserve, maxQubits)
  BY <1>1 DEF IsAdmission
<1>4. Fine(0)
  <2>1. IsTaken(NoneAdmitted, reserve, maxQubits)
    <3>1. NoneAdmitted.chosen = <<>> /\ NoneAdmitted.parties = <<>>
      BY DEF NoneAdmitted
    <3>2. Len(<<>>) = 0 /\ 0 * reserve = 0
      BY EmptySeq
    <3>3. DOMAIN <<>> = {}
      OBVIOUS
    <3>4. \A o \in ToSet(NoneAdmitted.chosen) : FALSE
      BY <3>1, <3>3 DEF ToSet
    <3>5. Len(NoneAdmitted.chosen) + Len(NoneAdmitted.parties) * reserve <= maxQubits
      BY <3>1, <3>2
    <3> QED
      BY <3>1, <3>4, <3>5 DEF IsTaken
  <2> QED
    BY <1>3, <2>1
<1>5. ASSUME NEW i \in Nat, i + 1 <= n, Fine(i)
      PROVE  Fine(i + 1)
  <2> DEFINE st == after[i]
             o == ordered[i + 1]
  <2>1. i \in 0..n /\ i + 1 \in 1..n /\ (i + 1) - 1 = i
    BY <1>2, <1>5
  <2>2. st \in AdmitState(T, P) /\ o \in T /\ o.payer \in P /\ o.payee \in P
    BY <1>2, <1>3, <2>1
  <2>3. after[i + 1] = Admitted(st, o, reserve, maxQubits)
    BY <1>3, <2>1
  <2>4. IsTaken(st, reserve, maxQubits)
    BY <1>5
  <2> HIDE DEF st, o
  <2>5. /\ IsTaken(after[i + 1], reserve, maxQubits)
        /\ TakenOrTooLarge(after[i + 1], o, reserve, maxQubits)
        /\ \A u \in T : u.payer \in P /\ u.payee \in P /\ TakenOrTooLarge(st, u, reserve, maxQubits)
                        => TakenOrTooLarge(after[i + 1], u, reserve, maxQubits)
    BY <2>2, <2>3, <2>4, AdmittedKeeps
  <2>6. ASSUME NEW j \in 1..i + 1
        PROVE  TakenOrTooLarge(after[i + 1], ordered[j], reserve, maxQubits)
    <3>1. CASE j = i + 1
      BY <2>5, <3>1 DEF o
    <3>2. CASE j # i + 1
      <4>1. j \in 1..i /\ j \in 1..n
        BY <2>1, <3>2
      <4>2. TakenOrTooLarge(st, ordered[j], reserve, maxQubits)
        BY <1>5, <4>1 DEF st
      <4> QED
        BY <1>2, <2>5, <4>1, <4>2
    <3> QED
      BY <3>1, <3>2
  <2> QED
    BY <2>5, <2>6
<1> HIDE DEF Fine
<1>6. 0 \in good
  BY <1>4
<1>7. ASSUME NEW i \in Nat, i \in good PROVE i + 1 \in good
  <2>1. i + 1 <= n => i <= n
    BY <1>2
  <2> QED
    BY <1>5, <1>7, <2>1
<1> HIDE DEF good
<1>8. n \in good
  BY <1>2, <1>6, <1>7, NumbersInduction
<1>9. Fine(n) /\ n \in 0..n
  BY <1>2, <1>8 DEF good
<1>10. \A o \in ToSet(ordered) : \E j \in 1..n : o = ordered[j]
  BY <1>2 DEF ToSet
<1> QED
  BY <1>1, <1>3, <1>9, <1>10 DEF Fine

\* Sorting by amount, obligations or payments.
LEMMA ByAmount ==
  ASSUME NEW T, NEW s \in Seq(T), \A x \in T : x.amount \in Nat
  PROVE  /\ Permutes(StableSort(s, LargerAmount), s)
         /\ Permutes(StableSort(s, LargerPayment), s)
<1> DEFINE n == Len(s)
           B == {c \in (1..n) \X (1..n) : s[c[1]].amount > s[c[2]].amount}
<1>1. n \in Nat /\ DOMAIN s = 1..n /\ \A i \in 1..n : s[i].amount \in Nat
  BY ElementOfSeq
<1>2. IsWeakOrder(B, 1..n)
  <2> DEFINE a == [i \in 1..n |-> s[i].amount]
  <2>1. /\ \A i, j \in 1..n : <<i, j>> \in B <=> a[i] > a[j]
        /\ \A i \in 1..n : a[i] \in Nat
    BY <1>1
  <2> HIDE DEF a, B
  <2>2. ASSUME NEW i \in 1..n, NEW j \in 1..n
        PROVE  ~(<<i, j>> \in B /\ <<j, i>> \in B)
    <3>1. a[i] \in Nat /\ a[j] \in Nat
      BY <2>1
    <3>2. ~(a[i] > a[j] /\ a[j] > a[i])
      BY <3>1
    <3> QED
      BY <2>1, <3>2
  <2>3. ASSUME NEW i \in 1..n, NEW j \in 1..n, NEW k \in 1..n, <<i, j>> \notin B, <<j, k>> \notin B
        PROVE  <<i, k>> \notin B
    <3>1. ~(a[i] > a[j]) /\ ~(a[j] > a[k]) /\ a[i] \in Nat /\ a[j] \in Nat /\ a[k] \in Nat
      BY <2>1, <2>3
    <3>2. ~(a[i] > a[k])
      BY <3>1
    <3> QED
      BY <2>1, <3>2
  <2> QED
    BY <2>2, <2>3 DEF IsWeakOrder
<1>3. StableSort(s, LargerAmount) = SortedBy(s, B)
  <2> DEFINE precedes(i, j) == \/ LargerAmount(s[i], s[j])
                               \/ ~LargerAmount(s[j], s[i]) /\ i < j
             rank(i) == Cardinality({j \in DOMAIN s : precedes(j, i)})
  <2>1. \A i \in 1..n : {j \in DOMAIN s : precedes(j, i)} = Preceding(B, 1..n, i)
    BY <1>1 DEF Preceding, LargerAmount
  <2>2. \A k \in 1..n : (CHOOSE i \in 1..n : Cardinality(Preceding(B, 1..n, i)) = k - 1) =
                        (CHOOSE i \in DOMAIN s : rank(i) = k - 1)
    BY <1>1, <2>1
  <2>3. StableSort(s, LargerAmount) =
          [k \in DOMAIN s |-> s[CHOOSE i \in DOMAIN s : rank(i) = k - 1]]
    BY DEF StableSort
  <2> HIDE DEF rank, B
  <2> QED
    BY <1>1, <2>2, <2>3 DEF SortedBy
<1>4. StableSort(s, LargerPayment) = SortedBy(s, B)
  <2> DEFINE precedes(i, j) == \/ LargerPayment(s[i], s[j])
                               \/ ~LargerPayment(s[j], s[i]) /\ i < j
             rank(i) == Cardinality({j \in DOMAIN s : precedes(j, i)})
  <2>1. \A i \in 1..n : {j \in DOMAIN s : precedes(j, i)} = Preceding(B, 1..n, i)
    BY <1>1 DEF Preceding, LargerPayment
  <2>2. \A k \in 1..n : (CHOOSE i \in 1..n : Cardinality(Preceding(B, 1..n, i)) = k - 1) =
                        (CHOOSE i \in DOMAIN s : rank(i) = k - 1)
    BY <1>1, <2>1
  <2>3. StableSort(s, LargerPayment) =
          [k \in DOMAIN s |-> s[CHOOSE i \in DOMAIN s : rank(i) = k - 1]]
    BY DEF StableSort
  <2> HIDE DEF rank, B
  <2> QED
    BY <1>1, <2>2, <2>3 DEF SortedBy
<1> QED
  BY <1>2, <1>3, <1>4, SortingPermutes

\* What reduce_to_settlement_instance yields.
IsBatch(inst) ==
  /\ inst.obligations \in Seq(ToSet(inst.obligations)) /\ inst.obligations # <<>>
  /\ inst.parties \in Seq(ToSet(inst.parties)) /\ inst.parties # <<>>
  /\ \A o \in ToSet(inst.obligations) : IsObligation(o, ToSet(inst.parties))
  /\ \A k \in ToSet(inst.parties) : inst.balance[k] \in Nat
  /\ inst.slackBits \in 0..SETTLEMENT_SLACK_BITS
  /\ inst.ratio \in 0..10 /\ inst.penalty \in Nat \ {0} /\ inst.degenerate = FALSE

\* There are as many blocks of slack bits as parties, at most.
LEMMA BlocksAre ==
  ASSUME NEW inst, inst.parties \in Seq(ToSet(inst.parties))
  PROVE  /\ WithSlack(inst) \in Seq(ToSet(inst.parties))
         /\ Len(WithSlack(inst)) \in Nat /\ Len(WithSlack(inst)) <= Len(inst.parties)
<1> DEFINE s == inst.parties
           n == Len(s)
           kept == {i \in DOMAIN s : Headroom(inst, s[i]) > 0}
<1>1. s \in Seq(ToSet(s)) /\ n \in Nat /\ DOMAIN s = 1..n
  BY LenProperties
<1>2. CASE inst.slackBits = 0
  <2>1. WithSlack(inst) = <<>>
    BY <1>2 DEF WithSlack
  <2> QED
    BY <1>1, <2>1, EmptySeq
<1>3. CASE inst.slackBits # 0
  <2>1. WithSlack(inst) = Kept(s, kept)
    BY <1>3 DEF WithSlack
  <2>2. kept \in SUBSET (DOMAIN s)
    OBVIOUS
  <2> HIDE DEF kept, s
  <2>3. KeepsOnly(Kept(s, kept), s, kept)
    BY <1>1, <2>2, KeptIs
  <2>4. Kept(s, kept) \in Seq(ToSet(s)) /\ Len(Kept(s, kept)) = Cardinality(kept)
    BY <2>3 DEF KeepsOnly
  <2>5. Cardinality(kept) <= n /\ Cardinality(kept) \in Nat
    <3> DEFINE all == 1..n
    <3>1. IsFiniteSet(all) /\ Cardinality(all) = n /\ kept \in SUBSET all
      <4>1. 1 \in Int /\ n \in Int /\ kept \in SUBSET all
        BY <1>1, <2>2
      <4>2. IsFiniteSet(1..n) /\ Cardinality(1..n) = IF 1 > n THEN 0 ELSE n - 1 + 1
        BY <4>1, FS_Interval
      <4> QED
        BY <1>1, <4>1, <4>2
    <3> HIDE DEF all
    <3> QED
      BY <3>1, FS_Subset, FS_CardinalityType
  <2> QED
    BY <2>1, <2>4, <2>5 DEF s, n
<1> QED
  BY <1>2, <1>3

\* The reduction of a specification to a batch that fits the budget; from three qubits on
\* there are slack bits, and what is left out did not fit.
LEMMA SettlementReduces ==
  ASSUME NEW p, IsSettlementSpec(p)
  PROVE  LET inst == SettlementInstance(p)
         IN  /\ IsBatch(inst)
             /\ SettlementSize(inst) <= p.maxQubits
             /\ p.maxQubits >= 3 =>
                  /\ inst.slackBits > 0
                  /\ \A o \in ToSet(p.obligations) :
                       \/ o \in ToSet(inst.obligations)
                       \/ Len(inst.obligations) + 1 + Len(Involve(inst.parties, o)) > p.maxQubits
<1> DEFINE T == ToSet(p.obligations)
           P == DOMAIN p.balance
           maxQ == p.maxQubits
           ordered == StableSort(p.obligations, LargerAmount)
           reserved == Admit(ordered, 1, maxQ)
           free == Admit(ordered, 0, maxQ)
           taken == IF reserved.chosen = <<>> THEN free ELSE reserved
           spare == maxQ - Len(taken.chosen)
           shares == spare \div Len(taken.parties)
           inst == SettlementInstance(p)
<1>1. /\ p.obligations \in Seq(T) /\ p.obligations # <<>>
      /\ \A x \in T : IsObligation(x, P)
      /\ \A k \in P : p.balance[k] \in Nat
      /\ p.ratio \in 0..10 /\ p.penalty \in Nat \ {0} /\ maxQ \in Nat \ {0}
  BY DEF IsSettlementSpec, IsObligation, ToSet
<1>2. maxQ \in Nat /\ maxQ > 0
  BY <1>1
<1>3. /\ \A a, b \in Nat : a * 0 = 0 /\ a * 1 = a /\ (a + b <= maxQ => a <= maxQ)
      /\ \A a, b \in Nat : a + b <= maxQ => b <= maxQ - a
      /\ \A a \in Nat : a + 0 <= maxQ => a <= maxQ
  BY <1>2
<1>4. Permutes(ordered, p.obligations)
  <2>1. \A x \in T : x.amount \in Nat
    BY <1>1 DEF IsObligation
  <2> HIDE DEF T
  <2> QED
    BY <1>1, <2>1, ByAmount
<1>5. ordered \in Seq(T) /\ ToSet(ordered) = T /\ Len(ordered) = Len(p.obligations) /\ Known(T, P)
  BY <1>1, <1>4 DEF Permutes, IsObligation, Known
<1>6. /\ inst.obligations = taken.chosen /\ inst.parties = taken.parties
      /\ inst.balance = [k \in ToSet(taken.parties) |-> p.balance[k]]
      /\ inst.slackBits = IF reserved.chosen = <<>> THEN 0 ELSE Min({SETTLEMENT_SLACK_BITS, shares})
      /\ inst.ratio = p.ratio /\ inst.penalty = p.penalty /\ inst.degenerate = FALSE
  BY DEF SettlementInstance
<1> HIDE DEF ordered, T, P, maxQ, inst
<1>7. /\ reserved \in AdmitState(T, P) /\ IsTaken(reserved, 1, maxQ)
      /\ \A o \in T : TakenOrTooLarge(reserved, o, 1, maxQ)
  BY <1>1, <1>5, AdmissionKeeps
<1>8. /\ free \in AdmitState(T, P) /\ IsTaken(free, 0, maxQ)
      /\ \A o \in T : TakenOrTooLarge(free, o, 0, maxQ)
  BY <1>1, <1>5, AdmissionKeeps
<1> HIDE DEF reserved, free
<1>9. /\ taken.chosen \in Seq(T) /\ taken.parties \in Seq(P)
      /\ Len(taken.chosen) \in Nat /\ Len(taken.parties) \in Nat
      /\ \A o \in ToSet(taken.chosen) : {o.payer, o.payee} \subseteq ToSet(taken.parties)
      /\ taken.chosen = <<>> <=> taken.parties = <<>>
  <2>1. taken \in AdmitState(T, P)
    BY <1>7, <1>8
  <2>2. /\ \A o \in ToSet(taken.chosen) : {o.payer, o.payee} \subseteq ToSet(taken.parties)
        /\ taken.chosen = <<>> <=> taken.parties = <<>>
    BY <1>7, <1>8 DEF IsTaken
  <2> HIDE DEF taken
  <2>3. taken.chosen \in Seq(T) /\ taken.parties \in Seq(P)
    BY <2>1 DEF AdmitState
  <2> QED
    BY <2>2, <2>3, LenProperties
<1>10. Len(taken.chosen) \in Nat /\ Len(taken.parties) \in Nat
  BY <1>9
<1>11. Len(taken.chosen) + (IF reserved.chosen = <<>> THEN 0 ELSE Len(taken.parties)) <= maxQ
  <2>1. CASE reserved.chosen = <<>>
    <3>1. taken = free /\ Len(free.chosen) + Len(free.parties) * 0 <= maxQ
      BY <1>8, <2>1 DEF IsTaken
    <3> HIDE DEF taken
    <3>2. Len(free.parties) \in Nat /\ Len(free.chosen) \in Nat /\ taken = free
      BY <1>9, <3>1
    <3>3. Len(free.parties) * 0 = 0
      BY <1>3, <3>2
    <3>4. Len(free.chosen) <= maxQ
      BY <1>3, <3>1, <3>2, <3>3
    <3> QED
      BY <2>1, <3>2, <3>4
  <2>2. CASE reserved.chosen # <<>>
    <3>1. taken = reserved /\ Len(reserved.chosen) + Len(reserved.parties) * 1 <= maxQ
      BY <1>7, <2>2 DEF IsTaken
    <3> HIDE DEF taken
    <3>2. Len(reserved.parties) \in Nat /\ Len(reserved.chosen) \in Nat /\ taken = reserved
      BY <1>9, <3>1
    <3>3. Len(reserved.chosen) + Len(reserved.parties) <= maxQ
      BY <1>2, <1>3, <3>1, <3>2
    <3> QED
      BY <2>2, <3>2, <3>3
  <2> QED
    BY <2>1, <2>2
<1>12. PICK first \in T : TRUE
  <2>1. Len(p.obligations) \in Nat \ {0} /\ DOMAIN p.obligations = 1..Len(p.obligations)
    BY <1>1, EmptySeq, LenProperties
  <2>2. p.obligations[1] \in T
    BY <2>1 DEF T, ToSet
  <2> QED
    BY <2>2
<1>13. Len(<<>>) = 0 /\ ToSet(<<>>) = {}
  <2>1. DOMAIN <<>> = {}
    OBVIOUS
  <2> QED
    BY <2>1, EmptySeq DEF ToSet
<1>14. first.payer \in P /\ first.payee \in P
  BY <1>1, <1>12 DEF IsObligation
<1>15. taken.chosen # <<>>
  <2> SUFFICES ASSUME reserved.chosen = <<>>, free.chosen = <<>> PROVE FALSE
    OBVIOUS
  <2>1. TakenOrTooLarge(free, first, 0, maxQ)
    BY <1>8, <1>12
  <2>2. Len(free.chosen) + 1 + Len(Involve(free.parties, first)) * 0 > maxQ
    BY <1>13, <2>1 DEF TakenOrTooLarge
  <2>3. Len(Involve(free.parties, first)) \in Nat
    <3> DEFINE before == free.parties
    <3>1. before \in Seq(P)
      BY <1>8 DEF AdmitState
    <3> HIDE DEF before
    <3>2. Involve(before, first) \in Seq(P)
      BY <1>14, <3>1, InvolveIs
    <3> QED
      BY <3>2, LenProperties DEF before
  <2> QED
    BY <1>2, <1>13, <2>2, <2>3
<1>16. maxQ >= 3 => reserved.chosen # <<>>
  <2> SUFFICES ASSUME maxQ >= 3, reserved.chosen = <<>> PROVE FALSE
    OBVIOUS
  <2>1. TakenOrTooLarge(reserved, first, 1, maxQ)
    BY <1>7, <1>12
  <2>2. Len(reserved.chosen) + 1 + Len(Involve(reserved.parties, first)) * 1 > maxQ
    BY <1>13, <2>1 DEF TakenOrTooLarge
  <2>3. reserved.parties = <<>>
    BY <1>7 DEF IsTaken
  <2>4. Len(Involve(reserved.parties, first)) \in 0..2
    <3> DEFINE before == reserved.parties
    <3>1. before \in Seq(P)
      BY <1>7 DEF AdmitState
    <3>2. Len(before) = 0
      BY <1>13, <2>3
    <3> HIDE DEF before
    <3>3. /\ Involve(before, first) \in Seq(P)
          /\ ToSet(Involve(before, first)) = ToSet(before) \cup {first.payer, first.payee}
          /\ Len(Involve(before, first)) =
               Len(before) + (IF first.payer \in ToSet(before) THEN 0 ELSE 1)
                 + (IF first.payee \in ToSet(before) \cup {first.payer} THEN 0 ELSE 1)
      BY <1>14, <3>1, InvolveIs
    <3>4. Len(Involve(before, first)) \in 0..2
      BY <3>3, <3>2
    <3> QED
      BY <3>4 DEF before
  <2>5. Len(reserved.chosen) = 0
    BY <1>13
  <2> DEFINE a == Len(Involve(reserved.parties, first))
  <2>6. a \in 0..2 /\ 0 + 1 + a * 1 > maxQ
    BY <2>2, <2>4, <2>5
  <2> HIDE DEF a
  <2> QED
    BY <1>2, <2>6
<1> HIDE DEF taken
<1>17. Len(taken.parties) \in Nat \ {0} /\ spare \in Nat /\ spare + Len(taken.chosen) = maxQ
  <2>1. Len(taken.parties) \in Nat \ {0}
    BY <1>9, <1>15, EmptySeq
  <2>2. maxQ \in Nat /\ Len(taken.chosen) <= maxQ
    <3>1. CASE reserved.chosen = <<>>
      BY <1>2, <1>10, <1>11, <3>1
    <3>2. CASE reserved.chosen # <<>>
      <4>1. Len(taken.chosen) + Len(taken.parties) <= maxQ
        BY <1>11, <3>2
      <4> QED
        BY <1>2, <1>3, <1>10, <4>1
    <3> QED
      BY <3>1, <3>2
  <2> QED
    BY <1>9, <2>1, <2>2 DEF spare
<1> HIDE DEF spare
<1>18. /\ shares \in Nat /\ shares * Len(taken.parties) <= spare
       /\ Len(taken.parties) <= spare => shares >= 1
  BY <1>17, Divided
<1> HIDE DEF shares
<1>19. /\ inst.slackBits \in 0..SETTLEMENT_SLACK_BITS /\ inst.slackBits <= shares
       /\ reserved.chosen # <<>> /\ shares >= 1 => inst.slackBits >= 1
  <2>1. SETTLEMENT_SLACK_BITS = 3
    BY DEF SETTLEMENT_SLACK_BITS
  <2>2. Min({3, shares}) = IF 3 <= shares THEN 3 ELSE shares
    BY <1>18, SmallerAndLarger
  <2> QED
    BY <1>6, <1>18, <2>1, <2>2
<1>20. IsBatch(inst)
  <2>1. /\ taken.chosen \in Seq(ToSet(taken.chosen))
        /\ taken.parties \in Seq(ToSet(taken.parties))
    BY <1>9, SeqOfRange DEF Range, ToSet
  <2>2. ToSet(taken.chosen) \subseteq T /\ ToSet(taken.parties) \subseteq P
    BY <1>9, ElementOfSeq, LenProperties DEF ToSet
  <2>3. \A o \in ToSet(taken.chosen) : IsObligation(o, ToSet(taken.parties))
    BY <1>1, <1>9, <2>2 DEF IsObligation
  <2>4. \A k \in ToSet(taken.parties) : inst.balance[k] \in Nat
    BY <1>1, <1>6, <2>2
  <2> QED
    BY <1>1, <1>6, <1>9, <1>15, <1>19, <2>1, <2>3, <2>4 DEF IsBatch
<1>21. SettlementSize(inst) <= maxQ
  <2> DEFINE blocks == Len(WithSlack(inst))
             b == inst.slackBits
             n == Len(taken.parties)
  <2>1. blocks \in Nat /\ blocks <= n
    BY <1>6, <1>20, BlocksAre DEF IsBatch
  <2>2. SettlementSize(inst) = Len(taken.chosen) + b * blocks
    BY <1>6 DEF SettlementSize
  <2>3. b \in Nat /\ b <= shares /\ shares \in Nat /\ n \in Nat /\ shares * n <= spare
    BY <1>17, <1>18, <1>19 DEF SETTLEMENT_SLACK_BITS
  <2> HIDE DEF blocks, b, n
  <2>4. blocks * b <= n * b /\ b * n <= shares * n /\ blocks * b \in Nat /\ n * b \in Nat
        /\ b * n = n * b /\ b * blocks = blocks * b /\ shares * n \in Nat
    BY <2>1, <2>3, Larger
  <2>5. b * blocks \in Nat /\ b * blocks <= spare
    BY <1>17, <2>3, <2>4
  <2> DEFINE used == b * blocks
  <2> HIDE DEF used
  <2>6. used \in Nat /\ used <= spare /\ SettlementSize(inst) = Len(taken.chosen) + used
    BY <2>2, <2>5 DEF used
  <2> QED
    BY <1>9, <1>17, <2>6
<1>22. ASSUME maxQ >= 3
       PROVE  /\ inst.slackBits > 0
              /\ \A o \in T : \/ o \in ToSet(inst.obligations)
                              \/ Len(inst.obligations) + 1 + Len(Involve(inst.parties, o)) > maxQ
  <2>1. reserved.chosen # <<>> /\ taken = reserved
    BY <1>16, <1>22 DEF taken
  <2>2. Len(taken.parties) <= spare
    <3>1. Len(taken.chosen) + Len(taken.parties) <= maxQ
      BY <1>11, <2>1
    <3> QED
      BY <1>2, <1>3, <1>10, <3>1 DEF spare
  <2>3. inst.slackBits > 0
    BY <1>18, <1>19, <2>1, <2>2 DEF SETTLEMENT_SLACK_BITS
  <2>4. ASSUME NEW o \in T, o \notin ToSet(inst.obligations)
        PROVE  Len(inst.obligations) + 1 + Len(Involve(inst.parties, o)) > maxQ
    <3>1. Len(taken.chosen) + 1 + Len(Involve(taken.parties, o)) * 1 > maxQ
      BY <1>6, <1>7, <2>1, <2>4 DEF TakenOrTooLarge
    <3>2. Len(Involve(taken.parties, o)) \in Nat
      <4> DEFINE before == taken.parties
      <4>1. before \in Seq(P) /\ o.payer \in P /\ o.payee \in P
        BY <1>1, <1>9 DEF IsObligation
      <4> HIDE DEF before
      <4>2. Involve(before, o) \in Seq(P)
        BY <4>1, InvolveIs
      <4> QED
        BY <4>2, LenProperties DEF before
    <3>3. Len(taken.chosen) + 1 + Len(Involve(taken.parties, o)) > maxQ
      BY <1>2, <1>3, <1>9, <3>1, <3>2
    <3> QED
      BY <1>6, <3>3
  <2> QED
    BY <2>3, <2>4
<1> QED
  BY <1>20, <1>21, <1>22 DEF inst, maxQ, T

-----------------------------------------------------------------------------
(* The settlement domain: the encoding                                     *)

\* The value of a batch is a number.
LEMMA ValueType ==
  ASSUME NEW T, NEW obs \in Seq(T), \A o \in T : o.amount \in Nat, NEW batch \in SUBSET (DOMAIN obs)
  PROVE  /\ ValueOf(obs, batch) \in Nat /\ IsFiniteSet(batch)
         /\ DOMAIN obs = 1..Len(obs) /\ Len(obs) \in Nat /\ \A i \in batch : obs[i].amount \in Nat
<1> DEFINE f == [i \in batch |-> obs[i].amount]
<1>1. DOMAIN obs = 1..Len(obs) /\ Len(obs) \in Nat /\ \A i \in DOMAIN obs : obs[i] \in T
  BY LenProperties, ElementOfSeq
<1>2. IsFiniteSet(batch)
  BY ElementsFinite, FS_Subset
<1>3. DOMAIN f = batch /\ \A i \in batch : f[i] \in Nat
  BY <1>1
<1>4. ValueOf(obs, batch) = SumFunction(f)
  BY DEF ValueOf
<1> HIDE DEF f
<1>5. SumFunction(f) \in Nat
  BY <1>2, <1>3, SumOfDomain, SumOfNaturals
<1> QED
  BY <1>1, <1>2, <1>4, <1>5

\* The numbers that the encoding of a batch is made of: the scale D,
SettlementD(inst) == 2^inst.slackBits - 1

\* the value of all obligations,
AllValue(inst) == ValueOf(inst.obligations, DOMAIN inst.obligations)

\* the weight of the penalty,
SettlementWeight(inst) ==
  LiquidityWeight(inst, SmallestAmount(inst.obligations), AllValue(inst))

\* the linear form of the net outflow and the slack of participant k,
SettlementForm(inst, k) == LiquidityForm(inst, k, SettlementD(inst))

\* and its constant.
SettlementConst(inst, k) == -SettlementD(inst) * inst.balance[k]

\* The parts of a batch.
LEMMA BatchTyped ==
  ASSUME NEW inst, IsBatch(inst)
  PROVE  LET obs == inst.obligations
         IN  /\ obs \in Seq(ToSet(obs)) /\ Len(obs) \in Nat \ {0} /\ DOMAIN obs = 1..Len(obs)
             /\ \A o \in ToSet(obs) : o.amount \in Nat
             /\ \A i \in 1..Len(obs) : obs[i] \in ToSet(obs) /\ obs[i].amount \in Nat
             /\ IsFiniteSet(DOMAIN obs) /\ IsFiniteSet(ToSet(inst.parties))
             /\ inst.slackBits \in Nat /\ inst.penalty \in Int
             /\ \A k \in ToSet(inst.parties) : inst.balance[k] \in Nat
             /\ Len(WithSlack(inst)) \in Nat /\ SettlementSize(inst) \in Nat
             /\ Len(obs) <= SettlementSize(inst)
<1> DEFINE obs == inst.obligations
           n == Len(obs)
<1>1. /\ obs \in Seq(ToSet(obs)) /\ obs # <<>> /\ inst.parties \in Seq(ToSet(inst.parties))
      /\ \A k \in ToSet(inst.parties) : inst.balance[k] \in Nat
      /\ inst.slackBits \in Nat /\ inst.penalty \in Int
      /\ \A o \in ToSet(obs) : o.amount \in Nat
  BY DEF IsBatch, IsObligation, SETTLEMENT_SLACK_BITS
<1>2. n \in Nat \ {0} /\ DOMAIN obs = 1..n
  BY <1>1, EmptySeq, LenProperties
<1>3. \A i \in 1..n : obs[i] \in ToSet(obs)
  BY <1>2 DEF ToSet
<1>4. IsFiniteSet(DOMAIN obs) /\ IsFiniteSet(ToSet(inst.parties))
  BY <1>1, ElementsFinite
<1>5. Len(WithSlack(inst)) \in Nat
  BY <1>1, BlocksAre
<1>6. SettlementSize(inst) \in Nat /\ n <= SettlementSize(inst)
  <2> DEFINE blocks == Len(WithSlack(inst))
             b == inst.slackBits
  <2>1. SettlementSize(inst) = n + b * blocks /\ blocks \in Nat /\ b \in Nat /\ n \in Nat
    BY <1>1, <1>2, <1>5 DEF SettlementSize
  <2> HIDE DEF blocks, b, n
  <2>2. b * blocks \in Nat
    BY <2>1
  <2> QED
    BY <2>1, <2>2
<1> QED
  BY <1>1, <1>2, <1>3, <1>4, <1>5, <1>6

\* What a participant can leave unused is a number.
LEMMA HeadroomType ==
  ASSUME NEW inst, IsBatch(inst), NEW k \in ToSet(inst.parties)
  PROVE  Headroom(inst, k) \in Nat
<1> DEFINE obs == inst.obligations
           some == Receiving(obs, DOMAIN obs, k)
<1>1. /\ obs \in Seq(ToSet(obs)) /\ (\A o \in ToSet(obs) : o.amount \in Nat)
      /\ inst.balance[k] \in Nat
  BY BatchTyped
<1>2. some \in SUBSET (DOMAIN obs)
  BY DEF Receiving
<1> HIDE DEF obs, some
<1>3. ValueOf(obs, some) \in Nat
  BY <1>1, <1>2, ValueType
<1> QED
  BY <1>1, <1>3 DEF Headroom, obs, some

\* The numbers of the encoding are integers.
LEMMA SettlementNumbers ==
  ASSUME NEW inst, IsBatch(inst)
  PROVE  /\ SettlementD(inst) \in Int /\ AllValue(inst) \in Nat
         /\ SettlementWeight(inst).num \in Int /\ SettlementWeight(inst).den \in Int
         /\ \A k \in ToSet(inst.parties) :
              /\ SettlementConst(inst, k) \in Int
              /\ \A v \in 1..SettlementSize(inst) : SettlementForm(inst, k)[v] \in Int
<1> DEFINE obs == inst.obligations
           N == DOMAIN obs
           n == Len(obs)
           D == SettlementD(inst)
<1>1. /\ obs \in Seq(ToSet(obs)) /\ n \in Nat \ {0} /\ N = 1..n /\ IsFiniteSet(N)
      /\ \A o \in ToSet(obs) : o.amount \in Nat
      /\ \A i \in 1..n : obs[i].amount \in Nat
      /\ inst.slackBits \in Nat /\ inst.penalty \in Int
      /\ \A k \in ToSet(inst.parties) : inst.balance[k] \in Nat
      /\ SettlementSize(inst) \in Nat
  BY BatchTyped
<1>2. D \in Int
  BY <1>1 DEF SettlementD
<1>3. AllValue(inst) \in Nat
  <2> DEFINE all == N
  <2>1. all \in SUBSET (DOMAIN obs)
    OBVIOUS
  <2> HIDE DEF obs
  <2>2. ValueOf(obs, all) \in Nat
    BY <1>1, <2>1, ValueType
  <2> QED
    BY <2>2 DEF AllValue, obs
<1>4. SmallestAmount(obs) \in Int
  <2> DEFINE f == [i \in N |-> obs[i].amount]
             values == {obs[i].amount : i \in N}
  <2>1. \A i \in N : f[i] \in Int /\ f[i] = obs[i].amount
    BY <1>1
  <2>2. values = {f[i] : i \in N}
    BY <2>1
  <2>3. Summable(f, N) /\ N # {}
    BY <1>1, <2>1 DEF Summable
  <2> HIDE DEF f, values
  <2>4. Min(values) \in Int
    BY <2>2, <2>3, SmallestOf
  <2> QED
    BY <2>4 DEF SmallestAmount, values
<1>5. SettlementWeight(inst).num \in Int /\ SettlementWeight(inst).den \in Int
  <2> DEFINE s == SmallestAmount(obs)
             T == AllValue(inst)
  <2>1. s \in Int /\ T \in Int /\ inst.penalty \in Int
    BY <1>1, <1>3, <1>4
  <2>2. SettlementWeight(inst) \in {[num |-> inst.penalty, den |-> 1], [num |-> 1000, den |-> 1],
                                   [num |-> 5 * T * T, den |-> 2 * s * s]}
    BY DEF SettlementWeight, LiquidityWeight
  <2> HIDE DEF s, T
  <2>3. 5 * T * T \in Int /\ 2 * s * s \in Int
    BY <2>1
  <2> QED
    BY <2>1, <2>2, <2>3
<1> HIDE DEF D
<1>6. ASSUME NEW k \in ToSet(inst.parties)
      PROVE  /\ SettlementConst(inst, k) \in Int
             /\ \A v \in 1..SettlementSize(inst) : SettlementForm(inst, k)[v] \in Int
  <2>1. SettlementConst(inst, k) \in Int
    <3> DEFINE c == inst.balance[k]
    <3>1. c \in Int /\ SettlementConst(inst, k) = -D * c
      BY <1>1 DEF SettlementConst, D
    <3> HIDE DEF c
    <3> QED
      BY <1>2, <3>1
  <2>2. ASSUME NEW v \in 1..SettlementSize(inst)
        PROVE  SettlementForm(inst, k)[v] \in Int
    <3> DEFINE e == v - BlockOf(inst, k)
               a == obs[v].amount
    <3>1. SettlementForm(inst, k)[v] =
            IF v <= n THEN IF obs[v].payer = k THEN D * a
                           ELSE IF obs[v].payee = k THEN -(D * a) ELSE 0
            ELSE IF k \in ToSet(WithSlack(inst)) /\ e \in 1..inst.slackBits
                 THEN Headroom(inst, k) * 2^(e - 1) ELSE 0
      BY DEF SettlementForm, LiquidityForm, D
    <3> HIDE DEF e
    <3>2. CASE v <= n
      <4>1. a \in Int
        BY <1>1, <3>2
      <4> HIDE DEF a
      <4>2. D * a \in Int
        BY <1>2, <4>1
      <4> QED
        BY <3>1, <3>2, <4>2
    <3>3. CASE ~(v <= n)
      <4>1. CASE e \in 1..inst.slackBits
        <5>1. e - 1 \in Nat
          BY <1>1, <4>1
        <5>2. 2^(e - 1) \in Int
          BY <5>1
        <5>3. Headroom(inst, k) * 2^(e - 1) \in Int
          BY <5>2, HeadroomType
        <5> QED
          BY <3>1, <3>3, <5>3
      <4>2. CASE e \notin 1..inst.slackBits
        BY <3>1, <3>3, <4>2
      <4> QED
        BY <4>1, <4>2
    <3> QED
      BY <3>2, <3>3
  <2> QED
    BY <2>1, <2>2
<1> QED
  BY <1>2, <1>3, <1>5, <1>6 DEF D

\* The squares of all participants at the key p of Q.
PartySquares(inst, p) ==
  [k \in ToSet(inst.parties) |->
    Square(SettlementSize(inst), SettlementForm(inst, k), SettlementConst(inst, k))[p]]

\* What settling the obligation of variable v is worth,
SettlementReward(inst, v) ==
  IF v <= Len(inst.obligations) THEN inst.obligations[v].amount ELSE 0

\* and on the scale of the encoding.
SettlementGain(inst, v) ==
  SettlementWeight(inst).den * SettlementD(inst) * SettlementD(inst) * AllValue(inst)
    * SettlementReward(inst, v)

\* The encoding by these names.
LEMMA SettlementEncodes ==
  ASSUME NEW inst, IsBatch(inst)
  PROVE  LET q == SettlementQubo(inst)
             n == SettlementSize(inst)
             w == SettlementWeight(inst).num
         IN  /\ q.n = n
             /\ IF inst.slackBits = 0
                THEN /\ q.offset = 0
                     /\ q.Q = [p \in Pairs(n) |-> IF p[1] = p[2] THEN -SettlementReward(inst, p[1])
                                                  ELSE 0]
                ELSE /\ q.offset = w * SumFunction([k \in ToSet(inst.parties) |->
                                         (SettlementD(inst) * inst.balance[k])
                                           * (SettlementD(inst) * inst.balance[k])])
                     /\ q.Q = [p \in Pairs(n) |->
                                w * SumFunction(PartySquares(inst, p))
                                  - IF p[1] = p[2] THEN SettlementGain(inst, p[1]) ELSE 0]
BY DEF SettlementQubo, Encoding, PartySquares, SettlementGain, SettlementReward, SettlementWeight,
       SettlementD, SettlementForm, SettlementConst, AllValue

\* The squares of the constants of all parties.
PartyConsts(inst) ==
  [k \in ToSet(inst.parties) |-> (SettlementD(inst) * inst.balance[k])
                                    * (SettlementD(inst) * inst.balance[k])]

\* What the encoding adds up are integers.
LEMMA SettlementSums ==
  ASSUME NEW inst, IsBatch(inst)
  PROVE  LET parties == ToSet(inst.parties)
             n == SettlementSize(inst)
         IN  /\ \A v \in 1..n : SettlementReward(inst, v) \in Int /\ SettlementGain(inst, v) \in Int
             /\ SumFunction(PartyConsts(inst)) \in Int
             /\ Summable(PartyConsts(inst), parties) /\ DOMAIN PartyConsts(inst) = parties
             /\ \A p \in Pairs(n) : /\ Summable(PartySquares(inst, p), parties)
                                    /\ DOMAIN PartySquares(inst, p) = parties
                                    /\ SumFunction(PartySquares(inst, p)) \in Int
<1> DEFINE parties == ToSet(inst.parties)
           n == SettlementSize(inst)
           D == SettlementD(inst)
           W == SettlementWeight(inst).den
           V == AllValue(inst)
<1>1. n \in Nat /\ IsFiniteSet(parties) /\ Len(inst.obligations) \in Nat
      /\ (\A i \in 1..Len(inst.obligations) : inst.obligations[i].amount \in Nat)
      /\ \A k \in parties : inst.balance[k] \in Nat
  BY BatchTyped
<1>2. /\ D \in Int /\ V \in Int /\ W \in Int
      /\ \A k \in parties : SettlementConst(inst, k) \in Int
      /\ \A k \in parties : \A v \in 1..n : SettlementForm(inst, k)[v] \in Int
  BY SettlementNumbers
<1>3. ASSUME NEW v \in 1..n
      PROVE  SettlementReward(inst, v) \in Int /\ SettlementGain(inst, v) \in Int
  <2> DEFINE r == SettlementReward(inst, v)
  <2>1. r \in Int
    BY <1>1 DEF SettlementReward
  <2>2. SettlementGain(inst, v) = W * D * D * V * r
    BY DEF SettlementGain
  <2> HIDE DEF r, W, D, V
  <2>3. W * D * D * V * r \in Int
    BY <1>2, <2>1
  <2> QED
    BY <2>1, <2>2, <2>3 DEF r
<1>4. Summable(PartyConsts(inst), parties) /\ DOMAIN PartyConsts(inst) = parties
  <2>1. ASSUME NEW k \in parties PROVE PartyConsts(inst)[k] \in Int
    <3> DEFINE c == inst.balance[k]
    <3>1. PartyConsts(inst)[k] = (D * c) * (D * c) /\ c \in Int
      BY <1>1 DEF PartyConsts
    <3> HIDE DEF c, D
    <3> QED
      BY <1>2, <3>1
  <2>2. DOMAIN PartyConsts(inst) = parties
    BY DEF PartyConsts
  <2> QED
    BY <1>1, <2>1, <2>2 DEF Summable
<1>5. ASSUME NEW p \in Pairs(n)
      PROVE  Summable(PartySquares(inst, p), parties) /\ DOMAIN PartySquares(inst, p) = parties
  <2>1. ASSUME NEW k \in parties PROVE PartySquares(inst, p)[k] \in Int
    <3> DEFINE c == SettlementForm(inst, k)
               const == SettlementConst(inst, k)
    <3>1. const \in Int /\ \A v \in 1..n : c[v] \in Int
      BY <1>2
    <3>2. PartySquares(inst, p)[k] = Square(n, c, const)[p]
      BY DEF PartySquares
    <3> HIDE DEF c, const, n
    <3>3. Square(n, c, const) \in [Pairs(n) -> Int]
      BY <1>1, <3>1, SquareType
    <3> QED
      BY <3>2, <3>3
  <2>2. DOMAIN PartySquares(inst, p) = parties
    BY DEF PartySquares
  <2> QED
    BY <1>1, <2>1, <2>2 DEF Summable
<1> HIDE DEF parties, n
<1>6. ASSUME NEW f, Summable(f, parties), DOMAIN f = parties
      PROVE  SumFunction(f) \in Int
  <2>1. SumFunction(f) = SumFunctionOnSet(f, parties)
    BY <1>6, SumOfDomain
  <2> QED
    BY <1>6, <2>1, SumType DEF Summable
<1>7. SumFunction(PartyConsts(inst)) \in Int
  BY <1>4, <1>6
<1>8. \A p \in Pairs(n) : SumFunction(PartySquares(inst, p)) \in Int
  BY <1>5, <1>6
<1> QED
  BY <1>3, <1>4, <1>5, <1>7, <1>8 DEF parties, n

\* It has integer coefficients.
LEMMA SettlementIsQubo ==
  ASSUME NEW inst, IsBatch(inst)
  PROVE  IsQubo(SettlementQubo(inst))
<1> DEFINE q == SettlementQubo(inst)
           n == SettlementSize(inst)
           w == SettlementWeight(inst).num
           parties == ToSet(inst.parties)
           c == SumFunction(PartyConsts(inst))
           s(p) == SumFunction(PartySquares(inst, p))
<1>1. /\ q.n = n
      /\ inst.slackBits = 0 =>
           /\ q.offset = 0
           /\ q.Q = [p \in Pairs(n) |-> IF p[1] = p[2] THEN -SettlementReward(inst, p[1]) ELSE 0]
      /\ inst.slackBits # 0 =>
           /\ q.offset = w * c
           /\ q.Q = [p \in Pairs(n) |-> w * s(p) - IF p[1] = p[2] THEN SettlementGain(inst, p[1])
                                                   ELSE 0]
  BY SettlementEncodes DEF PartyConsts
<1>2. n \in Nat /\ w \in Int /\ c \in Int
      /\ (\A v \in 1..n : SettlementReward(inst, v) \in Int /\ SettlementGain(inst, v) \in Int)
      /\ (\A p \in Pairs(n) : s(p) \in Int)
  BY BatchTyped, SettlementNumbers, SettlementSums
<1> HIDE DEF q, n, w, c, s
<1>3. CASE inst.slackBits = 0
  <2>1. \A p \in Pairs(n) : (IF p[1] = p[2] THEN -SettlementReward(inst, p[1]) ELSE 0) \in Int
    BY <1>2, PairsIn
  <2>2. q.Q \in [Pairs(n) -> Int]
    BY <1>1, <1>3, <2>1
  <2> QED
    BY <1>1, <1>2, <1>3, <2>2 DEF IsQubo, q
<1>4. CASE inst.slackBits # 0
  <2>1. ASSUME NEW p \in Pairs(n)
        PROVE  w * s(p) - (IF p[1] = p[2] THEN SettlementGain(inst, p[1]) ELSE 0) \in Int
    <3>1. SettlementGain(inst, p[1]) \in Int
      BY <1>2, PairsIn
    <3>2. s(p) \in Int
      BY <1>2
    <3>3. w * s(p) \in Int
      BY <1>2, <3>2
    <3> QED
      BY <3>1, <3>3
  <2>2. q.Q \in [Pairs(n) -> Int]
    BY <1>1, <1>4, <2>1
  <2>3. q.offset \in Int
    BY <1>1, <1>2, <1>4
  <2> QED
    BY <1>1, <1>2, <2>2, <2>3 DEF IsQubo, q
<1> QED
  BY <1>3, <1>4

\* The obligations that bits b settle.
Settled(inst, b) == {i \in 1..Len(inst.obligations) : b[i] = 1}

\* What the obligations settled contribute to the form of a party: its net outflow.
LEMMA FormsAddOutflow ==
  ASSUME NEW inst, IsBatch(inst), NEW batch \in SUBSET (DOMAIN inst.obligations), NEW k
  PROVE  /\ SumFunctionOnSet(SettlementForm(inst, k), batch) =
              SettlementD(inst) * NetOutflow(inst.obligations, batch, k)
         /\ NetOutflow(inst.obligations, batch, k) \in Int
<1> DEFINE obs == inst.obligations
           n == Len(obs)
           D == SettlementD(inst)
           c == SettlementForm(inst, k)
           paying == Paying(obs, batch, k)
           receiving == Receiving(obs, batch, k)
           amount == [i \in batch |-> obs[i].amount]
           pays == [i \in batch |-> IF i \in paying THEN obs[i].amount ELSE 0]
           gets == [i \in batch |-> IF i \in receiving THEN obs[i].amount ELSE 0]
           owes == [i \in batch |-> (-1) * gets[i]]
           net == [i \in batch |-> pays[i] + owes[i]]
           pamount == [i \in paying |-> obs[i].amount]
           ramount == [i \in receiving |-> obs[i].amount]
<1>1. /\ n \in Nat /\ DOMAIN obs = 1..n /\ D \in Int /\ n <= SettlementSize(inst)
      /\ SettlementSize(inst) \in Nat /\ IsFiniteSet(DOMAIN obs)
      /\ \A i \in 1..n : obs[i].amount \in Nat /\ obs[i] \in ToSet(obs)
  BY BatchTyped, SettlementNumbers
<1>2. \A i \in 1..n : obs[i].payer # obs[i].payee
  BY <1>1 DEF IsBatch, IsObligation
<1>3. IsFiniteSet(batch) /\ batch \subseteq 1..n
  BY <1>1, FS_Subset
<1>4. ASSUME NEW i \in batch
      PROVE  c[i] = IF obs[i].payer = k THEN D * obs[i].amount
                    ELSE IF obs[i].payee = k THEN -(D * obs[i].amount) ELSE 0
  <2> DEFINE m == SettlementSize(inst)
  <2>1. i \in 1..n /\ n \in Nat /\ m \in Nat /\ n <= m
    BY <1>1, <1>3
  <2>2. c = [v \in 1..m |->
              IF v <= n
                THEN IF obs[v].payer = k THEN D * obs[v].amount
                     ELSE IF obs[v].payee = k THEN -(D * obs[v].amount)
                     ELSE 0
              ELSE IF k \in ToSet(WithSlack(inst))
                      /\ v - BlockOf(inst, k) \in 1..inst.slackBits
                THEN Headroom(inst, k) * 2^(v - BlockOf(inst, k) - 1)
              ELSE 0]
    BY DEF SettlementForm, LiquidityForm
  <2> HIDE DEF c, m, n
  <2>3. i \in 1..m /\ i <= n
    BY <2>1
  <2> QED
    BY <2>2, <2>3
<1>5. paying \in SUBSET batch /\ receiving \in SUBSET batch
  BY DEF Paying, Receiving
<1>6. \A i \in batch : (i \in paying <=> obs[i].payer = k) /\ (i \in receiving <=> obs[i].payee = k)
  BY DEF Paying, Receiving
<1>7. IsFiniteSet(paying) /\ IsFiniteSet(receiving)
  BY <1>3, <1>5, FS_Subset
<1> HIDE DEF paying, receiving, n, c, D
<1>8. \A i \in batch : /\ amount[i] = obs[i].amount /\ amount[i] \in Int
                       /\ pays[i] = (IF i \in paying THEN amount[i] ELSE 0)
                       /\ gets[i] = (IF i \in receiving THEN amount[i] ELSE 0)
                       /\ owes[i] = (-1) * gets[i] /\ net[i] = pays[i] + owes[i]
                       /\ pays[i] \in Int /\ gets[i] \in Int /\ owes[i] \in Int
  <2> TAKE i \in batch
  <2>1. obs[i].amount \in Int
    BY <1>1, <1>3
  <2> QED
    BY <2>1
<1>9. \A i \in batch : c[i] = D * net[i] /\ net[i] \in Int
  <2> TAKE i \in batch
  <2> DEFINE a == amount[i]
  <2>1. c[i] = IF i \in paying THEN D * a ELSE IF i \in receiving THEN -(D * a) ELSE 0
    BY <1>4, <1>6, <1>8
  <2>2. ~(i \in paying /\ i \in receiving)
    BY <1>2, <1>3, <1>6
  <2>3. net[i] = (IF i \in paying THEN a ELSE 0) + (-1) * (IF i \in receiving THEN a ELSE 0)
        /\ a \in Int
    BY <1>8
  <2> HIDE DEF a, net, amount, pays, gets, owes
  <2>4. CASE i \in paying
    <3>1. c[i] = D * a /\ net[i] = a + (-1) * 0
      BY <2>1, <2>2, <2>3, <2>4
    <3>2. a + (-1) * 0 = a
      BY <2>3
    <3> QED
      BY <2>3, <3>1, <3>2
  <2>5. CASE i \in receiving
    <3>1. c[i] = -(D * a) /\ net[i] = 0 + (-1) * a
      BY <2>1, <2>2, <2>3, <2>5
    <3>2. 0 + (-1) * a = -a /\ D * (-a) = -(D * a) /\ -a \in Int
      BY <1>1, <2>3
    <3> QED
      BY <3>1, <3>2
  <2>6. CASE i \notin paying /\ i \notin receiving
    <3>1. c[i] = 0 /\ net[i] = 0 + (-1) * 0
      BY <2>1, <2>3, <2>6
    <3>2. 0 + (-1) * 0 = 0 /\ D * 0 = 0
      BY <1>1
    <3> QED
      BY <3>1, <3>2
  <2> QED
    BY <2>4, <2>5, <2>6
<1>10. /\ \A i \in paying : pamount[i] = pays[i] /\ pays[i] \in Int
       /\ \A i \in receiving : ramount[i] = gets[i] /\ gets[i] \in Int
  BY <1>5, <1>8
<1>11. ValueOf(obs, paying) = SumFunctionOnSet(pamount, paying)
       /\ ValueOf(obs, receiving) = SumFunctionOnSet(ramount, receiving)
  BY DEF ValueOf, SumFunction
<1>12. \A i \in batch \ paying : pays[i] = 0
  OBVIOUS
<1>13. \A i \in batch \ receiving : gets[i] = 0
  OBVIOUS
<1> HIDE DEF amount, pays, gets, owes, net, pamount, ramount
<1>14. SumFunctionOnSet(pays, batch) = SumFunctionOnSet(pays, paying)
  BY <1>3, <1>5, <1>7, <1>10, <1>12, SumZeros DEF Summable
<1>15. SumFunctionOnSet(pamount, paying) = SumFunctionOnSet(pays, paying)
  BY <1>7, <1>10, SumAgree DEF Summable
<1>16. SumFunctionOnSet(gets, batch) = SumFunctionOnSet(gets, receiving)
  BY <1>3, <1>5, <1>7, <1>10, <1>13, SumZeros DEF Summable
<1>17. SumFunctionOnSet(ramount, receiving) = SumFunctionOnSet(gets, receiving)
  BY <1>7, <1>10, SumAgree DEF Summable
<1>18. SumFunctionOnSet(owes, batch) = (-1) * SumFunctionOnSet(gets, batch)
  <2> DEFINE one == -1
  <2>1. one \in Int /\ \A i \in batch : owes[i] = one * gets[i]
    BY <1>8
  <2> HIDE DEF one
  <2>2. SumFunctionOnSet(owes, batch) = one * SumFunctionOnSet(gets, batch)
    BY <1>3, <1>8, <2>1, SumScale DEF Summable
  <2> QED
    BY <2>2 DEF one
<1>19. SumFunctionOnSet(net, batch) = SumFunctionOnSet(pays, batch) + SumFunctionOnSet(owes, batch)
  BY <1>3, <1>8, SumPlus DEF Summable
<1>20. SumFunctionOnSet(c, batch) = D * SumFunctionOnSet(net, batch)
  BY <1>1, <1>3, <1>9, SumScale DEF Summable
<1>21. SumFunctionOnSet(pays, batch) \in Int /\ SumFunctionOnSet(gets, batch) \in Int
  BY <1>3, <1>8, SumType
<1>22. NetOutflow(obs, batch, k) = SumFunctionOnSet(pays, batch) - SumFunctionOnSet(gets, batch)
  BY <1>11, <1>14, <1>15, <1>16, <1>17 DEF NetOutflow, paying, receiving
<1>23. SumFunctionOnSet(net, batch) = NetOutflow(obs, batch, k) /\ NetOutflow(obs, batch, k) \in Int
  BY <1>18, <1>19, <1>21, <1>22
<1> QED
  BY <1>20, <1>23 DEF c, D

\* The number of slack variables.
SlackSize(inst) == inst.slackBits * Len(WithSlack(inst))

\* The terms of the slack variables in the form of party k.
SlackTail(inst, k, b) ==
  [j \in 1..SlackSize(inst) |->
    SettlementForm(inst, k)[Len(inst.obligations) + j] * b[Len(inst.obligations) + j]]

\* The block of party k lies within the slack variables.
LEMMA BlockLies ==
  ASSUME NEW inst, IsBatch(inst), NEW k \in ToSet(WithSlack(inst))
  PROVE  LET start == BlockOf(inst, k) - Len(inst.obligations)
         IN  start \in Nat /\ start + inst.slackBits <= SlackSize(inst)
<1> DEFINE s == inst.slackBits
           S == WithSlack(inst)
           l == Len(S)
           n == Len(inst.obligations)
           pos == CHOOSE i \in DOMAIN S : S[i] = k
<1>1. s \in Nat /\ n \in Nat /\ l \in Nat /\ S \in Seq(ToSet(inst.parties))
  BY BatchTyped, BlocksAre DEF IsBatch
<1>2. DOMAIN S = 1..l
  BY <1>1, LenProperties
<1>3. \E i \in DOMAIN S : S[i] = k
  BY DEF ToSet
<1>4. pos \in 1..l
  BY <1>2, <1>3
<1>5. BlockOf(inst, k) = n + s * pos - s /\ SlackSize(inst) = s * l
  BY DEF BlockOf, SlackSize
<1> HIDE DEF s, S, l, n, pos
<1>6. pos - 1 \in Nat /\ pos \in Int /\ l - pos \in Nat
  BY <1>1, <1>4
<1>7. s * (pos - 1) \in Nat /\ s * (pos - 1) = s * pos - s
  BY <1>1, <1>6
<1>8. s * (l - pos) \in Nat /\ s * (l - pos) = s * l - s * pos
  BY <1>1, <1>6
<1>9. s * pos \in Int /\ s * l \in Int
  BY <1>1, <1>6
<1>10. BlockOf(inst, k) - n = s * pos - s
  BY <1>1, <1>5, <1>9
<1>11. s * pos - s + s <= s * l
  BY <1>1, <1>8, <1>9
<1> QED
  BY <1>5, <1>7, <1>10, <1>11 DEF n, s

\* What they come to: the bits of its block, read as a number, times its headroom.
LEMMA FormsAddSlack ==
  ASSUME NEW inst, IsBatch(inst), NEW b \in Bits(SettlementSize(inst)), NEW k \in ToSet(inst.parties)
  PROVE  /\ SumFunctionOnSet(SlackTail(inst, k, b), 1..SlackSize(inst)) =
              SlackUnits(inst, k, b) * Headroom(inst, k)
         /\ SlackUnits(inst, k, b) \in Int
<1> DEFINE n == Len(inst.obligations)
           s == inst.slackBits
           m == SlackSize(inst)
           H == Headroom(inst, k)
           c == SettlementForm(inst, k)
           tail == SlackTail(inst, k, b)
           blocks == ToSet(WithSlack(inst))
           B == BlockOf(inst, k)
           M == 1..m
<1>1. n \in Nat /\ s \in Nat /\ m \in Nat /\ SettlementSize(inst) = n + m /\ IsFiniteSet(M)
  <2>1. n \in Nat /\ s \in Nat /\ SettlementSize(inst) = n + m
    BY BatchTyped DEF SettlementSize, SlackSize
  <2> DEFINE l == Len(WithSlack(inst))
  <2>2. l \in Nat /\ m = s * l
    BY BatchTyped DEF SlackSize
  <2> HIDE DEF l, m, s
  <2>3. m \in Nat
    BY <2>1, <2>2
  <2> QED
    BY <2>1, <2>3, PairsFinite
<1>2. H \in Int
  BY HeadroomType
<1>3. \A v \in 1..n + m : b[v] \in Int
  <2>1. n + m \in Nat
    BY <1>1
  <2> QED
    BY <1>1, <2>1, BitsAre
<1>4. ASSUME NEW j \in M
      PROVE  /\ n + j \in 1..n + m /\ tail[j] = c[n + j] * b[n + j]
             /\ \A e : e = (n + j) - B =>
                  c[n + j] = IF k \in blocks /\ e \in 1..s THEN H * 2^(e - 1) ELSE 0
  <2> DEFINE v == n + j
  <2>1. v \in 1..n + m /\ ~(v <= n)
    BY <1>1
  <2>2. ASSUME NEW e, e = v - B
        PROVE  c[v] = IF k \in blocks /\ e \in 1..s THEN H * 2^(e - 1) ELSE 0
    <3>1. c[v] = IF v <= n THEN IF inst.obligations[v].payer = k
                                THEN SettlementD(inst) * inst.obligations[v].amount
                                ELSE IF inst.obligations[v].payee = k
                                     THEN -(SettlementD(inst) * inst.obligations[v].amount) ELSE 0
                 ELSE IF k \in blocks /\ e \in 1..s THEN H * 2^(e - 1) ELSE 0
      BY <1>1, <2>1, <2>2 DEF SettlementForm, LiquidityForm
    <3> HIDE DEF v, c
    <3> QED
      BY <2>1, <3>1
  <2>3. tail[j] = c[n + j] * b[n + j]
    BY DEF SlackTail
  <2> HIDE DEF c, tail, B, H, m
  <2>4. ASSUME NEW e, e = (n + j) - B
        PROVE  c[n + j] = IF k \in blocks /\ e \in 1..s THEN H * 2^(e - 1) ELSE 0
    <3>1. e = v - B
      BY <2>4
    <3> QED
      BY <2>2, <3>1, Zenon
  <2>5. n + j \in 1..n + m
    BY <2>1
  <2> HIDE DEF n, s
  <2> QED
    BY <2>3, <2>4, <2>5, Zenon
<1> HIDE DEF c, tail, H, B, m, n, s
<1>5. CASE k \notin blocks
  <2> DEFINE none == {}
             zero == 0
  <2>1. SlackUnits(inst, k, b) = 0
    BY <1>5 DEF SlackUnits
  <2>2. \A j \in M : tail[j] = 0
    <3> TAKE j \in M
    <3>1. tail[j] = 0 * b[n + j] /\ b[n + j] \in Int
      BY <1>3, <1>4, <1>5
    <3> QED
      BY <3>1
  <2>3. IsConstantOn(tail, M, none, zero)
    BY <1>1, <2>2 DEF IsConstantOn
  <2> HIDE DEF none, M, zero
  <2>4. SumFunctionOnSet(tail, M) = zero * Cardinality(none) /\ Cardinality(none) \in Nat
    BY <2>3, SumCounts
  <2>5. SumFunctionOnSet(tail, M) = 0
    BY <2>4 DEF zero
  <2>6. 0 * H = 0
    BY <1>2
  <2> QED
    BY <2>1, <2>5, <2>6 DEF M, m, tail, H
<1>6. CASE k \in blocks
  <2> DEFINE start == B - n
             I == 1..s
             shift == [i \in I |-> start + i]
             block == {shift[i] : i \in I}
             unit == [i \in I |-> b[B + i] * 2^(i - 1)]
             term == [i \in I |-> H * unit[i]]
  <2>1. start \in Nat /\ start + s <= m
    BY <1>6, BlockLies DEF B, n, s, m
  <2>2. B = n + start
    <3>1. B \in Int
      <4>1. BlockOf(inst, k) = n + s * (CHOOSE i \in DOMAIN WithSlack(inst) : WithSlack(inst)[i] = k) - s
        BY DEF BlockOf, n, s
      <4> DEFINE S == WithSlack(inst)
                 pos == CHOOSE i \in DOMAIN S : S[i] = k
      <4>2. S \in Seq(ToSet(inst.parties))
        BY BlocksAre DEF IsBatch
      <4>3. DOMAIN S = 1..Len(S) /\ Len(S) \in Nat
        BY <4>2, LenProperties
      <4>4. \E i \in DOMAIN S : S[i] = k
        BY <1>6 DEF ToSet
      <4>5. pos \in DOMAIN S
        BY <4>4
      <4>6. pos \in Int
        BY <4>3, <4>5
      <4>7. B = n + s * pos - s
        BY <4>1 DEF B
      <4> HIDE DEF pos
      <4> QED
        BY <1>1, <4>6, <4>7
    <3> QED
      BY <1>1, <3>1
  <2>3. SlackUnits(inst, k, b) = SumFunctionOnSet(unit, I)
    BY <1>6 DEF SlackUnits, SumFunction, B, s
  <2> HIDE DEF start
  <2>4. \A i \in I : /\ shift[i] = start + i /\ shift[i] \in M
                     /\ n + shift[i] = B + i /\ (n + shift[i]) - B = i
    BY <1>1, <2>1, <2>2
  <2>5. ASSUME NEW i \in I
        PROVE  unit[i] \in Int /\ tail[shift[i]] = term[i] /\ term[i] \in Int /\ term[i] = H * unit[i]
    <3> DEFINE e == 2^(i - 1)
               x == b[B + i]
    <3>1. i - 1 \in Nat
      BY <1>1
    <3>2. e \in Int
      BY <3>1
    <3>3. x \in Int
      BY <1>3, <1>4, <2>4
    <3>4. tail[shift[i]] = (H * e) * x
      <4>1. tail[shift[i]] = c[n + shift[i]] * b[n + shift[i]]
        BY <1>4, <2>4
      <4>2. \A l : l = (n + shift[i]) - B =>
              c[n + shift[i]] = IF k \in blocks /\ l \in 1..s THEN H * 2^(l - 1) ELSE 0
        BY <1>4, <2>4
      <4>3. n + shift[i] = B + i /\ (n + shift[i]) - B = i
        BY <2>4
      <4>4. c[n + shift[i]] = H * 2^(i - 1)
        BY <1>6, <4>2, <4>3
      <4> QED
        BY <4>1, <4>3, <4>4
    <3>5. unit[i] = x * e /\ term[i] = H * unit[i]
      OBVIOUS
    <3> HIDE DEF e, x, unit, term, shift
    <3> QED
      BY <1>2, <3>2, <3>3, <3>4, <3>5
  <2>6. ASSUME NEW j \in M \ block
        PROVE  tail[j] = 0
    <3>1. (n + j) - B \notin 1..s
      <4>1. SUFFICES ASSUME (n + j) - B \in 1..s PROVE FALSE
        OBVIOUS
      <4> DEFINE i == (n + j) - B
      <4>2. i \in I
        BY <4>1
      <4>3. j = start + i
        BY <1>1, <2>1, <2>2
      <4>4. shift[i] = j
        BY <4>2, <4>3
      <4> QED
        BY <4>2, <4>4
    <3>2. tail[j] = 0 * b[n + j] /\ b[n + j] \in Int
      BY <1>3, <1>4, <3>1
    <3> QED
      BY <3>2
  <2>7. block \in SUBSET M
    BY <2>4
  <2>8. \A i, j \in I : shift[i] = shift[j] => i = j
    BY <2>1
  <2>9. IsFiniteSet(I)
    BY <1>1, PairsFinite
  <2>10. /\ \A i \in I : tail[shift[i]] \in Int
         /\ \A i \in I : term[i] = tail[shift[i]]
    BY <2>5
  <2>11. \A j \in block : tail[j] \in Int
    BY <2>10
  <2> HIDE DEF I, M, shift, block, unit, term
  <2>12. IsFiniteSet(block)
    BY <1>1, <2>7, FS_Subset DEF M
  <2>13. SumFunctionOnSet(tail, M) = SumFunctionOnSet(tail, block)
    BY <1>1, <2>6, <2>7, <2>11, <2>12, SumZeros DEF Summable
  <2>14. SumFunctionOnSet(tail, block) = SumFunctionOnSet(term, I)
    BY <2>8, <2>9, <2>10, SumRenamed DEF block
  <2>15. SumFunctionOnSet(term, I) = H * SumFunctionOnSet(unit, I)
    BY <1>2, <2>5, <2>9, SumScale DEF Summable
  <2>16. SumFunctionOnSet(unit, I) \in Int
    BY <2>5, <2>9, SumType
  <2>17. H * SumFunctionOnSet(unit, I) = SumFunctionOnSet(unit, I) * H
    BY <1>2, <2>16
  <2>18. SumFunctionOnSet(tail, M) = SlackUnits(inst, k, b) * H /\ SlackUnits(inst, k, b) \in Int
    BY <2>3, <2>13, <2>14, <2>15, <2>16, <2>17
  <2> QED
    BY <2>18 DEF M, m, tail, H
<1> QED
  BY <1>5, <1>6

\* The forms of all participants,
SettlementForms(inst) == [k \in ToSet(inst.parties) |-> SettlementForm(inst, k)]

\* their constants,
SettlementConsts(inst) == [k \in ToSet(inst.parties) |-> SettlementConst(inst, k)]

\* what they miss their balances by,
SettlementMisses(inst, b) == [k \in ToSet(inst.parties) |-> Miss(inst, k, b)]

\* and their squares by keys.
PartySquareTable(inst) == [p \in Pairs(SettlementSize(inst)) |-> PartySquares(inst, p)]

\* The coefficients of single variables, without slack bits
Rewards(inst) == [v \in 1..SettlementSize(inst) |-> -SettlementReward(inst, v)]

\* and with slack bits.
Gains(inst) == [v \in 1..SettlementSize(inst) |-> -SettlementGain(inst, v)]

\* The variables of the obligations and those of the slack.
LEMMA SettlementParts ==
  ASSUME NEW inst, IsBatch(inst), NEW b \in Bits(SettlementSize(inst))
  PROVE  LET n == Len(inst.obligations)
         IN  /\ n \in Nat /\ SlackSize(inst) \in Nat /\ SettlementSize(inst) = n + SlackSize(inst)
             /\ Settled(inst, b) = {i \in DOMAIN inst.obligations : b[i] = 1}
             /\ Settled(inst, b) = {i \in 1..n : b[i] = 1}
             /\ Settled(inst, b) \in SUBSET (DOMAIN inst.obligations)
<1> DEFINE n == Len(inst.obligations)
           l == Len(WithSlack(inst))
           s == inst.slackBits
<1>1. n \in Nat /\ l \in Nat /\ s \in Nat /\ DOMAIN inst.obligations = 1..n
      /\ SettlementSize(inst) = n + SlackSize(inst) /\ SlackSize(inst) = s * l
  BY BatchTyped DEF SettlementSize, SlackSize
<1>2. /\ Settled(inst, b) = {i \in DOMAIN inst.obligations : b[i] = 1}
      /\ Settled(inst, b) = {i \in 1..n : b[i] = 1}
      /\ Settled(inst, b) \in SUBSET (DOMAIN inst.obligations)
  BY <1>1 DEF Settled
<1> HIDE DEF l, s
<1>3. SlackSize(inst) \in Nat
  BY <1>1
<1> QED
  BY <1>1, <1>2, <1>3

\* A reward in every variable of an obligation comes to the value settled.
LEMMA ValueSettled ==
  ASSUME NEW inst, NEW d, NEW g, IsBatch(inst), g \in Int, NEW b \in Bits(SettlementSize(inst)),
         \A v \in 1..SettlementSize(inst) : d[v] = -(g * SettlementReward(inst, v))
  PROVE  /\ \A v \in 1..SettlementSize(inst) : d[v] \in Int
         /\ Linear(SettlementSize(inst), d, b) = -(g * ValueOf(inst.obligations, Settled(inst, b)))
         /\ ValueOf(inst.obligations, Settled(inst, b)) \in Int
<1> DEFINE obs == inst.obligations
           n == Len(obs)
           m == SlackSize(inst)
           batch == Settled(inst, b)
           amount == [i \in batch |-> obs[i].amount]
           tail == [j \in 1..m |-> d[n + j] * b[n + j]]
           none == {}
           zero == 0
           ng == -g
<1>1. /\ n \in Nat /\ m \in Nat /\ SettlementSize(inst) = n + m
      /\ batch = {i \in 1..n : b[i] = 1}
  BY SettlementParts
<1>2. \A i \in 1..n : obs[i].amount \in Nat
  BY BatchTyped
<1>3. \A v \in 1..n + m : SettlementReward(inst, v) \in Int
  BY <1>1, SettlementSums
<1>4. \A v \in 1..n + m : /\ d[v] = -(g * SettlementReward(inst, v))
                          /\ SettlementReward(inst, v) = IF v <= n THEN obs[v].amount ELSE 0
  BY <1>1 DEF SettlementReward
<1> HIDE DEF n, m
<1>5. \A v \in 1..n + m : d[v] \in Int
  <2> TAKE v \in 1..n + m
  <2> DEFINE r == SettlementReward(inst, v)
  <2>1. r \in Int /\ d[v] = -(g * r)
    BY <1>3, <1>4
  <2> HIDE DEF r
  <2> QED
    BY <2>1
<1>6. b \in Bits(n + m)
  BY <1>1
<1>7. \A i \in batch : amount[i] = obs[i].amount /\ amount[i] \in Int
  BY <1>1, <1>2
<1>8. ng \in Int /\ \A i \in batch : d[i] = ng * amount[i]
  <2>1. ng \in Int
    OBVIOUS
  <2>2. ASSUME NEW i \in batch PROVE d[i] = ng * amount[i]
    <3> DEFINE a == amount[i]
    <3>1. i \in 1..n + m /\ i <= n
      BY <1>1
    <3>2. d[i] = -(g * a) /\ a \in Int
      BY <1>4, <1>7, <3>1
    <3> HIDE DEF a
    <3>3. -(g * a) = (-g) * a
      BY <3>2
    <3> QED
      BY <3>2, <3>3 DEF a
  <2> QED
    BY <2>1, <2>2
<1>9. \A j \in 1..m : tail[j] = 0
  <2> TAKE j \in 1..m
  <2>1. n + j \in 1..n + m /\ ~(n + j <= n)
    BY <1>1
  <2>2. d[n + j] = -(g * 0) /\ b[n + j] \in Int
    <3>1. n + m \in Nat
      BY <1>1
    <3> QED
      BY <1>4, <1>6, <2>1, <3>1, BitsAre
  <2>3. tail[j] = d[n + j] * b[n + j]
    OBVIOUS
  <2>4. -(g * 0) = 0
    OBVIOUS
  <2>5. \A x \in Int : 0 * x = 0
    OBVIOUS
  <2> HIDE DEF tail
  <2> QED
    BY <2>2, <2>3, <2>4, <2>5
<1>10. Splits(d, b, batch, tail, n, m)
  BY <1>1, <1>5, <1>6 DEF Splits
<1>11. ValueOf(obs, batch) = SumFunctionOnSet(amount, batch)
  BY DEF ValueOf, SumFunction
<1> HIDE DEF batch, amount, tail, ng
<1>12. Linear(n + m, d, b) = SumFunctionOnSet(d, batch) + SumFunctionOnSet(tail, 1..m)
       /\ IsFiniteSet(batch)
  BY <1>10, LinearSplits DEF Summable
<1>13. SumFunctionOnSet(tail, 1..m) = 0
  <2> DEFINE M == 1..m
  <2>1. IsConstantOn(tail, M, none, zero)
    BY <1>1, <1>9, PairsFinite DEF IsConstantOn
  <2> HIDE DEF none, zero, M
  <2>2. SumFunctionOnSet(tail, M) = zero * Cardinality(none) /\ Cardinality(none) \in Nat
    BY <2>1, SumCounts
  <2>3. SumFunctionOnSet(tail, M) = 0
    BY <2>2 DEF zero
  <2> QED
    BY <2>3 DEF M
<1>14. SumFunctionOnSet(d, batch) = ng * SumFunctionOnSet(amount, batch)
  BY <1>7, <1>8, <1>12, SumScale DEF Summable
<1>15. SumFunctionOnSet(amount, batch) \in Int
  BY <1>7, <1>12, SumType
<1>16. Linear(n + m, d, b) = -(g * ValueOf(obs, batch))
  <2> DEFINE z == SumFunctionOnSet(amount, batch)
  <2>1. Linear(n + m, d, b) = (-g) * z + 0 /\ z \in Int
    BY <1>12, <1>13, <1>14, <1>15 DEF ng
  <2> HIDE DEF z
  <2>2. (-g) * z + 0 = -(g * z)
    BY <2>1
  <2> QED
    BY <1>11, <2>1, <2>2 DEF z
<1> QED
  BY <1>1, <1>5, <1>11, <1>15, <1>16 DEF batch

\* The form of a party and its constant come to what it misses its balance by.
LEMMA FormsMiss ==
  ASSUME NEW inst, IsBatch(inst), NEW b \in Bits(SettlementSize(inst)), NEW k \in ToSet(inst.parties)
  PROVE  /\ Miss(inst, k, b) = Linear(SettlementSize(inst), SettlementForm(inst, k), b)
                                 + SettlementConst(inst, k)
         /\ Miss(inst, k, b) \in Int
<1> DEFINE obs == inst.obligations
           n == Len(obs)
           m == SlackSize(inst)
           c == SettlementForm(inst, k)
           batch == Settled(inst, b)
           tail == SlackTail(inst, k, b)
           D == SettlementD(inst)
           net == NetOutflow(obs, batch, k)
           B == inst.balance[k]
           u == SlackUnits(inst, k, b)
           H == Headroom(inst, k)
<1>1. /\ n \in Nat /\ m \in Nat /\ SettlementSize(inst) = n + m
      /\ batch = {i \in 1..n : b[i] = 1} /\ batch = {i \in DOMAIN obs : b[i] = 1}
      /\ batch \in SUBSET (DOMAIN obs)
  BY SettlementParts
<1>2. D \in Int /\ (\A v \in 1..n + m : c[v] \in Int) /\ B \in Int
  BY <1>1, SettlementNumbers, BatchTyped
<1>3. SumFunctionOnSet(c, batch) = D * net /\ net \in Int
  BY <1>1, FormsAddOutflow
<1>4. SumFunctionOnSet(tail, 1..m) = u * H /\ u \in Int /\ H \in Int
  BY FormsAddSlack, HeadroomType
<1>5. SettlementConst(inst, k) = -(D * B)
  BY DEF SettlementConst
<1>6. Miss(inst, k, b) = D * (net - B) + u * H
  BY <1>1 DEF Miss, SettlementD
<1>7. \A j \in 1..m : tail[j] = c[n + j] * b[n + j]
  BY DEF SlackTail
<1> HIDE DEF n, m, c, batch, tail, D, net, B, u, H
<1>8. Splits(c, b, batch, tail, n, m)
  BY <1>1, <1>2, <1>7 DEF Splits
<1>9. Linear(n + m, c, b) = SumFunctionOnSet(c, batch) + SumFunctionOnSet(tail, 1..m)
  BY <1>8, LinearSplits
<1>10. Linear(n + m, c, b) + SettlementConst(inst, k) = D * net + u * H + (-(D * B))
  BY <1>3, <1>4, <1>5, <1>9
<1>11. D * net + u * H + (-(D * B)) = D * (net - B) + u * H /\ D * (net - B) + u * H \in Int
  BY <1>2, <1>3, <1>4
<1> QED
  BY <1>1, <1>6, <1>10, <1>11 DEF c

\* For every bit string the energy of the encoding of a batch is the weighted squares of what
\* the participants miss their balances by, less the value settled.
LEMMA SettlementExact ==
  ASSUME NEW inst, IsBatch(inst), NEW b \in Bits(SettlementQubo(inst).n)
  PROVE  Energy(SettlementQubo(inst), b) = SettlementEnergy(inst, b)
<1> DEFINE q == SettlementQubo(inst)
           n == SettlementSize(inst)
           obs == inst.obligations
           K == ToSet(inst.parties)
           w == SettlementWeight(inst).num
           W == SettlementWeight(inst).den
           D == SettlementD(inst)
           V == AllValue(inst)
           batch == Settled(inst, b)
           value == ValueOf(obs, batch)
           sums(p) == SumFunction(PartySquares(inst, p))
<1>1. q.n = n
  BY SettlementEncodes
<1>2. b \in Bits(n) /\ n \in Nat /\ IsQubo(q) /\ IsFiniteSet(K)
  BY <1>1, SettlementIsQubo, BatchTyped
<1>3. batch = {i \in DOMAIN obs : b[i] = 1}
  BY <1>2, SettlementParts
<1>4. w \in Int /\ W \in Int /\ D \in Int /\ V \in Int
  BY SettlementNumbers
<1>5. CASE inst.slackBits = 0
  <2> DEFINE d == Rewards(inst)
             c == [v \in 1..n |-> 0]
             const == 0
             z == 0
             g == 1
             square == Square(n, c, const)
  <2>1. /\ q.offset = 0
        /\ q.Q = [p \in Pairs(n) |-> IF p[1] = p[2] THEN -SettlementReward(inst, p[1]) ELSE 0]
    BY <1>5, SettlementEncodes
  <2>2. SettlementEnergy(inst, b) = -value
    BY <1>3, <1>5 DEF SettlementEnergy
  <2>3. \A v \in 1..n : SettlementReward(inst, v) \in Int
    BY SettlementSums
  <2>4. ASSUME NEW v \in 1..n
        PROVE  d[v] = -(1 * SettlementReward(inst, v))
    <3> DEFINE r == SettlementReward(inst, v)
    <3>1. d[v] = -r
      BY DEF Rewards
    <3>2. r \in Int
      BY <2>3
    <3> HIDE DEF r, d
    <3>3. d[v] = -(1 * r)
      BY <3>1, <3>2
    <3> QED
      BY <3>3 DEF r
  <2>5. const \in Int /\ z \in Int /\ \A v \in 1..n : c[v] \in Int
    OBVIOUS
  <2>6. \A p \in Pairs(n) : square[p] \in Int
    BY <1>2, <2>5, SquareType
  <2>7. \A p \in Pairs(n) : d[p[1]] = -SettlementReward(inst, p[1])
    BY PairsIn DEF Rewards
  <2> HIDE DEF q, n, d, c, g, square
  <2>8. /\ \A v \in 1..n : d[v] \in Int
        /\ Linear(n, d, b) = -(g * value) /\ value \in Int
    <3>1. g \in Int /\ \A v \in 1..n : d[v] = -(g * SettlementReward(inst, v))
      BY <2>4 DEF g
    <3> QED
      BY <1>2, <3>1, ValueSettled DEF n
  <2>9. ASSUME NEW p \in Pairs(n)
        PROVE  q.Q[p] = z * square[p] + IF p[1] = p[2] THEN d[p[1]] ELSE 0
    <3>1. q.Q[p] = IF p[1] = p[2] THEN d[p[1]] ELSE 0
      BY <2>1, <2>7
    <3>2. d[p[1]] \in Int /\ square[p] \in Int
      BY <2>6, <2>8, PairsIn
    <3> QED
      BY <3>1, <3>2
  <2> HIDE DEF const, z
  <2>10. square = Square(n, c, const)
    BY DEF square
  <2>11. IsOneSquare(q, b, c, const, z, d, square)
    BY <1>1, <1>2, <2>5, <2>8, <2>9, <2>10 DEF IsOneSquare
  <2>12. Energy(q, b) = q.offset - z * (const * const)
                          + z * ((Linear(n, c, b) + const) * (Linear(n, c, b) + const))
                          + Linear(n, d, b)
    BY <1>1, <2>11, EnergyOfSquare
  <2> DEFINE k == 0
             ones == {v \in 1..n : b[v] = 1}
  <2>13. Linear(n, c, b) \in Int
    <3>1. ones = {v \in 1..n : b[v] = 1}
      OBVIOUS
    <3> HIDE DEF ones
    <3>2. Linear(n, c, b) = SumFunctionOnSet(c, ones) /\ Summable(c, ones)
      BY <1>2, <2>5, <3>1, LinearOfSlots
    <3> QED
      BY <3>2, SumType DEF Summable
  <2> DEFINE l == (Linear(n, c, b) + const) * (Linear(n, c, b) + const)
             cc == const * const
  <2>14. l \in Int /\ cc \in Int
    BY <2>5, <2>13
  <2>15. Energy(q, b) = 0 - z * cc + z * l + (-(g * value))
    BY <2>1, <2>8, <2>12
  <2> HIDE DEF l, cc, value
  <2>16. Energy(q, b) = -value
    BY <2>8, <2>14, <2>15 DEF z, g
  <2> QED
    BY <2>2, <2>16 DEF q, value
<1>6. CASE inst.slackBits # 0
  <2> DEFINE d == Gains(inst)
             g == W * D * D * V
             c == SettlementForms(inst)
             const == SettlementConsts(inst)
             squares == PartySquareTable(inst)
             misses == SettlementMisses(inst, b)
             constSqs == [x \in K |-> const[x] * const[x]]
             missSqs == [x \in K |-> misses[x] * misses[x]]
             balances == PartyConsts(inst)
  <2>1. /\ q.offset = w * SumFunction(balances)
        /\ q.Q = [p \in Pairs(n) |-> w * sums(p) - IF p[1] = p[2] THEN SettlementGain(inst, p[1])
                                                   ELSE 0]
    BY <1>6, SettlementEncodes DEF PartyConsts
  <2>2. SettlementEnergy(inst, b) =
          w * SumFunction([k \in K |-> Miss(inst, k, b) * Miss(inst, k, b)]) - g * value
    BY <1>3, <1>6 DEF SettlementEnergy, SettlementD, SettlementWeight, AllValue
  <2>3. g \in Int
    <3> HIDE DEF W, D, V
    <3> QED
      BY <1>4
  <2>4. ASSUME NEW v \in 1..n
        PROVE  d[v] = -(g * SettlementReward(inst, v)) /\ SettlementGain(inst, v) \in Int
               /\ d[v] = -SettlementGain(inst, v)
    <3>1. SettlementGain(inst, v) = g * SettlementReward(inst, v)
      BY DEF SettlementGain
    <3>2. d[v] = -SettlementGain(inst, v)
      BY DEF Gains
    <3>3. SettlementGain(inst, v) \in Int
      BY SettlementSums
    <3> QED
      BY <3>1, <3>2, <3>3
  <2>5. \A x \in K : /\ c[x] = SettlementForm(inst, x) /\ const[x] = SettlementConst(inst, x)
                     /\ misses[x] = Miss(inst, x, b)
    BY DEF SettlementForms, SettlementConsts, SettlementMisses
  <2>6. \A x \in K : const[x] \in Int /\ \A v \in 1..n : c[x][v] \in Int
    BY <2>5, SettlementNumbers
  <2>7. \A x \in K : misses[x] = Linear(n, c[x], b) + const[x] /\ misses[x] \in Int
    BY <1>2, <2>5, FormsMiss
  <2>8. \A p \in Pairs(n) : \A x \in K : squares[p][x] = Square(n, c[x], const[x])[p]
    BY <2>5 DEF PartySquareTable, PartySquares
  <2>9. ASSUME NEW p \in Pairs(n)
        PROVE  q.Q[p] = w * SumFunctionOnSet(squares[p], K) + IF p[1] = p[2] THEN d[p[1]] ELSE 0
    <3>1. squares[p] = PartySquares(inst, p)
      BY DEF PartySquareTable
    <3>2. sums(p) = SumFunctionOnSet(squares[p], K) /\ sums(p) \in Int
      BY <3>1, SettlementSums, SumOfDomain
    <3>3. d[p[1]] = -SettlementGain(inst, p[1]) /\ SettlementGain(inst, p[1]) \in Int
      BY <2>4, PairsIn
    <3> DEFINE r == SettlementGain(inst, p[1])
               s == sums(p)
    <3>4. q.Q[p] = w * s - IF p[1] = p[2] THEN r ELSE 0
      BY <2>1
    <3> HIDE DEF q, w, r, s, sums, squares, K, d
    <3>5. r \in Int /\ s \in Int /\ w \in Int /\ d[p[1]] = -r
      BY <1>4, <3>2, <3>3 DEF r, s, w
    <3>6. w * s \in Int
      BY <3>5
    <3>7. q.Q[p] = w * s + IF p[1] = p[2] THEN d[p[1]] ELSE 0
      <4> DEFINE y == w * s
      <4>1. q.Q[p] = y - (IF p[1] = p[2] THEN r ELSE 0) /\ y \in Int
        BY <3>4, <3>6
      <4> HIDE DEF y
      <4>2. q.Q[p] = y + IF p[1] = p[2] THEN d[p[1]] ELSE 0
        BY <3>5, <4>1
      <4> QED
        BY <4>2 DEF y
    <3> QED
      BY <3>2, <3>7 DEF s
  <2>10. \A x \in K : /\ constSqs[x] = const[x] * const[x] /\ missSqs[x] = misses[x] * misses[x]
                      /\ missSqs[x] \in Int /\ constSqs[x] \in Int
    BY <2>6, <2>7
  <2>11. \A x \in K : balances[x] = constSqs[x]
    <3> TAKE x \in K
    <3> DEFINE y == inst.balance[x]
    <3>1. const[x] = -(D * y)
      BY <2>5 DEF SettlementConst
    <3>2. balances[x] = (D * y) * (D * y)
      BY DEF PartyConsts
    <3>3. y \in Int
      BY BatchTyped
    <3>4. constSqs[x] = const[x] * const[x]
      BY <2>10
    <3> HIDE DEF y, D, const, constSqs, balances
    <3>5. (-(D * y)) * (-(D * y)) = (D * y) * (D * y)
      BY <1>4, <3>3
    <3> QED
      BY <3>1, <3>2, <3>4, <3>5
  <2>12. SumFunction(balances) = SumFunctionOnSet(balances, K)
    BY SettlementSums, SumOfDomain
  <2>13. SumFunction([k \in K |-> Miss(inst, k, b) * Miss(inst, k, b)]) = SumFunctionOnSet(missSqs, K)
    <3>1. missSqs = [k \in K |-> Miss(inst, k, b) * Miss(inst, k, b)]
      BY <2>5
    <3>2. SumFunction(missSqs) = SumFunctionOnSet(missSqs, K)
      BY DEF SumFunction
    <3> QED
      BY <3>1, <3>2
  <2>14. /\ \A v \in 1..n : d[v] \in Int
         /\ Linear(n, d, b) = -(g * value) /\ value \in Int
    <3>1. \A v \in 1..n : d[v] = -(g * SettlementReward(inst, v))
      BY <2>4
    <3> HIDE DEF d, g
    <3> QED
      BY <1>2, <2>3, <3>1, ValueSettled
  <2> HIDE DEF q, n, K, c, const, d, g, w, squares, misses, constSqs, missSqs, balances, value
  <2>15. IsSumOfSquares(q, b, K, c, const, w, d, squares, misses, constSqs, missSqs)
    BY <1>1, <1>2, <1>4, <2>6, <2>7, <2>8, <2>9, <2>10, <2>14 DEF IsSumOfSquares, w
  <2>16. Energy(q, b) = q.offset - w * SumFunctionOnSet(constSqs, K)
                          + w * SumFunctionOnSet(missSqs, K) + Linear(n, d, b)
    BY <1>1, <2>15, EnergyOfSquares
  <2>17. SumFunctionOnSet(balances, K) = SumFunctionOnSet(constSqs, K)
    BY <1>2, <2>10, <2>11, SumAgree DEF Summable
  <2> DEFINE x == SumFunctionOnSet(constSqs, K)
             y == SumFunctionOnSet(missSqs, K)
  <2>18. x \in Int /\ y \in Int
    BY <1>2, <2>10, SumType
  <2>19. Energy(q, b) = w * x - w * x + w * y + (-(g * value))
    BY <2>1, <2>12, <2>14, <2>16, <2>17
  <2>20. SettlementEnergy(inst, b) = w * y - g * value
    BY <2>2, <2>13
  <2> HIDE DEF x, y
  <2>21. w * x - w * x + w * y + (-(g * value)) = w * y - g * value
    <3>1. w \in Int /\ x \in Int /\ y \in Int /\ g \in Int /\ value \in Int
      BY <1>4, <2>3, <2>14, <2>18 DEF w
    <3> QED
      BY <3>1
  <2> QED
    BY <2>19, <2>20, <2>21 DEF q
<1> QED
  BY <1>5, <1>6

\* On a batch solve_settlement_milp admits what check_settlement_constraints accepts: a
\* participant that no obligation touches has no row, and pays nothing.
LEMMA SettlementChecksRows ==
  ASSUME NEW inst, IsBatch(inst), NEW batch \in SUBSET (DOMAIN inst.obligations)
  PROVE  SettlementRows(inst, batch) <=> SettlementCheck(inst, batch)
<1> DEFINE obs == inst.obligations
           P == ToSet(inst.parties)
           out(k) == NetOutflow(obs, batch, k)
           over(k) == out(k) - inst.balance[k]
           f == [k \in P |-> over(k)]
           worst == CHOOSE k \in P : \A l \in P : over(k) >= over(l)
           touched(k) == Paying(obs, DOMAIN obs, k) \cup Receiving(obs, DOMAIN obs, k) # {}
<1>1. obs # <<>> /\ inst.parties # <<>> /\ P # {} /\ IsFiniteSet(P)
  <2>1. inst.parties # <<>> /\ inst.parties \in Seq(P) /\ obs # <<>>
    BY DEF IsBatch
  <2>2. 1 \in DOMAIN inst.parties
    BY <2>1, EmptySeq
  <2> QED
    BY <2>1, <2>2, BatchTyped DEF ToSet
<1>2. \A k \in P : out(k) \in Int /\ inst.balance[k] \in Nat
  BY FormsAddOutflow, BatchTyped
<1>3. \A k \in P : over(k) \in Int
  BY <1>2
<1>4. worst \in P /\ \A l \in P : over(worst) >= over(l)
  <2>1. Summable(f, P)
    BY <1>1, <1>3 DEF Summable
  <2>2. \E k \in P : \A l \in P : f[k] >= f[l]
    <3> HIDE DEF f, P
    <3> QED
      BY <1>1, <2>1, LeastAndGreatest
  <2>3. \E k \in P : \A l \in P : over(k) >= over(l)
    BY <2>2
  <2> HIDE DEF over, P
  <2> QED
    BY <2>3
<1>5. ASSUME NEW k \in P, ~touched(k)
      PROVE  out(k) <= inst.balance[k]
  <2>1. Paying(obs, batch, k) = {} /\ Receiving(obs, batch, k) = {}
    BY <1>5 DEF Paying, Receiving
  <2>2. ValueOf(obs, {}) = 0
    <3>1. DOMAIN [i \in {} |-> obs[i].amount] = {}
      OBVIOUS
    <3>2. SumFunction([i \in {} |-> obs[i].amount]) = SumFunctionOnSet([i \in {} |-> obs[i].amount], {})
      BY DEF SumFunction
    <3> QED
      BY <3>2, SumType DEF ValueOf
  <2>3. out(k) = 0
    BY <2>1, <2>2 DEF NetOutflow
  <2> QED
    BY <1>2, <2>3
<1>6. SettlementRows(inst, batch) <=>
        /\ \A k \in P : touched(k) => out(k) <= inst.balance[k]
        /\ AboveFloor(inst, batch)
  BY <1>1 DEF SettlementRows
<1>7. SettlementCheck(inst, batch) <=> over(worst) <= 0 /\ AboveFloor(inst, batch)
  BY <1>1 DEF SettlementCheck
<1>8. (over(worst) <= 0) <=> \A k \in P : over(k) <= 0
  <2> HIDE DEF over, worst
  <2> QED
    BY <1>3, <1>4
<1>9. (\A k \in P : over(k) <= 0) <=> \A k \in P : out(k) <= inst.balance[k]
  <2> HIDE DEF out
  <2> QED
    BY <1>2
<1> QED
  BY <1>5, <1>6, <1>7, <1>8, <1>9

-----------------------------------------------------------------------------
(* The routing domain: the reduction and the encoding                      *)

\* The order of routes by rate is a weak one, so that sorting keeps all routes.
LEMMA ByRate ==
  ASSUME NEW T, NEW s \in Seq(T), \A x \in T : x.rate \in Nat /\ x.approval \in Nat
  PROVE  Permutes(StableSort(s, CheaperRoute), s)
<1> DEFINE n == Len(s)
           B == {c \in (1..n) \X (1..n) : CheaperRoute(s[c[1]], s[c[2]])}
           a == [i \in 1..n |-> s[i].rate]
           e == [i \in 1..n |-> s[i].approval]
<1>1. n \in Nat /\ DOMAIN s = 1..n /\ \A i \in 1..n : s[i].rate \in Nat /\ s[i].approval \in Nat
  BY ElementOfSeq
<1>2. IsWeakOrder(B, 1..n)
  <2>1. /\ \A i, j \in 1..n : <<i, j>> \in B <=> a[i] < a[j] \/ (a[i] = a[j] /\ e[i] > e[j])
        /\ \A i \in 1..n : a[i] \in Nat /\ e[i] \in Nat
    BY <1>1 DEF CheaperRoute
  <2> HIDE DEF a, e, B
  <2>2. ASSUME NEW i \in 1..n, NEW j \in 1..n
        PROVE  ~(<<i, j>> \in B /\ <<j, i>> \in B)
    <3>1. a[i] \in Nat /\ a[j] \in Nat /\ e[i] \in Nat /\ e[j] \in Nat
      BY <2>1
    <3>2. ~(/\ a[i] < a[j] \/ (a[i] = a[j] /\ e[i] > e[j])
            /\ a[j] < a[i] \/ (a[j] = a[i] /\ e[j] > e[i]))
      BY <3>1
    <3> QED
      BY <2>1, <3>2
  <2>3. ASSUME NEW i \in 1..n, NEW j \in 1..n, NEW k \in 1..n, <<i, j>> \notin B, <<j, k>> \notin B
        PROVE  <<i, k>> \notin B
    <3>1. /\ a[i] \in Nat /\ a[j] \in Nat /\ a[k] \in Nat
          /\ e[i] \in Nat /\ e[j] \in Nat /\ e[k] \in Nat
          /\ ~(a[i] < a[j] \/ (a[i] = a[j] /\ e[i] > e[j]))
          /\ ~(a[j] < a[k] \/ (a[j] = a[k] /\ e[j] > e[k]))
      BY <2>1, <2>3
    <3>2. ~(a[i] < a[k] \/ (a[i] = a[k] /\ e[i] > e[k]))
      BY <3>1
    <3> QED
      BY <2>1, <3>2
  <2> QED
    BY <2>2, <2>3 DEF IsWeakOrder
<1>3. StableSort(s, CheaperRoute) = SortedBy(s, B)
  <2> DEFINE precedes(i, j) == \/ CheaperRoute(s[i], s[j])
                               \/ ~CheaperRoute(s[j], s[i]) /\ i < j
             rank(i) == Cardinality({j \in DOMAIN s : precedes(j, i)})
  <2>1. \A i \in 1..n : {j \in DOMAIN s : precedes(j, i)} = Preceding(B, 1..n, i)
    BY <1>1 DEF Preceding
  <2>2. \A k \in 1..n : (CHOOSE i \in 1..n : Cardinality(Preceding(B, 1..n, i)) = k - 1) =
                        (CHOOSE i \in DOMAIN s : rank(i) = k - 1)
    BY <1>1, <2>1
  <2>3. StableSort(s, CheaperRoute) =
          [k \in DOMAIN s |-> s[CHOOSE i \in DOMAIN s : rank(i) = k - 1]]
    BY DEF StableSort
  <2> HIDE DEF rank, B
  <2> QED
    BY <1>1, <2>2, <2>3 DEF SortedBy
<1> QED
  BY <1>2, <1>3, SortingPermutes

\* A route as the specification has it.
IsRoute(r) ==
  r.rate \in Nat /\ r.fraud \in Nat /\ r.fee \in Nat /\ r.capacity \in Nat /\ r.approval \in 1..10

\* What reduce_to_routing_instance yields.
IsNet(inst) ==
  /\ inst.transactions \in Seq(ToSet(inst.transactions))
  /\ inst.routes \in Seq(ToSet(inst.routes)) /\ inst.routes # <<>>
  /\ \A r \in ToSet(inst.routes) : IsRoute(r)
  /\ \A t \in ToSet(inst.transactions) : t.amount \in Nat
  /\ inst.share \in 0..10 /\ inst.floor \in 0..10 /\ inst.decline \in Nat
  /\ inst.degenerate = (inst.transactions = <<>>)

\* The reduction of a specification to a net that fits the budget, unless a single
\* transaction is left; every transaction of it may use one of its routes.
LEMMA RoutingReduces ==
  ASSUME NEW p, IsRoutingSpec(p)
  PROVE  LET inst == RoutingInstance(p)
         IN  /\ IsNet(inst)
             /\ \/ Len(inst.transactions) * Len(inst.routes) <= p.maxQubits
                \/ Len(inst.transactions) = 1
             /\ \A t \in ToSet(inst.transactions) : \E r \in DOMAIN inst.routes :
                  Eligible(t, inst.routes[r])
<1> DEFINE R == ToSet(p.routes)
           T == ToSet(p.transactions)
           maxQ == p.maxQubits
           sorted == StableSort(p.routes, CheaperRoute)
           m == Min({Len(p.routes), ROUTES_PER_INSTANCE})
           routes == SubSeq(sorted, 1, m)
           kept == {t \in DOMAIN p.transactions :
                      \E r \in DOMAIN routes : Eligible(p.transactions[t], routes[r])}
           routable == Kept(p.transactions, kept)
           budget == Max({1, maxQ \div Len(routes)})
           ordered == StableSort(routable, LargerPayment)
           l == Min({Len(routable), budget})
           chosen == SubSeq(ordered, 1, l)
           one == SubSeq(p.routes, 1, 1)
           inst == RoutingInstance(p)
<1>1. /\ p.routes \in Seq(R) /\ p.routes # <<>> /\ p.transactions \in Seq(T)
      /\ \A r \in R : IsRoute(r)
      /\ \A t \in T : t.amount \in Nat
      /\ p.share \in 0..10 /\ p.floor \in 0..10 /\ p.decline \in Nat
  BY DEF IsRoutingSpec, IsRoute, ToSet
<1>2. maxQ \in Nat /\ maxQ > 0
  BY DEF IsRoutingSpec
<1>3. /\ inst.transactions = chosen
      /\ inst.routes = IF p.transactions = <<>> THEN one ELSE routes
      /\ inst.share = p.share /\ inst.floor = p.floor /\ inst.decline = p.decline
      /\ inst.degenerate = (chosen = <<>>)
  BY DEF RoutingInstance, Routable
<1> HIDE DEF R, T, maxQ, inst
<1>4. Len(p.routes) \in Nat /\ Len(p.routes) >= 1
  BY <1>1, EmptySeq, LenProperties
<1>5. one \in Seq(ToSet(one)) /\ ToSet(one) \subseteq R /\ one # <<>>
  <2>1. 1 \in 0..Len(p.routes)
    BY <1>4
  <2> QED
    BY <1>1, <2>1, PrefixIs
<1> HIDE DEF one
<1>6. Permutes(sorted, p.routes)
  <2>1. ASSUME NEW r \in R
        PROVE  r.rate \in Nat /\ r.approval \in Nat
    <3>1. r.rate \in Nat /\ r.approval \in 1..10
      BY <1>1 DEF IsRoute
    <3> QED
      BY <3>1
  <2> QED
    BY <1>1, <2>1, ByRate
<1>7. sorted \in Seq(R) /\ Len(sorted) = Len(p.routes)
  BY <1>6 DEF Permutes, R
<1> HIDE DEF sorted
<1>8. m \in 1..Len(p.routes)
  <2>1. ROUTES_PER_INSTANCE = 3
    BY DEF ROUTES_PER_INSTANCE
  <2>2. Min({Len(p.routes), 3}) = IF Len(p.routes) <= 3 THEN Len(p.routes) ELSE 3
    BY <1>4, SmallerAndLarger
  <2> DEFINE n == Len(p.routes)
  <2>3. n \in Nat /\ n >= 1 /\ m = IF n <= 3 THEN n ELSE 3
    BY <1>4, <2>1, <2>2
  <2> HIDE DEF n, m
  <2>4. m \in 1..n
    BY <2>3
  <2> QED
    BY <2>4 DEF n
<1> HIDE DEF m
<1>9. routes \in Seq(ToSet(routes)) /\ Len(routes) = m /\ ToSet(routes) \subseteq R /\ routes # <<>>
  <2>1. m \in 0..Len(sorted) /\ m > 0
    BY <1>4, <1>7, <1>8
  <2> QED
    BY <1>7, <2>1, PrefixIs
<1> HIDE DEF routes
<1>10. KeepsOnly(routable, p.transactions, kept)
  <2>1. kept \in SUBSET (DOMAIN p.transactions)
    OBVIOUS
  <2> HIDE DEF kept
  <2> QED
    BY <1>1, <2>1, KeptIs
<1>11. routable \in Seq(T) /\ Len(routable) \in Nat
  BY <1>10, LenProperties DEF KeepsOnly, T
<1> HIDE DEF routable
<1>12. \A x \in ToSet(routable) : \E r \in DOMAIN routes : Eligible(x, routes[r])
  <2>1. \A i \in kept : \E r \in DOMAIN routes : Eligible(p.transactions[i], routes[r])
    OBVIOUS
  <2> HIDE DEF kept
  <2>2. \A k \in 1..Len(routable) : \E i \in kept : routable[k] = p.transactions[i]
    BY <1>10 DEF KeepsOnly
  <2>3. \A x \in ToSet(routable) : \E k \in 1..Len(routable) : x = routable[k]
    BY <1>11, LenProperties DEF ToSet
  <2> QED
    BY <2>1, <2>2, <2>3
<1>13. Permutes(ordered, routable)
  BY <1>1, <1>11, ByAmount
<1>14. ordered \in Seq(T) /\ Len(ordered) = Len(routable)
  <2>1. ordered \in Seq(ToSet(routable)) /\ Len(ordered) = Len(routable)
    BY <1>13 DEF Permutes
  <2>2. ToSet(routable) \subseteq T
    BY <1>11, ElementOfSeq, LenProperties DEF ToSet
  <2> HIDE DEF ordered
  <2> QED
    BY <2>1, <2>2, SeqMonotonic
<1> HIDE DEF ordered
<1>15. m \in Nat /\ m >= 1
  BY <1>4, <1>8
<1>16. maxQ \div m \in Nat /\ (maxQ \div m) * m <= maxQ
  BY <1>2, <1>15, Divided
<1> DEFINE share == maxQ \div m
<1> HIDE DEF share
<1>17. /\ share \in Nat /\ share * m <= maxQ /\ budget = Max({1, share})
       /\ budget = IF 1 >= share THEN 1 ELSE share
  <2>1. share \in Nat /\ share * m <= maxQ /\ budget = Max({1, share})
    BY <1>9, <1>16 DEF share
  <2>2. share \in Int /\ 1 \in Int
    BY <2>1
  <2>3. Max({1, share}) = IF 1 >= share THEN 1 ELSE share
    BY <2>2, SmallerAndLarger
  <2> QED
    BY <2>1, <2>3
<1> HIDE DEF budget
<1>18. budget \in Nat /\ budget >= 1 /\ (budget = 1 \/ budget = share)
  BY <1>17
<1>19. l \in Nat /\ l <= Len(routable) /\ l <= budget
  <2> DEFINE n == Len(routable)
  <2>1. n \in Int /\ n \in Nat /\ budget \in Int
    BY <1>11, <1>18
  <2> HIDE DEF n
  <2>2. Min({n, budget}) = IF n <= budget THEN n ELSE budget
    BY <2>1, SmallerAndLarger
  <2>3. Min({n, budget}) \in Nat /\ Min({n, budget}) <= n /\ Min({n, budget}) <= budget
    BY <1>18, <2>1, <2>2
  <2> QED
    BY <2>3 DEF n
<1> HIDE DEF l
<1>20. chosen \in Seq(ToSet(chosen)) /\ Len(chosen) = l /\ ToSet(chosen) \subseteq T
  <2>1. l \in 0..Len(ordered)
    BY <1>11, <1>14, <1>19
  <2> QED
    BY <1>14, <2>1, PrefixIs
<1>21. ToSet(chosen) \subseteq ToSet(routable)
  <2>1. l \in 0..Len(ordered)
    BY <1>11, <1>14, <1>19
  <2>2. ordered \in Seq(ToSet(routable))
    BY <1>13 DEF Permutes
  <2> QED
    BY <2>1, <2>2, PrefixIs
<1> HIDE DEF chosen
<1>22. IsNet(inst)
  <2>1. inst.routes \in Seq(ToSet(inst.routes)) /\ ToSet(inst.routes) \subseteq R /\ inst.routes # <<>>
    BY <1>3, <1>5, <1>9
  <2> QED
    BY <1>1, <1>3, <1>20, <2>1 DEF IsNet
<1>23. \/ Len(inst.transactions) * Len(inst.routes) <= maxQ
       \/ Len(inst.transactions) = 1
  <2>1. CASE p.transactions = <<>>
    <3>1. DOMAIN p.transactions = {}
      BY <2>1
    <3>2. T = {}
      BY <3>1 DEF T, ToSet
    <3>3. ordered = <<>> /\ Len(ordered) = 0
      BY <1>14, <3>2, EmptySeq, ElementOfSeq
    <3>4. l = 0
      BY <1>14, <1>19, <3>3
    <3>5. Len(inst.transactions) = 0 /\ Len(inst.routes) \in Nat
      <4>1. inst.routes \in Seq(ToSet(inst.routes))
        BY <1>22 DEF IsNet
      <4> QED
        BY <1>3, <1>20, <3>4, <4>1, LenProperties
    <3> QED
      BY <1>2, <3>5
  <2>2. CASE p.transactions # <<>>
    <3>1. Len(inst.transactions) = l /\ Len(inst.routes) = m
      BY <1>3, <1>9, <1>20, <2>2
    <3>2. CASE l <= share
      <4>1. l * m <= share * m /\ l * m \in Nat /\ share * m \in Nat
        BY <1>15, <1>17, <1>19, <3>2, Larger
      <4>2. l * m <= maxQ
        BY <1>2, <1>17, <4>1
      <4> QED
        BY <3>1, <4>2
    <3>3. CASE ~(l <= share)
      <4>1. l = 1
        BY <1>17, <1>18, <1>19, <3>3
      <4> QED
        BY <3>1, <4>1
    <3> QED
      BY <3>2, <3>3
  <2> QED
    BY <2>1, <2>2
<1>24. ASSUME NEW t \in ToSet(inst.transactions)
       PROVE  \E r \in DOMAIN inst.routes : Eligible(t, inst.routes[r])
  <2>1. t \in ToSet(routable) /\ t \in T
    BY <1>3, <1>20, <1>21
  <2>2. p.transactions # <<>>
    BY <2>1 DEF T, ToSet
  <2>3. inst.routes = routes
    BY <1>3, <2>2
  <2> QED
    BY <1>12, <2>1, <2>3
<1> QED
  BY <1>22, <1>23, <1>24 DEF inst, maxQ

\* The slot of a variable is one, no other variable has it, and every slot is
\* the slot of a variable.
LEMMA SlotsAre ==
  ASSUME NEW inst, IsNet(inst)
  PROVE  LET T == Len(inst.transactions)
             R == Len(inst.routes)
         IN  /\ T \in Nat /\ R \in Nat \ {0}
             /\ DOMAIN inst.transactions = 1..T /\ DOMAIN inst.routes = 1..R
             /\ IsFiniteSet(Slots(inst)) /\ Cardinality(Slots(inst)) = T * R
             /\ \A v \in 1..T * R : SlotOf(inst, v) \in Slots(inst)
             /\ \A v, u \in 1..T * R : SlotOf(inst, v) = SlotOf(inst, u) => v = u
             /\ \A s \in Slots(inst) : \E v \in 1..T * R : SlotOf(inst, v) = s
<1> DEFINE T == Len(inst.transactions)
           R == Len(inst.routes)
           at == [v \in 1..T * R |-> SlotOf(inst, v)]
<1>1. /\ T \in Nat /\ R \in Nat /\ R # 0
      /\ DOMAIN inst.transactions = 1..T /\ DOMAIN inst.routes = 1..R
  BY EmptySeq, LenProperties DEF IsNet
<1>2. \A v \in 1..T * R : SlotOf(inst, v) = <<((v - 1) \div R) + 1, ((v - 1) % R) + 1>>
  BY DEF SlotOf
<1>3. Slots(inst) = (1..T) \X (1..R)
  BY <1>1 DEF Slots
<1> HIDE DEF T, R
<1>4. IsFiniteSet(1..T) /\ Cardinality(1..T) = T
  <2>1. 1 \in Int /\ T \in Int
    BY <1>1
  <2>2. IsFiniteSet(1..T) /\ Cardinality(1..T) = IF 1 > T THEN 0 ELSE T - 1 + 1
    BY <2>1, FS_Interval
  <2> QED
    BY <1>1, <2>2
<1>5. IsFiniteSet(1..R) /\ Cardinality(1..R) = R
  <2>1. 1 \in Int /\ R \in Int
    BY <1>1
  <2>2. IsFiniteSet(1..R) /\ Cardinality(1..R) = IF 1 > R THEN 0 ELSE R - 1 + 1
    BY <2>1, FS_Interval
  <2> QED
    BY <1>1, <2>2
<1>6. IsFiniteSet(Slots(inst)) /\ Cardinality(Slots(inst)) = T * R
  <2>1. IsFiniteSet((1..T) \X (1..R)) /\ Cardinality((1..T) \X (1..R)) = Cardinality(1..T) * Cardinality(1..R)
    BY <1>4, <1>5, FS_Product
  <2> QED
    BY <1>3, <1>4, <1>5, <2>1
<1>7. T * R \in Nat /\ IsFiniteSet(1..T * R) /\ Cardinality(1..T * R) = T * R
  <2> DEFINE n == T * R
  <2>1. 1 \in Int /\ n \in Int /\ n \in Nat
    BY <1>1
  <2> HIDE DEF n
  <2>2. IsFiniteSet(1..n) /\ Cardinality(1..n) = IF 1 > n THEN 0 ELSE n - 1 + 1
    BY <2>1, FS_Interval
  <2>3. Cardinality(1..n) = n
    BY <2>1, <2>2
  <2> QED
    BY <2>1, <2>2, <2>3 DEF n
<1>8. \A v \in 1..T * R : /\ (v - 1) \div R \in 0..T - 1 /\ (v - 1) % R \in 0..R - 1
                          /\ v - 1 = R * ((v - 1) \div R) + ((v - 1) % R)
  BY <1>1, RowAndColumn
<1>9. ASSUME NEW v \in 1..T * R
      PROVE  SlotOf(inst, v) \in Slots(inst)
  <2> DEFINE a == (v - 1) \div R
             c == (v - 1) % R
  <2>1. a \in 0..T - 1 /\ c \in 0..R - 1 /\ SlotOf(inst, v) = <<a + 1, c + 1>>
    BY <1>2, <1>8
  <2> HIDE DEF a, c
  <2>2. a + 1 \in 1..T /\ c + 1 \in 1..R
    BY <1>1, <2>1
  <2> QED
    BY <1>3, <2>1, <2>2
<1>10. ASSUME NEW v \in 1..T * R, NEW u \in 1..T * R, SlotOf(inst, v) = SlotOf(inst, u)
       PROVE  v = u
  <2> DEFINE a == (v - 1) \div R
             c == (v - 1) % R
             b == (u - 1) \div R
             d == (u - 1) % R
  <2>1. /\ a \in 0..T - 1 /\ c \in 0..R - 1 /\ v - 1 = R * a + c
        /\ b \in 0..T - 1 /\ d \in 0..R - 1 /\ u - 1 = R * b + d
    BY <1>8
  <2>2. <<a + 1, c + 1>> = <<b + 1, d + 1>>
    BY <1>2, <1>10
  <2> HIDE DEF a, b, c, d
  <2>3. a + 1 = b + 1 /\ c + 1 = d + 1
    BY <2>2
  <2>4. a = b /\ c = d
    BY <1>1, <2>1, <2>3
  <2>5. v \in Int /\ u \in Int /\ v - 1 = u - 1
    BY <1>7, <2>1, <2>4
  <2> QED
    BY <2>5
<1>11. at \in Injection(1..T * R, Slots(inst))
  <2>1. at \in [1..T * R -> Slots(inst)]
    BY <1>9
  <2>2. \A v, u \in 1..T * R : at[v] = at[u] => v = u
    BY <1>10
  <2> QED
    BY <2>1, <2>2 DEF Injection, IsInjective
<1>12. at \in Surjection(1..T * R, Slots(inst))
  BY <1>6, <1>7, <1>11, FS_Injection
<1>13. \A s \in Slots(inst) : \E v \in 1..T * R : SlotOf(inst, v) = s
  BY <1>12 DEF Surjection
<1> QED
  BY <1>1, <1>6, <1>9, <1>10, <1>13 DEF T, R

\* The costs of the slots, and what the encoding is weighted by.
LEMMA RoutingNumbers ==
  ASSUME NEW inst, IsNet(inst)
  PROVE  /\ \A s \in Slots(inst) : RouteCost(inst, s[1], s[2]) \in Int
         /\ RoutingScale(inst) \in Int /\ RoutingScale(inst) >= 1
<1> DEFINE S == Slots(inst)
           f == [s \in S |-> RouteCost(inst, s[1], s[2])]
<1>1. ASSUME NEW s \in S
      PROVE  RouteCost(inst, s[1], s[2]) \in Int
  <2> DEFINE tx == inst.transactions[s[1]]
             route == inst.routes[s[2]]
  <2>1. s[1] \in DOMAIN inst.transactions /\ s[2] \in DOMAIN inst.routes
    BY DEF Slots
  <2>2. tx \in ToSet(inst.transactions) /\ route \in ToSet(inst.routes)
    BY <2>1 DEF ToSet
  <2>3. tx.amount \in Nat /\ IsRoute(route) /\ inst.decline \in Nat
    BY <2>2 DEF IsNet
  <2>4. RouteCost(inst, s[1], s[2]) = 10 * ((route.rate + route.fraud) * tx.amount + route.fee)
                                        + (10 - route.approval) * inst.decline * tx.amount
    BY DEF RouteCost
  <2> HIDE DEF tx, route
  <2>5. route.rate \in Int /\ route.fraud \in Int /\ route.fee \in Int /\ route.approval \in Int
    BY <2>3 DEF IsRoute
  <2>6. \A a, b, c, d, e, g \in Int : 10 * ((a + b) * c + d) + (10 - e) * g * c \in Int
    OBVIOUS
  <2> QED
    BY <2>3, <2>4, <2>5, <2>6
<1>2. IsFiniteSet(S)
  BY SlotsAre
<1> HIDE DEF S
<1>3. SumFunctionOnSet(f, S) \in Int
  BY <1>1, <1>2, SumType
<1>4. RoutingCost(inst, S) = SumFunction(f)
  BY DEF RoutingCost
<1>5. RoutingCost(inst, S) \in Int
  BY <1>3, <1>4, SumOfDomain
<1> DEFINE c == RoutingCost(inst, S)
<1>6. RoutingScale(inst) = Max({1, c}) /\ c \in Int /\ 1 \in Int
  BY <1>5 DEF RoutingScale, S
<1> HIDE DEF c
<1>7. Max({1, c}) = IF 1 >= c THEN 1 ELSE c
  BY <1>6, SmallerAndLarger
<1> QED
  BY <1>1, <1>6, <1>7 DEF S

\* The coefficient of a slot's own variable.
RoutingDiagonal(inst, s) ==
  RouteCost(inst, s[1], s[2]) - RoutingScale(inst) * RoutingWeight
    + IF EligibleSlot(inst, s) THEN 0 ELSE 5 * RoutingScale(inst) * RoutingWeight

\* The encoding, by the keys of Q.
LEMMA RoutingEncodes ==
  ASSUME NEW inst, IsNet(inst)
  PROVE  LET q == RoutingQubo(inst)
             n == Len(inst.transactions) * Len(inst.routes)
             w == RoutingScale(inst) * RoutingWeight
         IN  IF inst.degenerate THEN q = NoEncoding /\ n = 0
             ELSE /\ q.n = n
                  /\ q.offset = w * Len(inst.transactions)
                  /\ q.Q = [p \in Pairs(n) |->
                             IF p[1] = p[2] THEN RoutingDiagonal(inst, SlotOf(inst, p[1]))
                             ELSE IF SlotOf(inst, p[1])[1] = SlotOf(inst, p[2])[1] THEN 2 * w ELSE 0]
<1> DEFINE q == RoutingQubo(inst)
           T == Len(inst.transactions)
           R == Len(inst.routes)
           n == T * R
           C == RoutingScale(inst)
           at(v) == SlotOf(inst, v)
           Q == [p \in Pairs(n) |->
                  IF at(p[1]) = at(p[2]) THEN RoutingDiagonal(inst, at(p[1]))
                  ELSE IF at(p[1])[1] = at(p[2])[1] THEN 2 * C * RoutingWeight ELSE 0]
<1>1. /\ T \in Nat /\ R \in Nat \ {0} /\ Cardinality(Slots(inst)) = n
      /\ \A v, u \in 1..n : at(v) = at(u) => v = u
      /\ inst.degenerate = (inst.transactions = <<>>)
  BY SlotsAre DEF IsNet
<1>2. inst.transactions = <<>> <=> T = 0
  BY EmptySeq DEF IsNet
<1>3. n = 0 <=> T = 0
  <2> HIDE DEF T, R
  <2>1. \A x \in Nat, y \in Nat \ {0} : x # 0 => y * x >= 1
    OBVIOUS
  <2>2. T # 0 => R * T >= 1
    BY <1>1, <2>1
  <2>3. R * T = n
    BY <1>1
  <2> QED
    BY <1>1, <2>2, <2>3
<1>4. q = IF n = 0 THEN NoEncoding ELSE Encoding(n, Q, C * RoutingWeight * T, n)
  BY <1>1 DEF RoutingQubo, RoutingDiagonal
<1> HIDE DEF q, T, R, n, C
<1>5. \A p \in Pairs(n) : at(p[1]) = at(p[2]) <=> p[1] = p[2]
  BY <1>1, PairsIn
<1>6. Q = [p \in Pairs(n) |->
             IF p[1] = p[2] THEN RoutingDiagonal(inst, at(p[1]))
             ELSE IF at(p[1])[1] = at(p[2])[1] THEN 2 * (C * RoutingWeight) ELSE 0]
  <2>1. 2 * C * RoutingWeight = 2 * (C * RoutingWeight)
    <3>1. C \in Int /\ RoutingWeight \in Int
      BY RoutingNumbers DEF C, RoutingWeight
    <3> QED
      BY <3>1
  <2> QED
    BY <1>5, <2>1
<1> HIDE DEF Q
<1>7. n # 0 => q.n = n /\ q.Q = Q /\ q.offset = C * RoutingWeight * T
  BY <1>4 DEF Encoding
<1>8. CASE inst.degenerate
  <2>1. n = 0 /\ q = NoEncoding
    BY <1>1, <1>2, <1>3, <1>4, <1>8
  <2> QED
    BY <1>8, <2>1 DEF q, n, T, R
<1>9. CASE ~inst.degenerate
  <2>1. n # 0
    BY <1>1, <1>2, <1>3, <1>9
  <2> QED
    BY <1>6, <1>7, <1>9, <2>1 DEF q, n, T, R, C
<1> QED
  BY <1>8, <1>9

\* It is an integer.
LEMMA DiagonalType ==
  ASSUME NEW inst, IsNet(inst), NEW s \in Slots(inst)
  PROVE  RoutingDiagonal(inst, s) \in Int
<1> DEFINE x == RouteCost(inst, s[1], s[2])
           C == RoutingScale(inst)
<1>1. x \in Int /\ C \in Int /\ RoutingWeight \in Int
  BY RoutingNumbers DEF RoutingWeight
<1>2. RoutingDiagonal(inst, s) = x - C * RoutingWeight
                                   + IF EligibleSlot(inst, s) THEN 0 ELSE 5 * C * RoutingWeight
  BY DEF RoutingDiagonal
<1> HIDE DEF x, C
<1> QED
  BY <1>1, <1>2

\* The encoding has integer coefficients.
LEMMA RoutingIsQubo ==
  ASSUME NEW inst, IsNet(inst)
  PROVE  IsQubo(RoutingQubo(inst))
<1> DEFINE q == RoutingQubo(inst)
           T == Len(inst.transactions)
           R == Len(inst.routes)
           n == T * R
           w == RoutingScale(inst) * RoutingWeight
           at(v) == SlotOf(inst, v)
<1>1. CASE inst.degenerate
  BY <1>1, RoutingEncodes, NoneIsQubo
<1>2. CASE ~inst.degenerate
  <2>1. /\ q.n = n /\ q.offset = w * T
        /\ q.Q = [p \in Pairs(n) |->
                   IF p[1] = p[2] THEN RoutingDiagonal(inst, at(p[1]))
                   ELSE IF at(p[1])[1] = at(p[2])[1] THEN 2 * w ELSE 0]
    BY <1>2, RoutingEncodes
  <2>2. T \in Nat /\ R \in Nat /\ \A v \in 1..n : at(v) \in Slots(inst)
    BY SlotsAre
  <2>3. w \in Int
    BY RoutingNumbers DEF RoutingWeight
  <2> HIDE DEF q, T, R, w
  <2>4. n \in Nat /\ w * T \in Int /\ 2 * w \in Int
    BY <2>2, <2>3
  <2> HIDE DEF n
  <2>5. ASSUME NEW p \in Pairs(n)
        PROVE  (IF p[1] = p[2] THEN RoutingDiagonal(inst, at(p[1]))
                ELSE IF at(p[1])[1] = at(p[2])[1] THEN 2 * w ELSE 0) \in Int
    <3>1. RoutingDiagonal(inst, at(p[1])) \in Int
      BY <2>2, PairsIn, DiagonalType
    <3> QED
      BY <2>4, <3>1
  <2>6. q.Q \in [Pairs(n) -> Int]
    BY <2>1, <2>5
  <2> QED
    BY <2>1, <2>4, <2>6 DEF IsQubo, q
<1> QED
  BY <1>1, <1>2

\* The number of variables of the encoding of a net.
RoutingSize(inst) == Len(inst.transactions) * Len(inst.routes)

\* It is one.
LEMMA SizeType ==
  ASSUME NEW inst, IsNet(inst)
  PROVE  RoutingSize(inst) \in Nat
<1> DEFINE T == Len(inst.transactions)
           R == Len(inst.routes)
<1>1. T \in Nat /\ R \in Nat /\ RoutingSize(inst) = T * R
  BY SlotsAre DEF RoutingSize
<1> HIDE DEF T, R
<1> QED
  BY <1>1

\* The linear form of transaction t: how many routes it is sent over.
RouteForm(inst, t) ==
  [v \in 1..RoutingSize(inst) |-> IF SlotOf(inst, v)[1] = t THEN 1 ELSE 0]

\* The one-hot squares of all transactions at the key p of Q.
RouteSquares(inst, p) ==
  [t \in DOMAIN inst.transactions |-> Square(RoutingSize(inst), RouteForm(inst, t), -1)[p]]

\* What the slot of a variable costs, and the penalty of one that is not eligible.
SlotPrice(inst, s) ==
  RouteCost(inst, s[1], s[2])
    + IF EligibleSlot(inst, s) THEN 0 ELSE 5 * RoutingScale(inst) * RoutingWeight

\* The one-hot squares of all transactions, by the keys of Q.
LEMMA RouteSquaresSum ==
  ASSUME NEW inst, IsNet(inst), NEW p \in Pairs(RoutingSize(inst))
  PROVE  SumFunctionOnSet(RouteSquares(inst, p), DOMAIN inst.transactions) =
           IF p[1] = p[2] THEN -1
           ELSE IF SlotOf(inst, p[1])[1] = SlotOf(inst, p[2])[1] THEN 2 ELSE 0
<1> DEFINE n == RoutingSize(inst)
           K == DOMAIN inst.transactions
           x == SlotOf(inst, p[1])[1]
           y == SlotOf(inst, p[2])[1]
           f == RouteSquares(inst, p)
           u(t) == IF x = t THEN 1 ELSE 0
           v(t) == IF y = t THEN 1 ELSE 0
<1>1. p[1] \in 1..n /\ p[2] \in 1..n
  BY PairsIn
<1>2. IsFiniteSet(K) /\ x \in K /\ y \in K
  <2>1. K = 1..Len(inst.transactions) /\ Len(inst.transactions) \in Nat
    BY SlotsAre
  <2>2. SlotOf(inst, p[1]) \in Slots(inst) /\ SlotOf(inst, p[2]) \in Slots(inst)
    BY <1>1, SlotsAre DEF RoutingSize
  <2>3. x \in K /\ y \in K
    BY <2>2 DEF Slots
  <2> QED
    BY <2>1, <2>3, PairsFinite
<1>3. \A t \in K : f[t] = IF p[1] = p[2] THEN u(t) * u(t) + 2 * (-1) * u(t) ELSE 2 * u(t) * v(t)
  <2> TAKE t \in K
  <2>1. RouteForm(inst, t)[p[1]] = u(t) /\ RouteForm(inst, t)[p[2]] = v(t)
    BY <1>1 DEF RouteForm
  <2>2. f[t] = Square(n, RouteForm(inst, t), -1)[p]
    BY DEF RouteSquares
  <2> HIDE DEF n, u, v
  <2>3. p \in Pairs(n)
    BY DEF n
  <2> QED
    BY <2>1, <2>2, <2>3 DEF Square
<1>4. \A t \in K : f[t] \in Int
                   /\ f[t] = IF t = x /\ p[1] = p[2] THEN -1
                             ELSE IF t = x /\ x = y THEN 2 ELSE 0
  <2> TAKE t \in K
  <2>1. u(t) \in {0, 1} /\ v(t) \in {0, 1} /\ (u(t) = 1 <=> x = t) /\ (v(t) = 1 <=> y = t)
    OBVIOUS
  <2> DEFINE ut == u(t)
             vt == v(t)
  <2>2. f[t] = IF p[1] = p[2] THEN ut * ut + 2 * (-1) * ut ELSE 2 * ut * vt
    BY <1>3
  <2> HIDE DEF u, v, ut, vt, f
  <2>3. ut \in {0, 1} /\ vt \in {0, 1} /\ (ut = 1 <=> x = t) /\ (vt = 1 <=> y = t)
    BY <2>1 DEF ut, vt
  <2>4. p[1] = p[2] => x = y
    OBVIOUS
  <2>5. f[t] = IF p[1] = p[2] THEN (IF ut = 1 THEN -1 ELSE 0) ELSE IF ut = 1 /\ vt = 1 THEN 2 ELSE 0
    BY <2>2, <2>3
  <2> HIDE DEF x, y
  <2> QED
    BY <2>3, <2>4, <2>5
<1> HIDE DEF f, x, y, K, n
<1>5. \A t \in K : t # x => f[t] = 0
  BY <1>4
<1>6. SumFunctionOnSet(f, K) = f[x]
  BY <1>2, <1>4, <1>5, SumSingle
<1> QED
  BY <1>2, <1>4, <1>6 DEF f, K, x, y

\* The slots that bits b assign, by the variables that are set.
LEMMA SlotsSet ==
  ASSUME NEW inst, IsNet(inst), NEW b \in Bits(RoutingSize(inst))
  PROVE  LET ones == {v \in 1..RoutingSize(inst) : b[v] = 1}
         IN  /\ AssignedBy(inst, b) = {SlotOf(inst, v) : v \in ones}
             /\ AssignedBy(inst, b) \subseteq Slots(inst) /\ IsFiniteSet(AssignedBy(inst, b))
             /\ IsFiniteSet(ones)
             /\ \A v, u \in ones : SlotOf(inst, v) = SlotOf(inst, u) => v = u
<1> DEFINE ones == {v \in 1..RoutingSize(inst) : b[v] = 1}
<1>1. DOMAIN b = 1..RoutingSize(inst)
  BY DEF Bits
<1>2. AssignedBy(inst, b) = {SlotOf(inst, v) : v \in ones}
  BY <1>1 DEF AssignedBy
<1>3. AssignedBy(inst, b) \subseteq Slots(inst)
  <2>1. \A v \in 1..RoutingSize(inst) : SlotOf(inst, v) \in Slots(inst)
    BY SlotsAre DEF RoutingSize
  <2> QED
    BY <1>2, <2>1
<1>4. IsFiniteSet(AssignedBy(inst, b))
  BY <1>3, SlotsAre, FS_Subset
<1>5. IsFiniteSet(ones)
  <2>1. RoutingSize(inst) \in Nat
    BY SizeType
  <2>2. ones \in SUBSET (1..RoutingSize(inst))
    OBVIOUS
  <2> HIDE DEF ones
  <2> QED
    BY <2>1, <2>2, PairsFinite
<1>6. \A v, u \in ones : SlotOf(inst, v) = SlotOf(inst, u) => v = u
  BY SlotsAre DEF RoutingSize
<1> QED
  BY <1>2, <1>3, <1>4, <1>5, <1>6

\* The form of a transaction counts the routes it is assigned.
LEMMA FormCounts ==
  ASSUME NEW inst, IsNet(inst), NEW b \in Bits(RoutingSize(inst)), NEW t
  PROVE  /\ Linear(RoutingSize(inst), RouteForm(inst, t), b) =
              Cardinality({s \in AssignedBy(inst, b) : s[1] = t})
         /\ Cardinality({s \in AssignedBy(inst, b) : s[1] = t}) \in Nat
<1> DEFINE n == RoutingSize(inst)
           c == RouteForm(inst, t)
           ones == {v \in 1..n : b[v] = 1}
           mine == {v \in ones : SlotOf(inst, v)[1] = t}
           image == {s \in AssignedBy(inst, b) : s[1] = t}
           at == [v \in mine |-> SlotOf(inst, v)]
<1>1. n \in Nat
  BY SizeType
<1>2. \A v \in 1..n : c[v] \in Int /\ c[v] = IF SlotOf(inst, v)[1] = t THEN 1 ELSE 0
  BY DEF RouteForm
<1>3. /\ AssignedBy(inst, b) = {SlotOf(inst, v) : v \in ones} /\ IsFiniteSet(ones)
      /\ \A v, u \in ones : SlotOf(inst, v) = SlotOf(inst, u) => v = u
  BY SlotsSet
<1> HIDE DEF c, n
<1>4. Linear(n, c, b) = SumFunctionOnSet(c, ones)
  <2> DEFINE o == ones
  <2>1. o = {v \in 1..n : b[v] = 1} /\ b \in Bits(n)
    BY DEF n
  <2> HIDE DEF o
  <2>2. Linear(n, c, b) = SumFunctionOnSet(c, o)
    BY <1>1, <1>2, <2>1, LinearOfSlots
  <2> QED
    BY <2>2 DEF o
<1>5. ones \subseteq 1..n /\ mine \in SUBSET ones
  OBVIOUS
<1>6. \A v \in mine : c[v] = 1
  BY <1>2
<1>7. \A v \in ones \ mine : c[v] = 0
  BY <1>2
<1>8. \A v, u \in mine : at[v] = at[u] => v = u
  BY <1>3
<1>9. \A v \in mine : at[v] \in image
  BY <1>3
<1>10. \A s \in image : \E v \in mine : at[v] = s
  BY <1>3
<1> HIDE DEF ones, mine, image, at
<1>11. IsConstantOn(c, ones, mine, 1)
  BY <1>3, <1>5, <1>6, <1>7 DEF IsConstantOn
<1>12. SumFunctionOnSet(c, ones) = 1 * Cardinality(mine) /\ IsFiniteSet(mine)
       /\ Cardinality(mine) \in Nat
  BY <1>11, SumCounts
<1>13. Cardinality(image) = Cardinality(mine)
  <2>1. Renames(at, mine, image)
    BY <1>8, <1>9, <1>10, <1>12 DEF Renames
  <2> QED
    BY <2>1, SameSize
<1>14. Linear(n, c, b) = Cardinality(image) /\ Cardinality(image) \in Nat
  BY <1>4, <1>12, <1>13
<1> QED
  BY <1>14 DEF n, c, image

\* The coefficients of single variables.
SlotPrices(inst) == [v \in 1..RoutingSize(inst) |-> SlotPrice(inst, SlotOf(inst, v))]

\* What the coefficients of the slots add to the energy: the cost of those that are
\* assigned, and the penalty of those among them that are not eligible.
LEMMA PricesAdd ==
  ASSUME NEW inst, IsNet(inst), NEW b \in Bits(RoutingSize(inst))
  PROVE  LET assigned == AssignedBy(inst, b)
             forbidden == {s \in assigned : ~EligibleSlot(inst, s)}
         IN  /\ \A v \in 1..RoutingSize(inst) : SlotPrices(inst)[v] \in Int
             /\ Linear(RoutingSize(inst), SlotPrices(inst), b) =
                  RoutingCost(inst, assigned)
                    + 5 * RoutingScale(inst) * RoutingWeight * Cardinality(forbidden)
             /\ RoutingCost(inst, assigned) \in Int /\ Cardinality(forbidden) \in Nat
<1> DEFINE n == RoutingSize(inst)
           ones == {v \in 1..n : b[v] = 1}
           A == AssignedBy(inst, b)
           F == {s \in A : ~EligibleSlot(inst, s)}
           a == 5 * RoutingScale(inst) * RoutingWeight
           d == SlotPrices(inst)
           at == [v \in ones |-> SlotOf(inst, v)]
           image == {at[v] : v \in ones}
           price == [s \in A |-> SlotPrice(inst, s)]
           cost == [s \in A |-> RouteCost(inst, s[1], s[2])]
           fine == [s \in A |-> IF EligibleSlot(inst, s) THEN 0 ELSE a]
<1>1. n \in Nat /\ a \in Int
  BY SizeType, RoutingNumbers DEF RoutingWeight
<1>2. /\ A = {SlotOf(inst, v) : v \in ones} /\ A \subseteq Slots(inst)
      /\ IsFiniteSet(A) /\ IsFiniteSet(ones)
      /\ \A v, u \in ones : SlotOf(inst, v) = SlotOf(inst, u) => v = u
  BY SlotsSet
<1>3. \A s \in Slots(inst) : SlotPrice(inst, s) = RouteCost(inst, s[1], s[2])
                                                    + IF EligibleSlot(inst, s) THEN 0 ELSE a
  BY DEF SlotPrice
<1>4. \A s \in Slots(inst) : RouteCost(inst, s[1], s[2]) \in Int
  BY RoutingNumbers
<1> HIDE DEF a
<1>5. \A s \in Slots(inst) : SlotPrice(inst, s) \in Int
  BY <1>1, <1>3, <1>4
<1>6. \A v \in 1..n : SlotOf(inst, v) \in Slots(inst)
  BY SlotsAre DEF RoutingSize
<1>7. \A v \in 1..n : d[v] \in Int /\ d[v] = SlotPrice(inst, SlotOf(inst, v))
  BY <1>5, <1>6 DEF SlotPrices
<1> HIDE DEF d
<1>8. Linear(n, d, b) = SumFunctionOnSet(d, ones)
  <2> DEFINE o == ones
  <2>1. o = {v \in 1..n : b[v] = 1} /\ b \in Bits(n)
    OBVIOUS
  <2> HIDE DEF o, n
  <2>2. Linear(n, d, b) = SumFunctionOnSet(d, o)
    BY <1>1, <1>7, <2>1, LinearOfSlots
  <2> QED
    BY <2>2 DEF o
<1>9. \A v \in ones : at[v] \in A /\ price[at[v]] \in Int /\ d[v] = price[at[v]]
  <2> TAKE v \in ones
  <2>1. v \in 1..n /\ at[v] = SlotOf(inst, v) /\ SlotOf(inst, v) \in A
    BY <1>2
  <2> QED
    BY <1>5, <1>6, <1>7, <2>1
<1>10. image = A /\ \A v, u \in ones : at[v] = at[u] => v = u
  BY <1>2
<1>11. /\ \A v \in ones : price[at[v]] \in Int
       /\ \A v \in ones : d[v] = price[at[v]]
  BY <1>9
<1>12. \A s \in A : /\ cost[s] \in Int /\ fine[s] \in Int /\ price[s] = cost[s] + fine[s]
  BY <1>1, <1>2, <1>3, <1>4
<1>13. IsConstantOn(fine, A, F, a)
  BY <1>1, <1>2 DEF IsConstantOn
<1>14. RoutingCost(inst, A) = SumFunctionOnSet(cost, A)
  BY DEF RoutingCost, SumFunction
<1> HIDE DEF A, F, at, price, cost, fine, ones, n
<1>15. SumFunctionOnSet(price, image) = SumFunctionOnSet(d, ones)
  BY <1>2, <1>10, <1>11, SumRenamed
<1>16. SumFunctionOnSet(price, A) = SumFunctionOnSet(cost, A) + SumFunctionOnSet(fine, A)
  BY <1>2, <1>12, SumPlus DEF Summable
<1>17. SumFunctionOnSet(fine, A) = a * Cardinality(F) /\ Cardinality(F) \in Nat
  BY <1>13, SumCounts
<1>18. SumFunctionOnSet(cost, A) \in Int
  BY <1>2, <1>12, SumType
<1>19. Linear(n, d, b) = RoutingCost(inst, A) + a * Cardinality(F)
  BY <1>8, <1>10, <1>14, <1>15, <1>16, <1>17
<1> QED
  BY <1>7, <1>14, <1>17, <1>18, <1>19 DEF n, d, A, F, a

\* The forms of all transactions,
RouteForms(inst) == [t \in DOMAIN inst.transactions |-> RouteForm(inst, t)]

\* their constants,
Negatives(inst) == [t \in DOMAIN inst.transactions |-> -1]

\* and by how much each transaction misses one route.
RouteMisses(inst, b) ==
  [t \in DOMAIN inst.transactions |->
    Cardinality({s \in AssignedBy(inst, b) : s[1] = t}) - 1]

\* The one-hot squares by keys.
RouteSquareTable(inst) == [p \in Pairs(RoutingSize(inst)) |-> RouteSquares(inst, p)]

\* For every assignment the energy of the encoding of a net is the weighted square of how
\* much each transaction misses one route, the penalty of slots that are not eligible, and the cost.
LEMMA RoutingExact ==
  ASSUME NEW inst, IsNet(inst), RoutingQubo(inst).n > 0, NEW b \in Bits(RoutingQubo(inst).n)
  PROVE  Energy(RoutingQubo(inst), b) = RoutingEnergy(inst, b)
<1> DEFINE q == RoutingQubo(inst)
           n == RoutingSize(inst)
           T == Len(inst.transactions)
           K == DOMAIN inst.transactions
           w == RoutingScale(inst) * RoutingWeight
           c == RouteForms(inst)
           const == Negatives(inst)
           d == SlotPrices(inst)
           squares == RouteSquareTable(inst)
           misses == RouteMisses(inst, b)
           constSqs == [t \in K |-> const[t] * const[t]]
           missSqs == [t \in K |-> misses[t] * misses[t]]
           A == AssignedBy(inst, b)
           F == {s \in A : ~EligibleSlot(inst, s)}
           at(v) == SlotOf(inst, v)
<1>1. /\ q.n = n /\ q.offset = w * T
      /\ q.Q = [p \in Pairs(n) |->
                 IF p[1] = p[2] THEN RoutingDiagonal(inst, at(p[1]))
                 ELSE IF at(p[1])[1] = at(p[2])[1] THEN 2 * w ELSE 0]
  <2>1. NoEncoding.n = 0
    BY DEF NoEncoding, Encoding
  <2>2. ASSUME inst.degenerate PROVE FALSE
    <3>1. RoutingQubo(inst) = NoEncoding
      BY <2>2, RoutingEncodes
    <3> QED
      BY <2>1, <3>1
  <2> QED
    BY <2>2, RoutingEncodes DEF RoutingSize
<1>2. IsQubo(q) /\ n \in Nat /\ b \in Bits(n)
  BY <1>1, RoutingIsQubo, SizeType
<1>3. K = 1..T /\ T \in Nat /\ IsFiniteSet(K) /\ Cardinality(K) = T
  <2>1. K = 1..T /\ T \in Nat
    BY SlotsAre
  <2> DEFINE m == T
  <2>2. m \in Int /\ 1 \in Int /\ m \in Nat
    BY <2>1
  <2> HIDE DEF m
  <2>3. IsFiniteSet(1..m) /\ Cardinality(1..m) = IF 1 > m THEN 0 ELSE m - 1 + 1
    BY <2>2, FS_Interval
  <2>4. Cardinality(1..m) = m
    BY <2>2, <2>3
  <2> QED
    BY <2>1, <2>3, <2>4 DEF m
<1>4. w \in Int /\ RoutingScale(inst) \in Int /\ RoutingWeight \in Int
  BY RoutingNumbers DEF RoutingWeight
<1>5. /\ \A v \in 1..n : d[v] \in Int
      /\ Linear(n, d, b) = RoutingCost(inst, A)
                             + 5 * RoutingScale(inst) * RoutingWeight * Cardinality(F)
      /\ RoutingCost(inst, A) \in Int /\ Cardinality(F) \in Nat
  BY <1>2, PricesAdd
<1>6. \A t \in K : /\ const[t] = -1 /\ const[t] \in Int /\ c[t] = RouteForm(inst, t)
                   /\ misses[t] = Linear(n, c[t], b) + const[t]
                   /\ \A v \in 1..n : c[t][v] \in Int
  <2> TAKE t \in K
  <2>1. const[t] = -1 /\ c[t] = RouteForm(inst, t)
        /\ misses[t] = Cardinality({s \in A : s[1] = t}) - 1
    BY DEF Negatives, RouteForms, RouteMisses
  <2>2. Linear(n, RouteForm(inst, t), b) = Cardinality({s \in A : s[1] = t})
        /\ Cardinality({s \in A : s[1] = t}) \in Nat
    BY <1>2, FormCounts
  <2>3. \A v \in 1..n : RouteForm(inst, t)[v] \in Int
    BY DEF RouteForm
  <2> HIDE DEF c, const, misses, n
  <2> QED
    BY <2>1, <2>2, <2>3
<1>7. \A p \in Pairs(n) : \A t \in K : squares[p][t] = Square(n, c[t], const[t])[p]
  BY <1>6 DEF RouteSquareTable, RouteSquares
<1>8. ASSUME NEW p \in Pairs(n)
      PROVE  q.Q[p] = w * SumFunctionOnSet(squares[p], K) + IF p[1] = p[2] THEN d[p[1]] ELSE 0
  <2>1. SumFunctionOnSet(squares[p], K) = IF p[1] = p[2] THEN -1
                                          ELSE IF at(p[1])[1] = at(p[2])[1] THEN 2 ELSE 0
    BY RouteSquaresSum DEF RouteSquareTable
  <2>2. p[1] \in 1..n
    BY PairsIn
  <2> DEFINE s == at(p[1])
             x == RouteCost(inst, s[1], s[2])
             y == IF EligibleSlot(inst, s) THEN 0 ELSE 5 * RoutingScale(inst) * RoutingWeight
  <2>3. d[p[1]] = x + y
    BY <2>2 DEF SlotPrices, SlotPrice
  <2>4. RoutingDiagonal(inst, s) = x - w + y
    BY DEF RoutingDiagonal
  <2>5. s \in Slots(inst)
    BY <2>2, SlotsAre DEF RoutingSize
  <2>6. x \in Int /\ y \in Int
    <3>1. x \in Int
      BY <2>5, RoutingNumbers
    <3>2. 5 * RoutingScale(inst) * RoutingWeight \in Int
      BY <1>4
    <3> QED
      BY <3>1, <3>2
  <2>7. q.Q[p] = IF p[1] = p[2] THEN RoutingDiagonal(inst, s)
                 ELSE IF at(p[1])[1] = at(p[2])[1] THEN 2 * w ELSE 0
    BY <1>1
  <2> HIDE DEF q, w, squares, K, d, x, y, s
  <2>8. w * (-1) + (x + y) = x - w + y /\ w * 2 + 0 = 2 * w /\ w * 0 + 0 = 0
    BY <1>4, <2>6
  <2> QED
    BY <2>1, <2>3, <2>4, <2>7, <2>8
<1>9. \A t \in K : constSqs[t] = const[t] * const[t] /\ missSqs[t] = misses[t] * misses[t]
                   /\ constSqs[t] = 1
  <2>1. (-1) * (-1) = 1
    OBVIOUS
  <2> QED
    BY <1>6, <2>1
<1>10. /\ SumFunction([t \in K |-> (Cardinality({s \in A : s[1] = t}) - 1)
                                      * (Cardinality({s \in A : s[1] = t}) - 1)])
            = SumFunctionOnSet(missSqs, K)
       /\ \A t \in K : missSqs[t] \in Int
  <2>1. \A t \in K : misses[t] = Cardinality({s \in A : s[1] = t}) - 1
    BY DEF RouteMisses
  <2>2. missSqs = [t \in K |-> (Cardinality({s \in A : s[1] = t}) - 1)
                                 * (Cardinality({s \in A : s[1] = t}) - 1)]
    BY <2>1
  <2>3. SumFunction(missSqs) = SumFunctionOnSet(missSqs, K)
    BY DEF SumFunction
  <2>4. ASSUME NEW t \in K PROVE missSqs[t] \in Int
    <3> DEFINE z == Cardinality({s \in A : s[1] = t})
    <3>1. z \in Nat
      BY <1>2, FormCounts
    <3>2. missSqs[t] = (z - 1) * (z - 1)
      BY <2>1
    <3> HIDE DEF z, missSqs
    <3> QED
      BY <3>1, <3>2
  <2> QED
    BY <2>2, <2>3, <2>4
<1>11. RoutingEnergy(inst, b) =
         w * (SumFunctionOnSet(missSqs, K) + 5 * Cardinality(F)) + RoutingCost(inst, A)
  BY <1>10 DEF RoutingEnergy
<1> HIDE DEF q, n, T, K, c, const, d, squares, misses, constSqs, missSqs, A, F
<1>12. IsSumOfSquares(q, b, K, c, const, w, d, squares, misses, constSqs, missSqs)
  BY <1>1, <1>2, <1>3, <1>4, <1>5, <1>6, <1>7, <1>8, <1>9 DEF IsSumOfSquares
<1>13. Energy(q, b) = q.offset - w * SumFunctionOnSet(constSqs, K)
                        + w * SumFunctionOnSet(missSqs, K) + Linear(n, d, b)
  BY <1>1, <1>12, EnergyOfSquares
<1>14. SumFunctionOnSet(constSqs, K) = T
  BY <1>3, <1>9, SumOfOnes
<1>15. SumFunctionOnSet(missSqs, K) \in Int
  BY <1>3, <1>10, SumType
<1> DEFINE m == SumFunctionOnSet(missSqs, K)
           f == Cardinality(F)
           r == RoutingCost(inst, A)
<1>16. Linear(n, d, b) = r + 5 * w * f
  BY <1>4, <1>5
<1>17. Energy(q, b) = w * T - w * T + w * m + (r + 5 * w * f)
  BY <1>1, <1>13, <1>14, <1>16
<1>18. m \in Int /\ f \in Int /\ r \in Int /\ T \in Int /\ w \in Int
  BY <1>3, <1>4, <1>5, <1>15
<1>19. RoutingEnergy(inst, b) = w * (m + 5 * f) + r
  BY <1>11
<1> HIDE DEF m, f, r, w
<1>20. w * T - w * T + w * m + (r + 5 * w * f) = w * (m + 5 * f) + r
  BY <1>18
<1> QED
  BY <1>17, <1>19, <1>20 DEF q

-----------------------------------------------------------------------------
(* The routing domain: the check and the ground state                      *)

\* The transactions that the check of a net counts.
ValidOnes(inst, assigned) ==
  {t \in DOMAIN inst.transactions :
    \E s \in assigned : {u \in assigned : u[1] = t} = {s} /\ EligibleSlot(inst, s)}

\* They are all of them if and only if each transaction has one slot and no slot
\* is one that is not eligible; then there are as many slots as transactions.
LEMMA AllAreValid ==
  ASSUME NEW inst, IsNet(inst), NEW assigned \in SUBSET Slots(inst)
  PROVE  /\ (Cardinality(ValidOnes(inst, assigned)) = Len(inst.transactions)) <=>
              /\ \A s \in assigned : EligibleSlot(inst, s)
              /\ \A t \in DOMAIN inst.transactions : Cardinality({s \in assigned : s[1] = t}) = 1
         /\ (\A t \in DOMAIN inst.transactions : Cardinality({s \in assigned : s[1] = t}) = 1)
              => Cardinality(assigned) = Len(inst.transactions)
<1> DEFINE N == DOMAIN inst.transactions
           T == Len(inst.transactions)
           at(t) == {s \in assigned : s[1] = t}
           valid == ValidOnes(inst, assigned)
<1>1. T \in Nat /\ N = 1..T /\ IsFiniteSet(Slots(inst))
  BY SlotsAre
<1>2. IsFiniteSet(N) /\ Cardinality(N) = T
  <2>1. 1 \in Int /\ T \in Int
    BY <1>1
  <2> HIDE DEF T
  <2>2. IsFiniteSet(1..T) /\ Cardinality(1..T) = IF 1 > T THEN 0 ELSE T - 1 + 1
    BY <2>1, FS_Interval
  <2>3. Cardinality(1..T) = T
    BY <1>1, <2>1, <2>2
  <2> QED
    BY <1>1, <2>2, <2>3
<1>3. IsFiniteSet(assigned) /\ \A t \in N : IsFiniteSet(at(t))
  <2>1. IsFiniteSet(assigned)
    BY <1>1, FS_Subset
  <2>2. \A t : at(t) \in SUBSET assigned
    OBVIOUS
  <2> QED
    BY <2>1, <2>2, FS_Subset
<1>4. valid \in SUBSET N /\ \A t \in N :
        t \in valid <=> \E s \in assigned : at(t) = {s} /\ EligibleSlot(inst, s)
  BY DEF ValidOnes
<1>5. \A s \in assigned : s[1] \in N /\ s \in at(s[1])
  BY DEF Slots
<1>6. \A t \in N : (Cardinality(at(t)) = 1) <=> \E s \in at(t) : at(t) = {s}
  BY <1>3, OneSlot
<1>7. \A t : \A s \in at(t) : s \in assigned
  OBVIOUS
<1>8. (Cardinality(valid) = T) <=> valid = N
  <2> HIDE DEF valid, N, T
  <2>1. Cardinality(valid) = Cardinality(N) => valid = N
    BY <1>2, <1>4, FS_Subset
  <2> QED
    BY <1>2, <2>1
<1>9. ASSUME valid = N
      PROVE  (\A s \in assigned : EligibleSlot(inst, s)) /\ \A t \in N : Cardinality(at(t)) = 1
  <2>1. ASSUME NEW t \in N
        PROVE  \E s \in at(t) : at(t) = {s} /\ EligibleSlot(inst, s)
    <3>1. PICK s \in assigned : at(t) = {s} /\ EligibleSlot(inst, s)
      BY <1>4, <1>9
    <3> HIDE DEF at
    <3> QED
      BY <3>1
  <2>2. \A t \in N : Cardinality(at(t)) = 1
    <3> HIDE DEF at
    <3> QED
      BY <1>6, <2>1
  <2>3. ASSUME NEW s \in assigned
        PROVE  EligibleSlot(inst, s)
    <3>1. s[1] \in N /\ s \in at(s[1])
      BY <1>5
    <3> HIDE DEF at
    <3>2. \E u \in at(s[1]) : at(s[1]) = {u} /\ EligibleSlot(inst, u)
      BY <2>1, <3>1
    <3> QED
      BY <3>1, <3>2
  <2> QED
    BY <2>2, <2>3
<1>10. ASSUME \A s \in assigned : EligibleSlot(inst, s), \A t \in N : Cardinality(at(t)) = 1
       PROVE  valid = N
  <2> HIDE DEF at, valid
  <2>1. ASSUME NEW t \in N PROVE t \in valid
    <3>1. PICK s \in at(t) : at(t) = {s}
      BY <1>6, <1>10
    <3> QED
      BY <1>4, <1>7, <1>10, <3>1
  <2> QED
    BY <1>4, <2>1
<1>11. ASSUME \A t \in N : Cardinality(at(t)) = 1
       PROVE  Cardinality(assigned) = T
  <2> DEFINE m == [s \in assigned |-> s[1]]
  <2>1. \A s \in assigned : m[s] = s[1]
    OBVIOUS
  <2> HIDE DEF m, at, N, T
  <2>2. \A s, u \in assigned : m[s] = m[u] => s = u
    <3> SUFFICES ASSUME NEW s \in assigned, NEW u \in assigned, m[s] = m[u]
                 PROVE  s = u
      OBVIOUS
    <3>1. s[1] = u[1] /\ s[1] \in N /\ s \in at(s[1]) /\ u \in at(s[1])
      BY <1>5, <2>1
    <3>2. \E x \in at(s[1]) : at(s[1]) = {x}
      BY <1>6, <1>11, <3>1
    <3> QED
      BY <3>1, <3>2
  <2>3. \A t \in N : \E s \in assigned : m[s] = t
    <3> SUFFICES ASSUME NEW t \in N PROVE \E s \in assigned : m[s] = t
      OBVIOUS
    <3>1. PICK s \in at(t) : at(t) = {s}
      BY <1>6, <1>11
    <3>2. s \in assigned /\ s[1] = t
      BY <3>1 DEF at
    <3> QED
      BY <2>1, <3>2
  <2>4. Renames(m, assigned, N)
    BY <1>3, <1>5, <2>1, <2>2, <2>3 DEF Renames
  <2> QED
    BY <1>2, <2>4, SameSize
<1> QED
  BY <1>8, <1>9, <1>10, <1>11

\* On a net with transactions solve_routing_milp admits what check_routing_constraints
\* accepts.
LEMMA RoutingChecksRows ==
  ASSUME NEW inst, IsNet(inst), ~inst.degenerate, NEW assigned \in SUBSET Slots(inst)
  PROVE  RoutingRows(inst, assigned) <=> RoutingCheck(inst, assigned)
<1> DEFINE T == Len(inst.transactions)
           R == DOMAIN inst.routes
           load == [r \in R |-> Cardinality(Over(assigned, r)) - inst.routes[r].capacity]
           net(r) == inst.routes[r].network
           share(x) == 10 * Cardinality(OverNetwork(inst, assigned, x)) - inst.share * T
           shares == [r \in R |-> share(net(r))]
           single == /\ \A s \in assigned : EligibleSlot(inst, s)
                     /\ \A t \in DOMAIN inst.transactions :
                          Cardinality({s \in assigned : s[1] = t}) = 1
<1>1. T \in Nat /\ T > 0 /\ inst.routes # <<>> /\ R # {} /\ IsFiniteSet(R)
      /\ inst.share \in Nat /\ \A r \in R : inst.routes[r].capacity \in Nat
  <2>1. inst.transactions # <<>> /\ inst.transactions \in Seq(ToSet(inst.transactions))
    BY DEF IsNet
  <2>2. T \in Nat \ {0}
    BY <2>1, EmptySeq
  <2>3. inst.routes # <<>> /\ inst.routes \in Seq(ToSet(inst.routes))
    BY DEF IsNet
  <2>4. Len(inst.routes) \in Nat \ {0} /\ R = 1..Len(inst.routes) /\ IsFiniteSet(R)
    BY <2>3, EmptySeq, ElementsFinite, SlotsAre
  <2>5. \A r \in R : inst.routes[r].capacity \in Nat
    BY <2>3 DEF IsNet, IsRoute, ToSet
  <2>6. 1 \in R
    BY <2>4
  <2> QED
    BY <2>2, <2>3, <2>4, <2>5, <2>6 DEF IsNet
<1>2. /\ IsFiniteSet(assigned) /\ Cardinality(assigned) \in Nat
      /\ \A r : Cardinality(Over(assigned, r)) \in Nat
      /\ \A x : Cardinality(OverNetwork(inst, assigned, x)) \in Nat
  <2>1. IsFiniteSet(assigned)
    BY SlotsAre, FS_Subset
  <2>2. \A r, x : Over(assigned, r) \in SUBSET assigned
                  /\ OverNetwork(inst, assigned, x) \in SUBSET assigned
    BY DEF Over, OverNetwork
  <2>3. \A V \in SUBSET assigned : IsFiniteSet(V) /\ Cardinality(V) \in Nat
    BY <2>1, FS_Subset, FS_CardinalityType
  <2> QED
    BY <2>1, <2>2, <2>3
<1>3. RoutingRows(inst, assigned) <=>
        /\ single
        /\ \A r \in R : Cardinality(Over(assigned, r)) <= inst.routes[r].capacity
        /\ inst.share > 0 => \A x \in Networks(inst) :
             10 * Cardinality(OverNetwork(inst, assigned, x)) <= inst.share * T
        /\ inst.floor > 0 => Approvals(inst, assigned) >= inst.floor * T
  BY <1>1 DEF RoutingRows
<1>4. RoutingCheck(inst, assigned) <=>
        /\ Cardinality(ValidOnes(inst, assigned)) = T
        /\ \E worst \in R : load[worst] <= 0 /\ \A r \in R : load[worst] >= load[r]
        /\ inst.share > 0 /\ T > 0 =>
             \E worst \in Networks(inst) :
               /\ 10 * Cardinality(OverNetwork(inst, assigned, worst)) <= inst.share * T
               /\ \A x \in Networks(inst) :
                    Cardinality(OverNetwork(inst, assigned, worst))
                      >= Cardinality(OverNetwork(inst, assigned, x))
        /\ inst.floor > 0 =>
             assigned # {} /\ Approvals(inst, assigned) >= inst.floor * Cardinality(assigned)
  BY DEF RoutingCheck, ValidOnes
<1>5. (Cardinality(ValidOnes(inst, assigned)) = T) <=> single
  BY AllAreValid
<1>6. single => Cardinality(assigned) = T /\ assigned # {}
  <2>1. single => Cardinality(assigned) = T
    BY AllAreValid
  <2>2. T # 0 /\ Cardinality({}) = 0
    BY <1>1, FS_EmptySet
  <2> HIDE DEF single, T
  <2> QED
    BY <2>1, <2>2
<1>7. (\E worst \in R : load[worst] <= 0 /\ \A r \in R : load[worst] >= load[r])
        <=> \A r \in R : Cardinality(Over(assigned, r)) <= inst.routes[r].capacity
  <2>1. Summable(load, R)
    BY <1>1, <1>2 DEF Summable
  <2>2. \A r \in R : (load[r] <= 0) <=> Cardinality(Over(assigned, r)) <= inst.routes[r].capacity
    BY <1>1, <1>2
  <2> HIDE DEF load, R
  <2> QED
    BY <1>1, <2>1, <2>2, GreatestDecides
<1>8. (\E worst \in Networks(inst) :
         /\ 10 * Cardinality(OverNetwork(inst, assigned, worst)) <= inst.share * T
         /\ \A x \in Networks(inst) :
              Cardinality(OverNetwork(inst, assigned, worst))
                >= Cardinality(OverNetwork(inst, assigned, x)))
        <=> \A x \in Networks(inst) :
              10 * Cardinality(OverNetwork(inst, assigned, x)) <= inst.share * T
  <2> DEFINE card(x) == Cardinality(OverNetwork(inst, assigned, x))
             most == inst.share * T
  <2>1. most \in Nat
    BY <1>1
  <2>2. \A x : card(x) \in Nat
    BY <1>2
  <2>3. Networks(inst) = {net(r) : r \in R}
    BY DEF Networks
  <2> HIDE DEF card, most, T
  <2>4. \A x : share(x) = 10 * card(x) - most /\ share(x) \in Int
    BY <2>1, <2>2 DEF card, most
  <2>5. Summable(shares, R)
    BY <1>1, <2>4 DEF Summable
  <2>6. \A r \in R : shares[r] = 10 * card(net(r)) - most
    BY <2>4
  <2> HIDE DEF shares, share, net, R
  <2>7. PICK r \in R : \A y \in R : shares[r] >= shares[y]
    BY <1>1, <2>5, LeastAndGreatest
  <2>8. \A y \in R : card(net(r)) >= card(net(y))
    <3> SUFFICES ASSUME NEW y \in R PROVE card(net(r)) >= card(net(y))
      OBVIOUS
    <3>1. 10 * card(net(r)) - most >= 10 * card(net(y)) - most
      BY <2>6, <2>7
    <3> QED
      BY <2>1, <2>2, <3>1
  <2>9. net(r) \in Networks(inst) /\ \A x \in Networks(inst) : card(net(r)) >= card(x)
    BY <2>3, <2>8
  <2>10. ASSUME NEW worst \in Networks(inst), 10 * card(worst) <= most,
                \A x \in Networks(inst) : card(worst) >= card(x), NEW x \in Networks(inst)
         PROVE  10 * card(x) <= most
    <3>1. card(worst) >= card(x) /\ card(worst) \in Nat /\ card(x) \in Nat
      BY <2>2, <2>10
    <3> QED
      BY <2>1, <2>10, <3>1
  <2>11. (\E worst \in Networks(inst) :
            10 * card(worst) <= most /\ \A x \in Networks(inst) : card(worst) >= card(x))
           <=> \A x \in Networks(inst) : 10 * card(x) <= most
    BY <2>9, <2>10
  <2> QED
    BY <2>11 DEF card, most
<1> HIDE DEF single, load, T, R
<1> QED
  BY <1>1, <1>3, <1>4, <1>5, <1>6, <1>7, <1>8

\* Every transaction of a net may use one of its routes.
IsServed(inst) ==
  \A t \in ToSet(inst.transactions) : \E r \in DOMAIN inst.routes :
    Eligible(t, inst.routes[r])

\* One eligible slot for each transaction.
OneEach(inst, assigned) ==
  /\ \A s \in assigned : EligibleSlot(inst, s)
  /\ \A t \in DOMAIN inst.transactions : Cardinality({s \in assigned : s[1] = t}) = 1

\* Slots cost no less than nothing, and any of them no more than all.
LEMMA CostsWithin ==
  ASSUME NEW inst, IsNet(inst), NEW assigned \in SUBSET Slots(inst)
  PROVE  /\ RoutingCost(inst, assigned) \in Nat
         /\ RoutingCost(inst, assigned) <= RoutingScale(inst)
         /\ IsFiniteSet(assigned)
         /\ \A s \in Slots(inst) : RouteCost(inst, s[1], s[2]) \in Nat
<1> DEFINE cost == [s \in Slots(inst) |-> RouteCost(inst, s[1], s[2])]
           all == RoutingCost(inst, Slots(inst))
<1>1. ASSUME NEW s \in Slots(inst)
      PROVE  RouteCost(inst, s[1], s[2]) \in Nat
  <2> DEFINE tx == inst.transactions[s[1]]
             r == inst.routes[s[2]]
             a == tx.amount
  <2>1. s[1] \in DOMAIN inst.transactions /\ s[2] \in DOMAIN inst.routes
    BY DEF Slots
  <2>2. tx \in ToSet(inst.transactions) /\ r \in ToSet(inst.routes)
    BY <2>1 DEF ToSet
  <2>3. a \in Nat /\ IsRoute(r) /\ inst.decline \in Nat
    BY <2>2 DEF IsNet
  <2>4. r.rate \in Nat /\ r.fraud \in Nat /\ r.fee \in Nat /\ r.approval \in 1..10
    BY <2>3 DEF IsRoute
  <2>5. RouteCost(inst, s[1], s[2]) = 10 * ((r.rate + r.fraud) * a + r.fee)
                                        + (10 - r.approval) * inst.decline * a
    BY DEF RouteCost
  <2> DEFINE x == r.rate + r.fraud
             y == 10 - r.approval
             z == inst.decline
             e == r.fee
  <2>6. x \in Nat /\ y \in Nat /\ z \in Nat /\ e \in Nat
    BY <2>3, <2>4
  <2> HIDE DEF x, y, z, e, a
  <2>7. x * a \in Nat /\ y * z \in Nat
    BY <2>3, <2>6
  <2>8. (y * z) * a \in Nat /\ 10 * (x * a + e) \in Nat
    BY <2>3, <2>6, <2>7
  <2>9. RouteCost(inst, s[1], s[2]) = 10 * (x * a + e) + (y * z) * a
    BY <2>5 DEF x, y, z, e, a
  <2> QED
    BY <2>8, <2>9
<1>2. IsFiniteSet(Slots(inst)) /\ IsFiniteSet(assigned)
  <2>1. IsFiniteSet(Slots(inst))
    BY SlotsAre
  <2> QED
    BY <2>1, FS_Subset
<1>3. \A s \in Slots(inst) : cost[s] \in Nat
  BY <1>1
<1>4. /\ RoutingCost(inst, assigned) = SumFunctionOnSet(cost, assigned)
      /\ all = SumFunctionOnSet(cost, Slots(inst))
  <2> DEFINE part == [s \in assigned |-> RouteCost(inst, s[1], s[2])]
  <2>1. RoutingCost(inst, assigned) = SumFunctionOnSet(part, assigned)
    <3>1. RoutingCost(inst, assigned) = SumFunction(part)
      BY DEF RoutingCost
    <3> QED
      BY <3>1, SumOfDomain
  <2>2. \A s \in assigned : part[s] = cost[s] /\ cost[s] \in Int
    BY <1>3
  <2>3. Summable(cost, assigned)
    BY <1>2, <2>2 DEF Summable
  <2>4. all = SumFunctionOnSet(cost, Slots(inst))
    <3>1. all = SumFunction(cost)
      BY DEF RoutingCost
    <3> QED
      BY <3>1, SumOfDomain
  <2> HIDE DEF part, cost, all
  <2>5. SumFunctionOnSet(part, assigned) = SumFunctionOnSet(cost, assigned)
    BY <2>2, <2>3, SumAgree
  <2> QED
    BY <2>1, <2>4, <2>5
<1>5. /\ SumFunctionOnSet(cost, assigned) \in Nat /\ SumFunctionOnSet(cost, Slots(inst)) \in Nat
      /\ SumFunctionOnSet(cost, assigned) <= SumFunctionOnSet(cost, Slots(inst))
  <2> HIDE DEF cost
  <2> QED
    BY <1>2, <1>3, SumOfNaturals
<1> HIDE DEF cost
<1>6. all <= RoutingScale(inst) /\ RoutingScale(inst) \in Int
  <2>1. RoutingScale(inst) = Max({1, all})
    BY DEF RoutingScale
  <2>2. all \in Int /\ 1 \in Int
    BY <1>4, <1>5
  <2> HIDE DEF all
  <2>3. Max({1, all}) = IF 1 >= all THEN 1 ELSE all
    BY <2>2, SmallerAndLarger
  <2> QED
    BY <2>1, <2>2, <2>3
<1> HIDE DEF all
<1> QED
  BY <1>1, <1>2, <1>4, <1>5, <1>6

\* Any set of slots is assigned by some bit string.
LEMMA AssignedBySome ==
  ASSUME NEW inst, IsNet(inst), NEW assigned \in SUBSET Slots(inst)
  PROVE  \E b \in Bits(RoutingSize(inst)) : AssignedBy(inst, b) = assigned
<1> DEFINE n == RoutingSize(inst)
           b == [v \in 1..n |-> IF SlotOf(inst, v) \in assigned THEN 1 ELSE 0]
           ones == {v \in 1..n : b[v] = 1}
<1>1. b \in Bits(n)
  BY DEF Bits
<1>2. AssignedBy(inst, b) = {SlotOf(inst, v) : v \in ones}
  BY DEF AssignedBy
<1>3. ones = {v \in 1..n : SlotOf(inst, v) \in assigned}
  OBVIOUS
<1>4. \A s \in Slots(inst) : \E v \in 1..n : SlotOf(inst, v) = s
  BY SlotsAre DEF RoutingSize
<1> HIDE DEF ones, b, n
<1>5. {SlotOf(inst, v) : v \in ones} = assigned
  BY <1>3, <1>4
<1> QED
  BY <1>1, <1>2, <1>5 DEF n

\* The energy of one eligible slot for each transaction is what they cost; anything
\* else costs more than all slots together.
LEMMA PenaltyOutweighs ==
  ASSUME NEW inst, IsNet(inst), NEW b \in Bits(RoutingSize(inst))
  PROVE  /\ OneEach(inst, AssignedBy(inst, b)) =>
              RoutingEnergy(inst, b) = RoutingCost(inst, AssignedBy(inst, b))
         /\ ~OneEach(inst, AssignedBy(inst, b)) =>
              RoutingEnergy(inst, b) > RoutingScale(inst)
         /\ RoutingEnergy(inst, b) \in Int
<1> DEFINE A == AssignedBy(inst, b)
           N == DOMAIN inst.transactions
           at(t) == {s \in A : s[1] = t}
           off(t) == Cardinality(at(t)) - 1
           sq == [t \in N |-> off(t) * off(t)]
           F == {s \in A : ~EligibleSlot(inst, s)}
           m == SumFunctionOnSet(sq, N)
           f == Cardinality(F)
           C == RoutingScale(inst)
           r == RoutingCost(inst, A)
<1>1. A \in SUBSET Slots(inst) /\ IsFiniteSet(A)
  BY SlotsSet
<1>2. r \in Nat /\ C \in Int /\ C >= 1
  BY <1>1, CostsWithin, RoutingNumbers
<1>3. \A t \in N : Cardinality(at(t)) \in Nat
  BY <1>1, FS_Subset, FS_CardinalityType
<1>4. F \in SUBSET A /\ IsFiniteSet(F) /\ f \in Nat
  BY <1>1, FS_Subset, FS_CardinalityType
<1>5. RoutingEnergy(inst, b) = C * RoutingWeight * (m + 5 * f) + r
  <2>1. RoutingEnergy(inst, b) = C * RoutingWeight * (SumFunction(sq) + 5 * f) + r
    BY DEF RoutingEnergy
  <2>2. SumFunction(sq) = m
    BY SumOfDomain
  <2> QED
    BY <2>1, <2>2
<1>6. IsFiniteSet(N)
  BY ElementsFinite DEF IsNet
<1>7. \A t \in N : sq[t] = off(t) * off(t) /\ off(t) \in Int /\ sq[t] \in Nat
                   /\ (off(t) # 0 => sq[t] >= 1)
  <2> SUFFICES ASSUME NEW t \in N
               PROVE  sq[t] = off(t) * off(t) /\ off(t) \in Int /\ sq[t] \in Nat
                      /\ (off(t) # 0 => sq[t] >= 1)
    OBVIOUS
  <2> DEFINE o == off(t)
  <2>1. sq[t] = o * o /\ o \in Int
    BY <1>3
  <2> HIDE DEF o, sq
  <2>2. o * o \in Nat /\ (o # 0 => o * o >= 1)
    <3>1. CASE o >= 0
      BY <2>1, <3>1
    <3>2. CASE o < 0
      <4> DEFINE u == -o
      <4>1. u \in Nat /\ u >= 1 /\ o = -u
        BY <2>1, <3>2
      <4> HIDE DEF u
      <4>2. u * u \in Nat /\ u * u >= 1
        BY <4>1
      <4>3. o * o = u * u
        BY <4>1
      <4> QED
        BY <4>2, <4>3
    <3> QED
      BY <2>1, <3>1, <3>2
  <2> QED
    BY <2>1, <2>2 DEF o
<1>8. OneEach(inst, A) <=> F = {} /\ \A t \in N : off(t) = 0
  <2>1. OneEach(inst, A) <=> (\A s \in A : EligibleSlot(inst, s))
                             /\ \A t \in N : Cardinality(at(t)) = 1
    BY DEF OneEach
  <2>2. \A t \in N : (Cardinality(at(t)) = 1) <=> off(t) = 0
    BY <1>3
  <2>3. F = {} <=> \A s \in A : EligibleSlot(inst, s)
    OBVIOUS
  <2> HIDE DEF F, A, off, at
  <2> QED
    BY <2>1, <2>2, <2>3
<1> HIDE DEF off, at, sq, N, F, A
<1>9. m \in Nat /\ \A t \in N : sq[t] <= m
  <2>1. m \in Nat /\ \A T \in SUBSET N : SumFunctionOnSet(sq, T) <= m
    BY <1>6, <1>7, SumOfNaturals
  <2>2. \A t \in N : SumFunctionOnSet(sq, {t}) = sq[t] /\ {t} \in SUBSET N
    <3> TAKE t \in N
    <3>1. sq[t] \in Int
      BY <1>7
    <3> QED
      BY <3>1, SumOne
  <2> QED
    BY <2>1, <2>2
<1> HIDE DEF m, f, C, r
<1>10. RoutingEnergy(inst, b) = 8 * (C * (m + 5 * f)) + r
  <2>1. m + 5 * f \in Int /\ RoutingWeight = 8
    BY <1>4, <1>9 DEF RoutingWeight
  <2> DEFINE x == m + 5 * f
  <2> HIDE DEF x
  <2>2. C * 8 * x = 8 * (C * x)
    BY <1>2, <2>1 DEF x
  <2> QED
    BY <1>5, <2>1, <2>2 DEF x
<1>11. ASSUME OneEach(inst, A) PROVE RoutingEnergy(inst, b) = r
  <2>1. f = 0
    BY <1>8, <1>11, FS_EmptySet DEF f
  <2>2. m = 0
    <3> DEFINE none == {}
    <3>1. none \in SUBSET N /\ Summable(sq, none) /\ SumFunctionOnSet(sq, none) = 0
      BY SumType, FS_EmptySet DEF Summable
    <3>2. \A t \in N \ none : sq[t] = 0
      BY <1>7, <1>8, <1>11
    <3> HIDE DEF none
    <3>3. SumFunctionOnSet(sq, N) = SumFunctionOnSet(sq, none)
      BY <1>6, <3>1, <3>2, SumZeros
    <3> QED
      BY <3>1, <3>3 DEF m
  <2> QED
    BY <1>2, <1>10, <2>1, <2>2
<1>12. ASSUME ~OneEach(inst, A) PROVE RoutingEnergy(inst, b) > C
  <2>1. m + 5 * f >= 1
    <3>1. CASE F # {}
      <4>1. f # 0
        BY <1>4, <3>1, FS_EmptySet DEF f
      <4> QED
        BY <1>4, <1>9, <4>1
    <3>2. CASE F = {}
      <4>1. PICK t \in N : off(t) # 0
        BY <1>8, <1>12, <3>2
      <4>2. sq[t] >= 1 /\ sq[t] <= m /\ sq[t] \in Nat
        BY <1>7, <1>9, <4>1
      <4> QED
        BY <1>4, <1>9, <4>2
    <3> QED
      BY <3>1, <3>2
  <2> DEFINE x == m + 5 * f
  <2>2. x \in Int /\ x >= 1
    BY <1>4, <1>9, <2>1
  <2> HIDE DEF x
  <2>3. C * x >= C /\ C * x \in Int
    BY <1>2, <2>2
  <2>4. RoutingEnergy(inst, b) = 8 * (C * x) + r
    BY <1>10 DEF x
  <2> DEFINE y == C * x
  <2> HIDE DEF y
  <2>5. y \in Int /\ y >= C /\ RoutingEnergy(inst, b) = 8 * y + r
    BY <2>3, <2>4 DEF y
  <2> QED
    BY <1>2, <2>5
<1>13. RoutingEnergy(inst, b) \in Int
  <2>1. m + 5 * f \in Int
    BY <1>4, <1>9
  <2>2. C * (m + 5 * f) \in Int
    BY <1>2, <2>1
  <2> QED
    BY <1>2, <1>10, <2>2
<1> QED
  BY <1>11, <1>12, <1>13 DEF A, C, r

\* There is an assignment of one eligible slot to each transaction.
LEMMA OneEachExists ==
  ASSUME NEW inst, IsNet(inst), IsServed(inst)
  PROVE  \E assigned \in SUBSET Slots(inst) : OneEach(inst, assigned)
<1> DEFINE N == DOMAIN inst.transactions
           R == DOMAIN inst.routes
           pick == [t \in N |-> CHOOSE r \in R : Eligible(inst.transactions[t], inst.routes[r])]
           A == {<<t, pick[t]>> : t \in N}
<1>1. \A t \in N : pick[t] \in R /\ Eligible(inst.transactions[t], inst.routes[pick[t]])
  <2> TAKE t \in N
  <2>1. inst.transactions[t] \in ToSet(inst.transactions)
    BY DEF ToSet
  <2>2. \E r \in R : Eligible(inst.transactions[t], inst.routes[r])
    BY <2>1 DEF IsServed
  <2> QED
    BY <2>2
<1> HIDE DEF pick
<1>2. A \in SUBSET Slots(inst)
  BY <1>1 DEF Slots
<1>3. \A s \in A : EligibleSlot(inst, s)
  BY <1>1 DEF EligibleSlot
<1>4. ASSUME NEW t \in N
      PROVE  Cardinality({s \in A : s[1] = t}) = 1
  <2>1. {s \in A : s[1] = t} = {<<t, pick[t]>>}
    OBVIOUS
  <2> QED
    BY <2>1, FS_Singleton
<1> QED
  BY <1>2, <1>3, <1>4 DEF OneEach

\* The slot of transaction t is exchanged for the one over route q.
MayExchange(inst, A, t, q) ==
  \E r \in DOMAIN inst.routes : \E B \in SUBSET Slots(inst) :
    /\ {s \in A : s[1] = t} = {<<t, r>>} /\ EligibleSlot(inst, <<t, r>>)
    /\ OneEach(inst, B)
    /\ RoutingCost(inst, A) - RouteCost(inst, t, r) =
         RoutingCost(inst, B) - RouteCost(inst, t, q)

\* One slot of such an assignment may be exchanged for another one of its transaction.
LEMMA Exchanged ==
  ASSUME NEW inst, IsNet(inst), NEW A \in SUBSET Slots(inst), OneEach(inst, A),
         NEW t \in DOMAIN inst.transactions, NEW q \in DOMAIN inst.routes,
         NEW y, y = <<t, q>>, EligibleSlot(inst, y)
  PROVE  MayExchange(inst, A, t, q)
<1> DEFINE cost == [s \in Slots(inst) |-> RouteCost(inst, s[1], s[2])]
           N == DOMAIN inst.transactions
           at(u) == {s \in A : s[1] = u}
<1>1. IsFiniteSet(A) /\ \A s \in Slots(inst) : cost[s] \in Int
  <2>1. IsFiniteSet(A)
    BY CostsWithin
  <2>2. \A s \in Slots(inst) : RouteCost(inst, s[1], s[2]) \in Nat
    BY CostsWithin
  <2> QED
    BY <2>1, <2>2
<1>2. \A u \in N : IsFiniteSet(at(u)) /\ Cardinality(at(u)) = 1
  BY <1>1, FS_Subset DEF OneEach
<1>3. PICK x \in at(t) : at(t) = {x}
  <2>1. IsFiniteSet(at(t)) /\ Cardinality(at(t)) = 1
    BY <1>2
  <2> HIDE DEF at
  <2> QED
    BY <2>1, OneSlot
<1>4. x \in A /\ x[1] = t /\ x \in Slots(inst)
  BY <1>3
<1>5. x[2] \in DOMAIN inst.routes /\ x = <<t, x[2]>>
  BY <1>4 DEF Slots
<1> DEFINE r == x[2]
           rest == A \ {x}
           B == rest \cup {y}
<1>6. y \in Slots(inst) /\ y[1] = t
  BY DEF Slots
<1>7. y \notin rest
  <2>1. ASSUME y \in rest PROVE FALSE
    <3>1. y \in at(t) /\ y # x
      BY <1>6, <2>1
    <3> QED
      BY <1>3, <3>1
  <2> QED
    BY <2>1
<1>8. B \in SUBSET Slots(inst) /\ B \ {y} = rest /\ y \in B
  BY <1>6, <1>7
<1>9. OneEach(inst, B)
  <2>1. \A s \in B : EligibleSlot(inst, s)
    BY DEF OneEach
  <2>2. ASSUME NEW u \in N
        PROVE  Cardinality({s \in B : s[1] = u}) = 1
    <3>1. CASE u = t
      <4>1. \A s \in rest : s[1] # t
        BY <1>3
      <4>2. {s \in B : s[1] = u} = {y}
        BY <1>6, <3>1, <4>1
      <4> QED
        BY <4>2, FS_Singleton
    <3>2. CASE u # t
      <4>1. {s \in B : s[1] = u} = at(u)
        BY <1>4, <1>6, <3>2
      <4> QED
        BY <1>2, <4>1
    <3> QED
      BY <3>1, <3>2
  <2> QED
    BY <2>1, <2>2 DEF OneEach
<1>10. ASSUME NEW V \in SUBSET Slots(inst), IsFiniteSet(V)
       PROVE  RoutingCost(inst, V) = SumFunctionOnSet(cost, V)
  <2> DEFINE part == [s \in V |-> RouteCost(inst, s[1], s[2])]
  <2>1. RoutingCost(inst, V) = SumFunctionOnSet(part, V)
    <3>1. RoutingCost(inst, V) = SumFunction(part)
      BY DEF RoutingCost
    <3> QED
      BY <3>1, SumOfDomain
  <2>2. \A s \in V : part[s] = cost[s]
    OBVIOUS
  <2>3. Summable(cost, V)
    BY <1>1, <1>10 DEF Summable
  <2> HIDE DEF part, cost
  <2> QED
    BY <2>1, <2>2, <2>3, SumAgree
<1>11. IsFiniteSet(B) /\ IsFiniteSet(rest) /\ rest \in SUBSET Slots(inst)
  <2>1. IsFiniteSet(B)
    BY <1>8, CostsWithin
  <2> HIDE DEF B
  <2> QED
    BY <1>1, <2>1, FS_Subset
<1>12. cost[x] = RouteCost(inst, t, r) /\ cost[y] = RouteCost(inst, t, q)
  BY <1>4, <1>6
<1> HIDE DEF cost
<1>13. RoutingCost(inst, A) = cost[x] + SumFunctionOnSet(cost, rest)
  <2>1. \A z \in A : SumFunctionOnSet(cost, A) = cost[z] + SumFunctionOnSet(cost, A \ {z})
    BY <1>1, SumRemove
  <2>2. SumFunctionOnSet(cost, A) = cost[x] + SumFunctionOnSet(cost, A \ {x})
    BY <1>4, <2>1
  <2> QED
    BY <1>1, <1>10, <2>2
<1>14. RoutingCost(inst, B) = cost[y] + SumFunctionOnSet(cost, rest)
  <2> HIDE DEF B, rest
  <2>1. \A z \in B : cost[z] \in Int
    BY <1>1, <1>8
  <2>2. \A z \in B : SumFunctionOnSet(cost, B) = cost[z] + SumFunctionOnSet(cost, B \ {z})
    BY <1>11, <2>1, SumRemove
  <2>3. SumFunctionOnSet(cost, B) = cost[y] + SumFunctionOnSet(cost, B \ {y})
    BY <1>8, <2>2
  <2> QED
    BY <1>8, <1>10, <1>11, <2>3
<1>15. SumFunctionOnSet(cost, rest) \in Int /\ cost[x] \in Int /\ cost[y] \in Int
  <2> HIDE DEF rest
  <2> QED
    BY <1>1, <1>4, <1>6, <1>11, SumType
<1>16. RoutingCost(inst, A) - RouteCost(inst, t, r) = RoutingCost(inst, B) - RouteCost(inst, t, q)
  BY <1>12, <1>13, <1>14, <1>15
<1>17. {s \in A : s[1] = t} = {<<t, r>>} /\ EligibleSlot(inst, <<t, r>>)
  BY <1>3, <1>4, <1>5 DEF OneEach
<1> HIDE DEF r, B
<1> QED
  BY <1>5, <1>8, <1>9, <1>16, <1>17 DEF r, MayExchange

\* The ground state of the encoding of a net sends every transaction over exactly one
\* route, an eligible and cheapest one.
GroundIsCheapest(inst, assigned) ==
  \A t \in DOMAIN inst.transactions :
    \E r \in DOMAIN inst.routes :
      /\ {s \in assigned : s[1] = t} = {<<t, r>>}
      /\ EligibleSlot(inst, <<t, r>>)
      /\ \A q \in DOMAIN inst.routes :
           EligibleSlot(inst, <<t, q>>) => RouteCost(inst, t, r) <= RouteCost(inst, t, q)

\* The ground state of the encoding of a net is such an assignment.
LEMMA RoutingGround ==
  ASSUME NEW inst, IsNet(inst), IsServed(inst), RoutingQubo(inst).n > 0
  PROVE  GroundIsCheapest(inst, AssignedBy(inst, BruteForce(RoutingQubo(inst))))
<1> DEFINE q == RoutingQubo(inst)
           n == RoutingSize(inst)
           g == BruteForce(q)
           A == AssignedBy(inst, g)
           N == DOMAIN inst.transactions
<1>1. IsQubo(q) /\ q.n > 0
  BY RoutingIsQubo
<1>2. q.n = n
  <2>1. ~inst.degenerate
    <3> SUFFICES ASSUME inst.degenerate PROVE FALSE
      OBVIOUS
    <3>1. q = NoEncoding
      BY RoutingEncodes
    <3>2. q.n = 0
      BY <3>1 DEF NoEncoding, Encoding
    <3> QED
      BY <1>1, <3>2
  <2> QED
    BY <2>1, RoutingEncodes DEF RoutingSize
<1>3. g \in Bits(n) /\ \A b \in Bits(n) : Energy(q, g) <= Energy(q, b)
  BY <1>1, <1>2, GroundIsLeast
<1>4. \A b \in Bits(n) : Energy(q, b) = RoutingEnergy(inst, b)
  BY <1>1, <1>2, RoutingExact
<1> HIDE DEF g, q, n
<1>5. A \in SUBSET Slots(inst)
  BY <1>3, SlotsSet DEF n
<1>6. ASSUME NEW B \in SUBSET Slots(inst), OneEach(inst, B)
      PROVE  RoutingEnergy(inst, g) <= RoutingCost(inst, B)
  <2>1. PICK b \in Bits(n) : AssignedBy(inst, b) = B
    BY AssignedBySome DEF n
  <2>2. RoutingEnergy(inst, b) = RoutingCost(inst, B)
    BY <1>6, <2>1, PenaltyOutweighs DEF n
  <2> QED
    BY <1>3, <1>4, <2>2
<1>7. OneEach(inst, A)
  <2> SUFFICES ASSUME ~OneEach(inst, A) PROVE FALSE
    OBVIOUS
  <2>1. PICK B \in SUBSET Slots(inst) : OneEach(inst, B)
    BY OneEachExists
  <2>2. RoutingEnergy(inst, g) <= RoutingCost(inst, B)
    BY <1>6, <2>1
  <2>3. RoutingCost(inst, B) <= RoutingScale(inst) /\ RoutingCost(inst, B) \in Nat
    BY CostsWithin
  <2>4. RoutingEnergy(inst, g) > RoutingScale(inst) /\ RoutingEnergy(inst, g) \in Int
    BY <1>3, PenaltyOutweighs DEF n
  <2>5. RoutingScale(inst) \in Int
    BY RoutingNumbers
  <2> QED
    BY <2>2, <2>3, <2>4, <2>5
<1>8. RoutingEnergy(inst, g) = RoutingCost(inst, A) /\ RoutingCost(inst, A) \in Int
  BY <1>3, <1>5, <1>7, PenaltyOutweighs, CostsWithin DEF n
<1> HIDE DEF A
<1>9. ASSUME NEW t \in N
      PROVE  \E r \in DOMAIN inst.routes :
               /\ {s \in A : s[1] = t} = {<<t, r>>}
               /\ EligibleSlot(inst, <<t, r>>)
               /\ \A k \in DOMAIN inst.routes :
                    EligibleSlot(inst, <<t, k>>) => RouteCost(inst, t, r) <= RouteCost(inst, t, k)
  <2>1. ASSUME NEW k \in DOMAIN inst.routes, EligibleSlot(inst, <<t, k>>)
        PROVE  \E r \in DOMAIN inst.routes :
                 /\ {s \in A : s[1] = t} = {<<t, r>>} /\ EligibleSlot(inst, <<t, r>>)
                 /\ RouteCost(inst, t, r) <= RouteCost(inst, t, k)
    <3>1. \E r \in DOMAIN inst.routes : \E B \in SUBSET Slots(inst) :
            /\ {s \in A : s[1] = t} = {<<t, r>>} /\ EligibleSlot(inst, <<t, r>>)
            /\ OneEach(inst, B)
            /\ RoutingCost(inst, A) - RouteCost(inst, t, r) =
                 RoutingCost(inst, B) - RouteCost(inst, t, k)
      <4>1. MayExchange(inst, A, t, k)
        BY <1>5, <1>7, <2>1, Exchanged
      <4> QED
        BY <4>1 DEF MayExchange
    <3>2. PICK r \in DOMAIN inst.routes, B \in SUBSET Slots(inst) :
            /\ {s \in A : s[1] = t} = {<<t, r>>} /\ EligibleSlot(inst, <<t, r>>)
            /\ OneEach(inst, B)
            /\ RoutingCost(inst, A) - RouteCost(inst, t, r) =
                 RoutingCost(inst, B) - RouteCost(inst, t, k)
      BY <3>1
    <3>3. RoutingCost(inst, A) <= RoutingCost(inst, B)
      BY <1>6, <1>8, <3>2
    <3>4. RoutingCost(inst, B) \in Int
      BY CostsWithin
    <3>5. <<t, r>> \in Slots(inst) /\ <<t, k>> \in Slots(inst)
      BY DEF Slots
    <3>6. \A s \in Slots(inst) : RouteCost(inst, s[1], s[2]) \in Int
      BY RoutingNumbers
    <3>7. RouteCost(inst, t, r) \in Int /\ RouteCost(inst, t, k) \in Int
      <4>1. RouteCost(inst, <<t, r>>[1], <<t, r>>[2]) \in Int
            /\ RouteCost(inst, <<t, k>>[1], <<t, k>>[2]) \in Int
        BY <3>5, <3>6
      <4> QED
        BY <4>1
    <3>8. RouteCost(inst, t, r) <= RouteCost(inst, t, k)
      BY <1>8, <3>2, <3>3, <3>4, <3>7
    <3> QED
      BY <3>2, <3>8
  <2>2. PICK k \in DOMAIN inst.routes : EligibleSlot(inst, <<t, k>>)
    <3>1. inst.transactions[t] \in ToSet(inst.transactions)
      BY DEF ToSet
    <3> QED
      BY <3>1 DEF IsServed, EligibleSlot
  <2>3. PICK r \in DOMAIN inst.routes :
          {s \in A : s[1] = t} = {<<t, r>>} /\ EligibleSlot(inst, <<t, r>>)
    BY <2>1, <2>2
  <2>4. ASSUME NEW l \in DOMAIN inst.routes, EligibleSlot(inst, <<t, l>>)
        PROVE  RouteCost(inst, t, r) <= RouteCost(inst, t, l)
    <3>1. PICK u \in DOMAIN inst.routes :
            {s \in A : s[1] = t} = {<<t, u>>} /\ RouteCost(inst, t, u) <= RouteCost(inst, t, l)
      BY <2>1, <2>4
    <3>2. {<<t, r>>} = {<<t, u>>}
      BY <2>3, <3>1
    <3>3. r = u
      <4>1. <<t, r>> = <<t, u>>
        BY <3>2, Zenon
      <4> QED
        BY <4>1
    <3> QED
      BY <3>1, <3>3
  <2> QED
    BY <2>3, <2>4
<1> QED
  BY <1>9 DEF GroundIsCheapest, A, g, q

-----------------------------------------------------------------------------
(* The ladder                                                              *)

\* Flipping a bit adds Delta to the energy.
LEMMA FlipAdds ==
  ASSUME IsQubo(qubo), bits \in Bits(qubo.n), NEW i \in 1..qubo.n
  PROVE  Energy(qubo, [bits EXCEPT ![i] = 1 - @]) = Energy(qubo, bits) + Delta(i)
<1> DEFINE n == qubo.n
           V == 1..n
           c == [bits EXCEPT ![i] = 1 - @]
           w == [j \in V \ {i} |-> qubo.Q[Pair(i, j)] * bits[j]]
           on == {j \in V \ {i} : bits[j] = 1}
           links == [j \in on |-> Coupling(i, j)]
           W == SumFunctionOnSet(w, V \ {i})
           others(a) == SumFunctionOnSet(Terms(qubo, a), Within(V \ {i}))
<1>1. /\ n \in Nat /\ IsFiniteSet(V \ {i}) /\ i \in Int
      /\ bits \in [V -> {0, 1}] /\ bits[i] \in {0, 1}
  <2>1. n \in Nat /\ bits \in [V -> {0, 1}]
    BY DEF IsQubo, Bits
  <2>2. V \ {i} \in SUBSET (1..n) /\ i \in Int
    BY <2>1
  <2>3. IsFiniteSet(V \ {i})
    BY <2>1, <2>2, PairsFinite
  <2> QED
    BY <2>1, <2>2, <2>3
<1>2. c \in Bits(n) /\ c[i] = 1 - bits[i] /\ \A j \in V \ {i} : c[j] = bits[j]
  BY <1>1 DEF Bits
<1>3. ASSUME NEW j \in V \ {i}
      PROVE  /\ Pair(i, j) \in Pairs(n) /\ qubo.Q[Pair(i, j)] \in Int
             /\ Coupling(i, j) = qubo.Q[Pair(i, j)]
  <2>1. Pair(i, j) \in Pairs(n)
    BY DEF Pair, Pairs
  <2> QED
    BY <2>1, CouplingPair DEF Coupling, IsQubo
<1>4. \A j \in V \ {i} : w[j] \in Int
  BY <1>1, <1>3
<1> HIDE DEF c
<1>5. ASSUME NEW a \in Bits(n)
      PROVE  /\ Energy(qubo, a) =
                  qubo.offset + others(a) + qubo.Q[<<i, i>>] * a[i]
                    + SumFunctionOnSet([j \in V \ {i} |-> Terms(qubo, a)[Pair(i, j)]], V \ {i})
             /\ others(a) \in Int
  <2>1. Pairs(n) = Within(V) /\ Within(V \ {i}) \subseteq Pairs(n)
         /\ IsFiniteSet(Within(V \ {i}))
    BY <1>1, PairsFinite
  <2>2. <<i, i>> \in Pairs(n) /\ Terms(qubo, a)[<<i, i>>] = qubo.Q[<<i, i>>] * a[i]
    <3>1. <<i, i>> \in Pairs(n)
      BY <1>1 DEF Pairs
    <3>2. qubo.Q[<<i, i>>] \in Int /\ a[i] \in Int /\ a[i] \in {0, 1}
      BY <1>1, <3>1, BitsAre DEF IsQubo
    <3> QED
      BY <3>1, <3>2 DEF Terms
  <2>3. \A p \in Pairs(n) : Terms(qubo, a)[p] \in Int
    BY TermsAre
  <2>4. Energy(qubo, a) = qubo.offset + SumFunctionOnSet(Terms(qubo, a), Pairs(n))
    BY TermsAre
  <2> DEFINE t == Terms(qubo, a)
             g == [j \in V \ {i} |-> t[Pair(i, j)]]
             raysum == SumFunctionOnSet(g, V \ {i})
  <2>5. SumFunctionOnSet(t, Within(V)) =
          SumFunctionOnSet(t, Within(V \ {i})) + t[<<i, i>>] + raysum
    <3>1. V \in SUBSET (1..n) /\ i \in V /\ n \in Nat /\ \A p \in Pairs(n) : t[p] \in Int
      BY <1>1, <2>3
    <3>2. \A j \in V \ {i} : g[j] = t[Pair(i, j)]
      OBVIOUS
    <3> DEFINE rest == V \ {i}
    <3> HIDE DEF t, V, n, g
    <3>3. IsStar(t, g, n, V, i, rest)
      BY <3>1, <3>2 DEF IsStar
    <3> HIDE DEF rest
    <3>4. SumFunctionOnSet(t, Within(V)) =
            SumFunctionOnSet(t, Within(rest)) + t[<<i, i>>] + SumFunctionOnSet(g, rest)
      BY <3>3, SumStar
    <3> QED
      BY <3>4 DEF rest
  <2>6. others(a) \in Int /\ raysum \in Int
    <3>1. \A j \in V \ {i} : t[Pair(i, j)] \in Int
      BY <1>3, <2>3
    <3> HIDE DEF t
    <3> QED
      BY <1>1, <2>1, <2>3, <3>1, SumType DEF t
  <2>7. t[<<i, i>>] \in Int
    BY <2>2, <2>3
  <2> HIDE DEF raysum, others, t
  <2>8. Energy(qubo, a) = qubo.offset + others(a) + t[<<i, i>>] + raysum
    BY <2>1, <2>4, <2>5, <2>6, <2>7 DEF t, others, IsQubo
  <2> QED
    BY <2>2, <2>6, <2>8 DEF raysum, t
<1>6. others(c) = others(bits)
  <2> DEFINE R == Within(V \ {i})
  <2>1. IsFiniteSet(R) /\ R \subseteq Pairs(n)
    BY <1>1, PairsFinite
  <2>2. \A p \in R : Terms(qubo, c)[p] = Terms(qubo, bits)[p]
    <3> TAKE p \in R
    <3>1. p \in Pairs(n) /\ p[1] \in V \ {i} /\ p[2] \in V \ {i}
      BY <2>1 DEF Within
    <3> QED
      BY <1>2, <3>1 DEF Terms
  <2>3. \A p \in R : Terms(qubo, bits)[p] \in Int
    BY <2>1, TermsAre
  <2> HIDE DEF R
  <2>4. SumFunctionOnSet(Terms(qubo, c), R) = SumFunctionOnSet(Terms(qubo, bits), R)
    BY <2>1, <2>2, <2>3, SumAgree DEF Summable
  <2> QED
    BY <2>4 DEF R
<1>7. ASSUME NEW a \in Bits(n), \A j \in V \ {i} : a[j] = bits[j]
      PROVE  SumFunctionOnSet([j \in V \ {i} |-> Terms(qubo, a)[Pair(i, j)]], V \ {i}) = a[i] * W
  <2> DEFINE rays == [j \in V \ {i} |-> Terms(qubo, a)[Pair(i, j)]]
  <2>1. a[i] \in Int
    BY <1>1, BitsAre
  <2>2. \A j \in V \ {i} : rays[j] = a[i] * w[j]
    <3> TAKE j \in V \ {i}
    <3>1. bits[j] \in Int /\ a[j] = bits[j] /\ qubo.Q[Pair(i, j)] \in Int
      BY <1>1, <1>3, <1>7
    <3>2. Terms(qubo, a)[Pair(i, j)] = qubo.Q[Pair(i, j)] * a[i] * a[j]
      <4>1. Terms(qubo, a)[Pair(i, j)] =
              qubo.Q[Pair(i, j)] * a[Pair(i, j)[1]] * a[Pair(i, j)[2]]
        BY <1>3 DEF Terms
      <4> QED
        BY <2>1, <3>1, <4>1 DEF Pair
    <3> QED
      BY <2>1, <3>1, <3>2
  <2> HIDE DEF rays, w
  <2>3. SumFunctionOnSet(rays, V \ {i}) = a[i] * SumFunctionOnSet(w, V \ {i})
    BY <1>1, <1>4, <2>1, <2>2, SumScale DEF Summable
  <2> QED
    BY <2>3 DEF rays
<1>8. W = SumFunctionOnSet(links, on) /\ W \in Int
  <2>1. on \in SUBSET (V \ {i}) /\ IsFiniteSet(on)
    BY <1>1, FS_Subset
  <2>2. \A j \in on : links[j] \in Int /\ w[j] = links[j]
    BY <1>3
  <2>3. \A j \in (V \ {i}) \ on : w[j] = 0
    BY <1>1, <1>3
  <2> HIDE DEF links, w, on
  <2>4. SumFunctionOnSet(w, V \ {i}) = SumFunctionOnSet(w, on)
    BY <1>1, <2>1, <2>2, <2>3, SumZeros DEF Summable
  <2>5. SumFunctionOnSet(w, on) = SumFunctionOnSet(links, on)
    BY <2>1, <2>2, SumAgree DEF Summable
  <2> QED
    BY <1>1, <1>4, <2>4, <2>5, SumType
<1>9. Delta(i) = (1 - 2 * bits[i]) * (qubo.Q[<<i, i>>] + W)
  BY <1>8 DEF Delta, SumFunction
<1> HIDE DEF W, others
<1>10. Energy(qubo, bits) = qubo.offset + others(bits) + qubo.Q[<<i, i>>] * bits[i] + bits[i] * W
  BY <1>5, <1>7
<1>11. Energy(qubo, c) = qubo.offset + others(bits) + qubo.Q[<<i, i>>] * c[i] + c[i] * W
  BY <1>2, <1>5, <1>6, <1>7
<1>12. qubo.offset \in Int /\ others(bits) \in Int /\ qubo.Q[<<i, i>>] \in Int
  <2>1. <<i, i>> \in Pairs(n)
    BY <1>1 DEF Pairs
  <2> QED
    BY <1>1, <1>5, <2>1 DEF IsQubo
<1>13. Energy(qubo, c) = Energy(qubo, bits) + Delta(i)
  <2>1. CASE bits[i] = 0
    BY <1>2, <1>8, <1>9, <1>10, <1>11, <1>12, <2>1
  <2>2. CASE bits[i] = 1
    BY <1>2, <1>8, <1>9, <1>10, <1>11, <1>12, <2>2
  <2> QED
    BY <1>1, <2>1, <2>2
<1> QED
  BY <1>13 DEF c

\* Whatever the planner reduces a specification to, it encodes with integers.
LEMMA BuildIsQubo ==
  ASSUME NEW p \in Specs
  PROVE  IsQubo(Build(p, Reduce(p)))
<1>1. CASE IsCollateralSpec(p)
  <2>1. p.domain = "collateral" /\ p.maxQubits \in Nat
    BY <1>1 DEF IsCollateralSpec
  <2> DEFINE inst == CollateralInstance(p)
             offered == OfferedSlack(p, inst)
  <2>2. IsPool(inst) /\ Len(inst.securities) <= p.maxQubits
    BY <1>1, CollateralReduces
  <2>3. Reduce(p) = inst /\ Build(p, inst) = CollateralQubo(inst, offered)
    BY <2>1 DEF Reduce, Build
  <2> HIDE DEF inst
  <2>4. Len(inst.securities) \in Nat
    BY <2>2, LenProperties DEF IsPool
  <2>5. offered \in Nat
    BY <2>1, <2>2, <2>4, SlackFits
  <2> HIDE DEF offered
  <2> QED
    BY <2>2, <2>3, <2>5, CollateralIsQubo
<1>2. CASE IsSettlementSpec(p)
  <2>1. p.domain = "settlement"
    BY <1>2 DEF IsSettlementSpec
  <2> DEFINE inst == SettlementInstance(p)
  <2>2. IsBatch(inst)
    BY <1>2, SettlementReduces
  <2>3. Reduce(p) = inst /\ Build(p, inst) = SettlementQubo(inst)
    BY <2>1 DEF Reduce, Build
  <2> HIDE DEF inst
  <2> QED
    BY <2>2, <2>3, SettlementIsQubo
<1>3. CASE IsRoutingSpec(p)
  <2>1. p.domain = "routing"
    BY <1>3 DEF IsRoutingSpec
  <2> DEFINE inst == RoutingInstance(p)
  <2>2. IsNet(inst)
    BY <1>3, RoutingReduces
  <2>3. Reduce(p) = inst /\ Build(p, inst) = RoutingQubo(inst)
    BY <2>1 DEF Reduce, Build
  <2> HIDE DEF inst
  <2> QED
    BY <2>2, <2>3, RoutingIsQubo
<1> QED
  BY <1>1, <1>2, <1>3, SpecsAssumption

\* The rows of the integer program and the check of the domain agree on what is planned,
\* unless it is degenerate.
LEMMA RowsAreChecked ==
  ASSUME NEW p \in Specs, ~Reduce(p).degenerate, NEW alloc \in SUBSET Items(p, Reduce(p))
  PROVE  Rows(p, Reduce(p), alloc) <=> Check(p, Reduce(p), alloc)
<1>1. CASE IsCollateralSpec(p)
  <2>1. p.domain = "collateral"
    BY <1>1 DEF IsCollateralSpec
  <2> DEFINE inst == CollateralInstance(p)
  <2>2. IsPool(inst) /\ Reduce(p) = inst
    BY <1>1, <2>1, CollateralReduces DEF Reduce
  <2> HIDE DEF inst
  <2>3. alloc \in SUBSET (DOMAIN inst.securities)
    BY <2>1, <2>2 DEF Items
  <2>4. CollateralRows(inst, alloc) <=> CollateralCheck(inst, alloc)
    BY <2>2, <2>3, CollateralChecksRows
  <2> QED
    BY <2>1, <2>2, <2>4 DEF Rows, Check
<1>2. CASE IsSettlementSpec(p)
  <2>1. p.domain = "settlement"
    BY <1>2 DEF IsSettlementSpec
  <2> DEFINE inst == SettlementInstance(p)
  <2>2. IsBatch(inst) /\ Reduce(p) = inst
    BY <1>2, <2>1, SettlementReduces DEF Reduce
  <2> HIDE DEF inst
  <2>3. alloc \in SUBSET (DOMAIN inst.obligations)
    BY <2>1, <2>2 DEF Items
  <2>4. SettlementRows(inst, alloc) <=> SettlementCheck(inst, alloc)
    BY <2>2, <2>3, SettlementChecksRows
  <2> QED
    BY <2>1, <2>2, <2>4 DEF Rows, Check
<1>3. CASE IsRoutingSpec(p)
  <2>1. p.domain = "routing"
    BY <1>3 DEF IsRoutingSpec
  <2> DEFINE inst == RoutingInstance(p)
  <2>2. IsNet(inst) /\ Reduce(p) = inst
    BY <1>3, <2>1, RoutingReduces DEF Reduce
  <2> HIDE DEF inst
  <2>3. alloc \in SUBSET Slots(inst)
    BY <2>1, <2>2 DEF Items
  <2>4. RoutingRows(inst, alloc) <=> RoutingCheck(inst, alloc)
    BY <2>2, <2>3, RoutingChecksRows
  <2> QED
    BY <2>1, <2>2, <2>4 DEF Rows, Check
<1> QED
  BY <1>1, <1>2, <1>3, SpecsAssumption

\* The plan is the one for the problem.
Planned ==
  phase # "planning" => instance = Reduce(problem) /\ qubo = Build(problem, instance)

\* The annealer's bits and best bits are bit strings, with the energies it carries along;
\* while it sweeps it has a best, no worse than where it stands.
Searching ==
  /\ phase \in {"restarting", "restarted", "annealing"} => qubo.n > 0
  /\ phase \in {"restarted", "annealing"} =>
       bits \in Bits(qubo.n) /\ energy = Energy(qubo, bits)
  /\ best = <<>> => bestEnergy = None
  /\ best # <<>> => best \in Bits(qubo.n) /\ bestEnergy = Energy(qubo, best)
  /\ phase \in {"planning", "planned", "solved"} => best = <<>>
  /\ phase = "annealing" => best # <<>> /\ bestEnergy <= energy

\* The inductive invariant of the ladder.
LadderInv ==
  /\ problem \in Specs
  /\ phase \in {"planning", "planned", "solved", "restarting", "restarted", "annealing", "done"}
  /\ Planned
  /\ Searching

\* What is planned is an encoding with integer coefficients.
LEMMA PlannedIsQubo ==
  ASSUME LadderInv, phase # "planning"
  PROVE  IsQubo(qubo)
BY BuildIsQubo DEF LadderInv, Planned

\* The invariant holds initially,
LEMMA LadderStarts == Init => LadderInv
BY DEF Init, LadderInv, Planned, Searching

\* and every step keeps it.
LEMMA LadderSteps == LadderInv /\ [Next]_ladderVars => LadderInv'
<1> SUFFICES ASSUME LadderInv, [Next]_ladderVars
             PROVE  LadderInv'
  OBVIOUS
<1>1. CASE Plan
  <2>1. phase = "planning" /\ instance' = Reduce(problem) /\ qubo' = Build(problem, instance')
        /\ phase' = "planned" /\ UNCHANGED <<problem, bits, energy, best, bestEnergy>>
    BY <1>1 DEF Plan, search
  <2>2. best = <<>> /\ bestEnergy = None
    BY <2>1 DEF LadderInv, Searching
  <2>3. Planned'
    BY <2>1 DEF Planned
  <2>4. Searching'
    BY <2>1, <2>2 DEF Searching
  <2> QED
    BY <2>1, <2>3, <2>4 DEF LadderInv
<1>2. CASE SolveInstance
  <2>1. /\ phase = "planned" /\ phase' = "solved"
        /\ UNCHANGED <<problem, instance, qubo, bits, energy, best, bestEnergy>>
    BY <1>2 DEF SolveInstance, search
  <2> QED
    BY <2>1 DEF LadderInv, Planned, Searching
<1>3. CASE SolveExactly
  <2>1. /\ phase = "solved" /\ phase' = IF qubo.n > 0 THEN "restarting" ELSE "done"
        /\ UNCHANGED <<problem, instance, qubo, bits, energy, best, bestEnergy>>
    BY <1>3 DEF SolveExactly, search
  <2> QED
    BY <2>1 DEF LadderInv, Planned, Searching
<1>4. CASE Restart
  <2>1. /\ phase = "restarting" /\ phase' = "restarted"
        /\ \E b \in Bits(qubo.n) : bits' = b /\ energy' = Energy(qubo, b)
        /\ UNCHANGED <<problem, instance, qubo, best, bestEnergy>>
    BY <1>4 DEF Restart
  <2> QED
    BY <2>1 DEF LadderInv, Planned, Searching
<1>5. CASE Sweep
  <2>1. /\ phase \in {"restarted", "annealing"} /\ phase' = "annealing"
        /\ UNCHANGED <<problem, instance, qubo>>
    BY <1>5 DEF Sweep
  <2>2. IsQubo(qubo) /\ bits \in Bits(qubo.n) /\ energy = Energy(qubo, bits) /\ qubo.n > 0
    BY <2>1, PlannedIsQubo DEF LadderInv, Searching
  <2>3. qubo.n \in Nat
    BY <2>2 DEF IsQubo
  <2>4. PICK i \in 1..qubo.n, accepted \in BOOLEAN :
          /\ bits' = IF accepted THEN [bits EXCEPT ![i] = 1 - @] ELSE bits
          /\ energy' = IF accepted THEN energy + Delta(i) ELSE energy
    BY <1>5 DEF Sweep
  <2>5. bits' \in Bits(qubo.n)
    <3>1. bits[i] \in {0, 1}
      BY <2>2 DEF Bits
    <3>2. 1 - bits[i] \in {0, 1}
      BY <3>1
    <3> QED
      BY <2>2, <2>4, <3>2 DEF Bits
  <2>6. energy' = Energy(qubo, bits')
    BY <2>2, <2>4, FlipAdds
  <2>7. energy' \in Int
    BY <2>2, <2>5, <2>6, TermsAre
  <2>8. bits' # <<>>
    BY <2>2, <2>3, <2>5, BitsAreSome
  <2>9. LET better == IF bestEnergy = None THEN TRUE ELSE energy' < bestEnergy
        IN /\ best' = IF better THEN bits' ELSE best
           /\ bestEnergy' = IF better THEN energy' ELSE bestEnergy
    BY <1>5 DEF Sweep
  <2>10. /\ best' # <<>> /\ best' \in Bits(qubo.n) /\ bestEnergy' = Energy(qubo, best')
         /\ bestEnergy' <= energy'
    <3>1. CASE bestEnergy = None \/ energy' < bestEnergy
      <4>1. best' = bits' /\ bestEnergy' = energy'
        BY <2>9, <3>1
      <4> QED
        BY <2>5, <2>6, <2>7, <2>8, <4>1
    <3>2. CASE bestEnergy # None /\ ~(energy' < bestEnergy)
      <4>1. best' = best /\ bestEnergy' = bestEnergy
        BY <2>9, <3>2
      <4>2. best # <<>> /\ best \in Bits(qubo.n) /\ bestEnergy = Energy(qubo, best)
        BY <3>2 DEF LadderInv, Searching
      <4>3. bestEnergy \in Int
        BY <2>2, <4>2, TermsAre
      <4>4. bestEnergy <= energy'
        BY <2>7, <3>2, <4>3
      <4> QED
        BY <4>1, <4>2, <4>4
    <3> QED
      BY <3>1, <3>2
  <2>11. Planned' /\ problem' \in Specs
    BY <2>1 DEF LadderInv, Planned
  <2>12. Searching'
    BY <2>1, <2>2, <2>5, <2>6, <2>10 DEF Searching
  <2> QED
    BY <2>1, <2>11, <2>12 DEF LadderInv
<1>6. CASE EndRestart
  <2>1. /\ phase = "annealing" /\ phase' = "restarting"
        /\ UNCHANGED <<problem, instance, qubo, best, bestEnergy>>
    BY <1>6 DEF EndRestart
  <2> QED
    BY <2>1 DEF LadderInv, Planned, Searching
<1>7. CASE Stop
  <2>1. /\ phase = "annealing" /\ phase' = "done" /\ bestEnergy' = Energy(qubo, best)
        /\ UNCHANGED <<problem, instance, qubo, best>>
    BY <1>7 DEF Stop
  <2>2. best # <<>>
    BY <2>1 DEF LadderInv, Searching
  <2> QED
    BY <2>1, <2>2 DEF LadderInv, Planned, Searching
<1>8. CASE UNCHANGED ladderVars
  BY <1>8 DEF ladderVars, search, LadderInv, Planned, Searching
<1> QED
  BY <1>1, <1>2, <1>3, <1>4, <1>5, <1>6, <1>7, <1>8 DEF Next, Done

\* The invariant of the ladder, whatever the specifications: the encoding is that of the
\* problem, and the annealer knows the energies of its bit strings.
THEOREM LadderHolds == Spec => []LadderInv
BY LadderStarts, LadderSteps, PTL DEF Spec

\* LadderInv implies AnnealingTracks,
LEMMA InvAnneals == LadderInv => AnnealingTracks
BY DEF LadderInv, Searching, AnnealingTracks

\* simulated_annealing_qubo adds up differences of energies and never recomputes them while
\* it runs; for every encoding and every sequence of flips they are the energies of its bits
\* and of the best it has seen (AnnealingTracks).
THEOREM EnergiesAreTracked == Spec => []AnnealingTracks
BY LadderHolds, InvAnneals, PTL

\* LadderInv implies IsingAgrees,
LEMMA InvIsing == LadderInv => IsingAgrees
<1> SUFFICES ASSUME LadderInv, phase = "planned"
             PROVE  LET H == Ising(qubo)
                    IN \A b \in Bits(qubo.n) : 4 * Energy(qubo, b) = IsingEnergy(H, Spins(b))
  BY DEF IsingAgrees
<1>1. IsQubo(qubo)
  BY PlannedIsQubo
<1> QED
  BY <1>1, IsingExact

\* qubo_to_ising keeps the energy of every bit string, for the encoding of every
\* specification (IsingAgrees).
THEOREM IsingIsTheQubo == Spec => []IsingAgrees
BY LadderHolds, InvIsing, PTL

\* LadderInv implies FitsBudget, domain by domain,
LEMMA InvFits == LadderInv => FitsBudget
<1> SUFFICES ASSUME LadderInv, phase = "planned" PROVE FitsBudget
  BY DEF FitsBudget
<1> DEFINE p == problem
           T == problem.obligations
<1>1. p \in Specs /\ instance = Reduce(p) /\ qubo = Build(p, instance)
  BY DEF LadderInv, Planned
<1>2. CASE IsCollateralSpec(p)
  <2>1. p.domain = "collateral" /\ p.maxQubits \in Nat
    BY <1>2 DEF IsCollateralSpec
  <2> DEFINE offered == OfferedSlack(p, instance)
             k == SlackUsed(instance, offered)
             n == Len(instance.securities)
  <2>2. IsPool(instance) /\ n <= p.maxQubits
    BY <1>1, <1>2, <2>1, CollateralReduces DEF Reduce
  <2>3. qubo = CollateralQubo(instance, offered)
    BY <1>1, <2>1 DEF Build
  <2>4. n \in Nat
    BY <2>2, LenProperties DEF IsPool
  <2>5. offered \in Nat /\ n + offered <= p.maxQubits
    BY <2>1, <2>2, <2>4, SlackFits
  <2> HIDE DEF offered
  <2>6. k = offered \/ k = 0
    BY DEF SlackUsed
  <2>7. qubo = NoEncoding \/ qubo.n = n + k
    BY <2>2, <2>3, <2>5, CollateralEncodes
  <2>8. NoEncoding.n = 0
    BY DEF NoEncoding, Encoding
  <2> HIDE DEF k, n
  <2>9. n + k <= p.maxQubits
    BY <2>1, <2>2, <2>4, <2>5, <2>6
  <2>10. qubo.n <= problem.maxQubits
    BY <2>1, <2>7, <2>8, <2>9
  <2> QED
    BY <2>1, <2>10 DEF FitsBudget
<1>3. CASE IsSettlementSpec(p)
  <2>1. p.domain = "settlement"
    BY <1>3 DEF IsSettlementSpec
  <2>2. /\ IsBatch(instance) /\ SettlementSize(instance) <= p.maxQubits
        /\ p.maxQubits >= 3 =>
             /\ instance.slackBits > 0
             /\ \A o \in ToSet(T) :
                  \/ o \in ToSet(instance.obligations)
                  \/ Len(instance.obligations) + 1 + Len(Involve(instance.parties, o)) > p.maxQubits
    BY <1>1, <1>3, <2>1, SettlementReduces DEF Reduce
  <2>3. qubo = SettlementQubo(instance)
    BY <1>1, <2>1 DEF Build
  <2>4. qubo.n <= problem.maxQubits
    BY <2>2, <2>3, SettlementEncodes
  <2>5. \A i \in DOMAIN T : T[i] \in ToSet(T)
    BY DEF ToSet
  <2> QED
    BY <2>1, <2>2, <2>4, <2>5 DEF FitsBudget
<1>4. CASE IsRoutingSpec(p)
  <2>1. p.domain = "routing" /\ p.maxQubits \in Nat
    BY <1>4 DEF IsRoutingSpec
  <2> DEFINE n == Len(instance.transactions) * Len(instance.routes)
  <2>2. IsNet(instance) /\ (n <= p.maxQubits \/ Len(instance.transactions) = 1)
    BY <1>1, <1>4, <2>1, RoutingReduces DEF Reduce
  <2>3. qubo = RoutingQubo(instance)
    BY <1>1, <2>1 DEF Build
  <2>4. qubo = NoEncoding \/ qubo.n = n
    BY <2>2, <2>3, RoutingEncodes
  <2>5. NoEncoding.n = 0
    BY DEF NoEncoding, Encoding
  <2> HIDE DEF n
  <2>6. qubo.n <= problem.maxQubits \/ Len(instance.transactions) = 1
    BY <2>1, <2>2, <2>4, <2>5
  <2> QED
    BY <2>1, <2>6 DEF FitsBudget
<1> QED
  BY <1>1, <1>2, <1>3, <1>4, SpecsAssumption

\* The reductions and the planner's slack keep to max_effective_qubits, for inventories,
\* queues and networks of any size (FitsBudget).
THEOREM PlansFit == Spec => []FitsBudget
BY LadderHolds, InvFits, PTL

\* LadderInv implies EncodingExact, domain by domain,
LEMMA InvExact == LadderInv => EncodingExact
<1> DEFINE p == problem
<1> SUFFICES ASSUME LadderInv, phase = "planned", NEW b \in Bits(qubo.n), qubo.n > 0
             PROVE  Energy(qubo, b) =
                      CASE p.domain = "collateral" ->
                             CollateralEnergy(instance, OfferedSlack(p, instance), b)
                        [] p.domain = "settlement" -> SettlementEnergy(instance, b)
                        [] p.domain = "routing" -> RoutingEnergy(instance, b)
  BY DEF EncodingExact
<1>1. p \in Specs /\ instance = Reduce(p) /\ qubo = Build(p, instance)
  BY DEF LadderInv, Planned
<1>2. CASE IsCollateralSpec(p)
  <2>1. p.domain = "collateral" /\ p.maxQubits \in Nat
    BY <1>2 DEF IsCollateralSpec
  <2> DEFINE offered == OfferedSlack(p, instance)
  <2>2. IsPool(instance) /\ Len(instance.securities) <= p.maxQubits
    BY <1>1, <1>2, <2>1, CollateralReduces DEF Reduce
  <2>3. qubo = CollateralQubo(instance, offered)
    BY <1>1, <2>1 DEF Build
  <2>4. Len(instance.securities) \in Nat
    BY <2>2, LenProperties DEF IsPool
  <2>5. offered \in Nat
    BY <2>1, <2>2, <2>4, SlackFits
  <2>6. (CASE p.domain = "collateral" -> CollateralEnergy(instance, offered, b)
           [] p.domain = "settlement" -> SettlementEnergy(instance, b)
           [] p.domain = "routing" -> RoutingEnergy(instance, b)) =
        CollateralEnergy(instance, offered, b)
    BY <2>1
  <2> HIDE DEF offered
  <2>7. Energy(qubo, b) = CollateralEnergy(instance, offered, b)
    BY <2>2, <2>3, <2>5, CollateralExact
  <2> QED
    BY <2>6, <2>7 DEF offered
<1>3. CASE IsSettlementSpec(p)
  <2>1. p.domain = "settlement"
    BY <1>3 DEF IsSettlementSpec
  <2>2. IsBatch(instance)
    BY <1>1, <1>3, <2>1, SettlementReduces DEF Reduce
  <2>3. qubo = SettlementQubo(instance)
    BY <1>1, <2>1 DEF Build
  <2>4. Energy(qubo, b) = SettlementEnergy(instance, b)
    BY <2>2, <2>3, SettlementExact
  <2> QED
    BY <2>1, <2>4
<1>4. CASE IsRoutingSpec(p)
  <2>1. p.domain = "routing"
    BY <1>4 DEF IsRoutingSpec
  <2>2. IsNet(instance)
    BY <1>1, <1>4, <2>1, RoutingReduces DEF Reduce
  <2>3. qubo = RoutingQubo(instance)
    BY <1>1, <2>1 DEF Build
  <2>4. Energy(qubo, b) = RoutingEnergy(instance, b)
    BY <2>2, <2>3, RoutingExact
  <2> QED
    BY <2>1, <2>4
<1> QED
  BY <1>1, <1>2, <1>3, <1>4, SpecsAssumption

\* The coefficients that build_qubo, build_settlement_qubo and build_routing_qubo compute
\* say what they are meant to say: for every specification and every bit string the energy is
\* the penalty for what is violated plus the cost (EncodingExact).
THEOREM EncodingsAreExact == Spec => []EncodingExact
BY LadderHolds, InvExact, PTL

\* What solve_instance_classical returned: an optimum of the integer program, with the
\* verdict of the check, or the result that stands for none.
Optimum ==
  phase = "solved" =>
    \/ /\ milp = Infeasible
       /\ \A c \in SUBSET Items(problem, instance) : ~Rows(problem, instance, c)
    \/ \E a \in SUBSET Items(problem, instance) :
         /\ Rows(problem, instance, a) /\ milp = Outcome(a)
         /\ \A c \in SUBSET Items(problem, instance) :
              Rows(problem, instance, c) =>
                CostOf(problem, instance, a) <= CostOf(problem, instance, c)

\* Every step keeps that.
LEMMA OptimumIsKept == Optimum /\ [Next]_ladderVars => Optimum'
<1> SUFFICES ASSUME Optimum, [Next]_ladderVars
             PROVE  Optimum'
  OBVIOUS
<1>1. CASE SolveInstance
  <2> DEFINE all == SUBSET Items(problem, instance)
             admitted == {a \in all : Rows(problem, instance, a)}
             Cost(a) == CostOf(problem, instance, a)
  <2>1. /\ \/ admitted = {} /\ milp' = Infeasible
           \/ \E a \in admitted : (\A c \in admitted : Cost(a) <= Cost(c)) /\ milp' = Outcome(a)
        /\ problem' = problem /\ instance' = instance
    BY <1>1 DEF SolveInstance
  <2>2. CASE admitted = {} /\ milp' = Infeasible
    <3>1. \A c \in all : ~Rows(problem, instance, c)
      BY <2>2
    <3>2. Infeasible' = Infeasible
      BY DEF Infeasible
    <3> QED
      BY <2>1, <2>2, <3>1, <3>2 DEF Optimum
  <2>3. ASSUME NEW a \in admitted, \A c \in admitted : Cost(a) <= Cost(c), milp' = Outcome(a)
        PROVE  Optimum'
    <3>1. Outcome(a)' = Outcome(a)
      BY <2>1 DEF Outcome
    <3> QED
      BY <2>1, <2>3, <3>1 DEF Optimum
  <2> QED
    BY <2>1, <2>2, <2>3
<1>2. CASE UNCHANGED ladderVars
  <2>1. UNCHANGED <<phase, problem, instance, milp>>
    BY <1>2 DEF ladderVars, results
  <2> QED
    BY <2>1 DEF Optimum, Outcome, Infeasible
<1>3. CASE Plan \/ SolveExactly \/ Restart \/ Sweep \/ EndRestart \/ Stop
  <2>1. phase' # "solved"
    BY <1>3 DEF Plan, SolveExactly, Restart, Sweep, EndRestart, Stop
  <2> QED
    BY <2>1 DEF Optimum
<1> QED
  BY <1>1, <1>2, <1>3 DEF Next, Done

\* An optimum of rows that agree with the check is the cheapest that passes the check.
LEMMA InvFair == LadderInv /\ Optimum => ClassicalIsFair
<1> DEFINE p == problem
           all == SUBSET Items(p, instance)
<1> SUFFICES ASSUME LadderInv, Optimum, phase = "solved", ~instance.degenerate
             PROVE  /\ \A a \in all : Check(p, instance, a) =>
                         milp.feasible /\ milp.cost <= CostOf(p, instance, a)
                    /\ milp.cost # None => milp.feasible
  BY DEF ClassicalIsFair
<1>1. p \in Specs /\ instance = Reduce(p)
  BY DEF LadderInv, Planned
<1>2. \A a \in all : Rows(p, instance, a) <=> Check(p, instance, a)
  BY <1>1, RowsAreChecked
<1>3. CASE milp = Infeasible /\ \A c \in all : ~Rows(p, instance, c)
  <2>1. milp.cost = None
    BY <1>3 DEF Infeasible
  <2> HIDE DEF all
  <2> QED
    BY <1>2, <1>3, <2>1
<1>4. ASSUME NEW a \in all, Rows(p, instance, a), milp = Outcome(a),
             \A c \in all : Rows(p, instance, c) =>
               CostOf(p, instance, a) <= CostOf(p, instance, c)
      PROVE  /\ milp.feasible
             /\ \A c \in all : Check(p, instance, c) => milp.cost <= CostOf(p, instance, c)
  <2>1. milp.cost = CostOf(p, instance, a) /\ milp.feasible = Check(p, instance, a)
    BY <1>4 DEF Outcome
  <2>2. Check(p, instance, a)
    BY <1>2, <1>4
  <2>3. milp.feasible
    BY <2>1, <2>2, Zenon
  <2>4. \A c \in all : Check(p, instance, c) => milp.cost <= CostOf(p, instance, c)
    BY <1>2, <1>4, <2>1
  <2> QED
    BY <2>3, <2>4
<1> QED
  BY <1>3, <1>4 DEF Optimum

\* The classical comparator is fair, for every specification: no allocation passes the check
\* of the domain and is cheaper than instance_milp, which passes it itself if anything does
\* (ClassicalIsFair).
THEOREM ComparatorIsFair == Spec => []ClassicalIsFair
<1>1. Init => Optimum
  BY DEF Init, Optimum
<1>2. Optimum /\ [Next]_ladderVars => Optimum'
  BY OptimumIsKept
<1>3. LadderInv /\ Optimum => ClassicalIsFair
  BY InvFair
<1> QED
  BY <1>1, <1>2, <1>3, LadderHolds, PTL DEF Spec

\* What the second rung returned: the ground state of the encoding, decoded.
ExactIsGround ==
  exact # None =>
    /\ phase \notin {"planning", "planned", "solved"}
    /\ qubo.n \in 1..BruteforceLimit
    /\ exact = Outcome(Decode(problem, instance, BruteForce(qubo)))

\* Every step keeps that.
LEMMA GroundIsKept == ExactIsGround /\ [Next]_ladderVars => ExactIsGround'
<1> SUFFICES ASSUME ExactIsGround, [Next]_ladderVars
             PROVE  ExactIsGround'
  OBVIOUS
<1>1. CASE SolveExactly
  <2> DEFINE decoded == Outcome(Decode(problem, instance, BruteForce(qubo)))
  <2>1. /\ exact' = IF qubo.n \in 1..BruteforceLimit THEN decoded ELSE None
        /\ phase' \in {"restarting", "done"}
        /\ UNCHANGED <<problem, instance, qubo>>
    BY <1>1 DEF SolveExactly
  <2>2. decoded' = decoded
    BY <2>1 DEF Outcome
  <2> HIDE DEF decoded
  <2>3. exact' # None => exact' = decoded' /\ qubo'.n \in 1..BruteforceLimit
    BY <2>1, <2>2
  <2> QED
    BY <2>1, <2>3 DEF ExactIsGround, decoded
<1>2. CASE UNCHANGED ladderVars
  <2>1. UNCHANGED <<phase, problem, instance, qubo, exact>>
    BY <1>2 DEF ladderVars, results
  <2> QED
    BY <2>1 DEF ExactIsGround, Outcome
<1>3. CASE Restart \/ Sweep \/ EndRestart \/ Stop
  <2>1. /\ phase' \notin {"planning", "planned", "solved"}
        /\ UNCHANGED <<problem, instance, qubo, exact>>
    BY <1>3 DEF Restart, Sweep, EndRestart, Stop, results
  <2> QED
    BY <2>1 DEF ExactIsGround, Outcome
<1>4. CASE Plan \/ SolveInstance
  <2>1. phase \in {"planning", "planned"} /\ exact' = exact
    BY <1>4 DEF Plan, SolveInstance, results
  <2> QED
    BY <2>1 DEF ExactIsGround
<1> QED
  BY <1>1, <1>2, <1>3, <1>4 DEF Next, Done

\* For a routing problem that is the ground state of the encoding of a net.
LEMMA InvGround == LadderInv /\ ExactIsGround => RoutingGroundIsCheapest
<1> SUFFICES ASSUME LadderInv, ExactIsGround, exact # None, phase = "restarting",
                    problem.domain = "routing"
             PROVE  GroundIsCheapest(instance, exact.allocation)
  BY DEF RoutingGroundIsCheapest, GroundIsCheapest
<1>1. problem \in Specs /\ instance = Reduce(problem) /\ qubo = Build(problem, instance)
  BY DEF LadderInv, Planned
<1>2. IsRoutingSpec(problem)
  <2>1. ~IsCollateralSpec(problem) /\ ~IsSettlementSpec(problem)
    BY DEF IsCollateralSpec, IsSettlementSpec
  <2> QED
    BY <1>1, <2>1, SpecsAssumption
<1>3. IsNet(instance) /\ IsServed(instance)
  <2>1. instance = RoutingInstance(problem)
    BY <1>1 DEF Reduce
  <2> QED
    BY <1>2, <2>1, RoutingReduces DEF IsServed
<1>4. qubo = RoutingQubo(instance)
  BY <1>1 DEF Build
<1>5. RoutingQubo(instance).n > 0
  <2>1. qubo.n \in 1..BruteforceLimit
    BY DEF ExactIsGround
  <2>2. qubo.n > 0
    BY <2>1, LimitAssumption
  <2> QED
    BY <1>4, <2>2
<1>6. exact.allocation = AssignedBy(instance, BruteForce(qubo))
  <2>1. exact = Outcome(Decode(problem, instance, BruteForce(qubo)))
    BY DEF ExactIsGround
  <2>2. Decode(problem, instance, BruteForce(qubo)) = AssignedBy(instance, BruteForce(qubo))
    BY DEF Decode
  <2> QED
    BY <2>1, <2>2 DEF Outcome
<1> QED
  BY <1>3, <1>4, <1>5, <1>6, RoutingGround

\* For every routing specification the one-hot penalty outweighs all costs: the ground state
\* that brute_force_qubo finds sends every transaction over exactly one route, an eligible and
\* cheapest one (RoutingGroundIsCheapest).
THEOREM GroundsAreCheapest == Spec => []RoutingGroundIsCheapest
<1>1. Init => ExactIsGround
  BY DEF Init, ExactIsGround
<1>2. ExactIsGround /\ [Next]_ladderVars => ExactIsGround'
  BY GroundIsKept
<1>3. LadderInv /\ ExactIsGround => RoutingGroundIsCheapest
  BY InvGround
<1> QED
  BY <1>1, <1>2, <1>3, LadderHolds, PTL DEF Spec
=============================================================================
