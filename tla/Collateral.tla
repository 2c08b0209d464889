------------------------------ MODULE Collateral ------------------------------
(***************************************************************************)
(* The collateral domain (finance/collateral.py): post securities at       *)
(* minimum cost such that their coverage meets the requirement, enough of  *)
(* it is of high quality (HQLA) and no issuer has too large a share.  Here *)
(* are the exact constraints in the two forms the code has them in, the    *)
(* reduction to a research instance and its encoding as a QUBO.            *)
(*                                                                         *)
(* Abstracted: coverage and cost of a security are integers; a cap is a    *)
(* number of tenths, and issuers are the only attribute that is capped.    *)
(* An allocation is the set of positions of the securities posted.         *)
(***************************************************************************)
EXTENDS Qubo

SLACK_BITS_DEFAULT == 4

IsSecurity(s) ==
  /\ s.coverage \in Nat \ {0}
  /\ s.cost \in Nat
  /\ s.hqla \in BOOLEAN /\ s.eligible \in BOOLEAN
  /\ s.issuer \in STRING

IsCollateralSpec(p) ==
  /\ p.domain = "collateral"
  /\ p.inventory \in Seq(ToSet(p.inventory))
  /\ \A i \in DOMAIN p.inventory : IsSecurity(p.inventory[i])
  /\ p.minimumHqla \in Nat
  /\ p.cap \in 1..10  \* 10 also stands for no cap
  /\ p.maxQubits \in Nat \ {0}

CoverageOf(inst, posted) == SumFunction([i \in posted |-> inst.securities[i].coverage])

PostingCost(inst, posted) == SumFunction([i \in posted |-> inst.securities[i].cost])

Hqla(inst, posted) == {i \in posted : inst.securities[i].hqla}

Of(inst, posted, issuer) == {i \in posted : inst.securities[i].issuer = issuer}

Issuers(inst) == {inst.securities[i].issuer : i \in DOMAIN inst.securities}

\* The rows of _linear_solve.
CollateralRows(inst, posted) ==
  LET T == CoverageOf(inst, posted)
  IN /\ inst.securities # <<>>
     /\ T >= inst.required
     /\ inst.minimumHqla > 0 => CoverageOf(inst, Hqla(inst, posted)) >= inst.minimumHqla
     /\ \A g \in Issuers(inst) : 10 * CoverageOf(inst, Of(inst, posted, g)) - inst.cap * T <= 0

\* Mutant of CollateralCheck: the share is one of the requirement.
CollateralCheckRequired(inst, posted) ==
  LET worst == CHOOSE g \in Issuers(inst) : \A h \in Issuers(inst) :
                 CoverageOf(inst, Of(inst, posted, g)) >= CoverageOf(inst, Of(inst, posted, h))
  IN /\ CoverageOf(inst, posted) >= inst.required
     /\ inst.minimumHqla > 0 => CoverageOf(inst, Hqla(inst, posted)) >= inst.minimumHqla
     /\ 10 * CoverageOf(inst, Of(inst, posted, worst)) <= inst.cap * inst.required

\* check_constraints: the largest group is the one that is looked at.
CollateralCheck(inst, posted) ==
  LET T == CoverageOf(inst, posted)
      worst == CHOOSE g \in Issuers(inst) : \A h \in Issuers(inst) :
                 CoverageOf(inst, Of(inst, posted, g)) >= CoverageOf(inst, Of(inst, posted, h))
  IN /\ T >= inst.required
     /\ inst.minimumHqla > 0 => CoverageOf(inst, Hqla(inst, posted)) >= inst.minimumHqla
     /\ T = 0 \/ 10 * CoverageOf(inst, Of(inst, posted, worst)) <= inst.cap * T

-----------------------------------------------------------------------------
(* reduce_to_instance                                                      *)

\* More coverage per cost, where a security without cost is the best; then
\* more coverage.
MoreEfficient(s, t) ==
  LET better(u, v) == v.cost > 0 /\ (u.cost = 0 \/ u.coverage * v.cost > v.coverage * u.cost)
  IN better(s, t) \/ (~better(t, s) /\ s.coverage > t.coverage)

\* round(m / 4) of Python: halves go to the even neighbour.
QuarterRounded(m) ==
  LET q == m \div 4
  IN IF m % 4 > 2 \/ (m % 4 = 2 /\ q % 2 = 1) THEN q + 1 ELSE q

\* round(3 * m / 5), which has no halves.
ThreeFifthsRounded(m) == (6 * m + 5) \div 10

CollateralInstance(p) ==
  LET elig == Kept(p.inventory, {i \in DOMAIN p.inventory : p.inventory[i].eligible})
      n == Max({1, Min({Len(elig), p.maxQubits - SLACK_BITS_DEFAULT})})
      chosen == SubSeq(StableSort(elig, MoreEfficient), 1, n)
      reachable == CoverageOf([securities |-> chosen], DOMAIN chosen)
      target == Max({1, ThreeFifthsRounded(reachable)})
      hqla == \E i \in DOMAIN chosen : chosen[i].hqla
  IN IF elig = <<>>
     THEN [securities |-> <<>>, required |-> 0, minimumHqla |-> 0, cap |-> p.cap,
           degenerate |-> TRUE]
     ELSE [securities |-> chosen, required |-> target,
           minimumHqla |-> IF hqla /\ p.minimumHqla > 0 THEN QuarterRounded(target) ELSE 0,
           cap |-> p.cap, degenerate |-> FALSE]

-----------------------------------------------------------------------------
(* build_qubo, multiplied by A.den * (D * R)^2 * C, where R is the target, *)
(* C the cost of everything and D = 2^k - 1 for k slack bits.              *)

\* The penalty weight: 2.5 over the square of the smallest relative step, but
\* at least penalty_scale = 8 and at most 1000.
PenaltyWeight(step, R) ==
  IF 5 * R * R <= 16 * step * step THEN [num |-> 8, den |-> 1]
  ELSE IF 5 * R * R >= 2000 * step * step THEN [num |-> 1000, den |-> 1]
  ELSE [num |-> 5 * R * R, den |-> 2 * step * step]

SmallestCoverage(inst) == Min({inst.securities[i].coverage : i \in DOMAIN inst.securities})

\* The largest surplus; the slack bits share it in the ratio 1 : 2 : 4 ...
Surplus(inst) == CoverageOf(inst, DOMAIN inst.securities) - inst.required

SlackUsed(inst, slackBits) == IF Surplus(inst) > 0 THEN slackBits ELSE 0

CollateralScale(inst) == Max({1, PostingCost(inst, DOMAIN inst.securities)})

\* Mutant of CollateralForm: the slack adds to the coverage.
CollateralFormAdded(inst, k, D) ==
  LET n == Len(inst.securities)
  IN [v \in 1..n + k |-> IF v <= n THEN D * inst.securities[v].coverage
                         ELSE Surplus(inst) * 2^(v - n - 1)]

\* D * R times the coefficients of cov / R - sum of the slack.
CollateralForm(inst, k, D) ==
  LET n == Len(inst.securities)
  IN [v \in 1..n + k |-> IF v <= n THEN D * inst.securities[v].coverage
                         ELSE -(Surplus(inst) * 2^(v - n - 1))]

CollateralQubo(inst, slackBits) ==
  LET n == Len(inst.securities)
      R == inst.required
      k == SlackUsed(inst, slackBits)
      D == IF k > 0 THEN 2^k - 1 ELSE 1
      A == PenaltyWeight(SmallestCoverage(inst), R)
      C == CollateralScale(inst)
      square == Square(n + k, CollateralForm(inst, k, D), -D * R)
      Cost(i) == IF i <= n THEN inst.securities[i].cost ELSE 0
  IN IF n = 0 \/ R <= 0 THEN NoEncoding
     ELSE Encoding(n + k,
                   [p \in Pairs(n + k) |->
                     C * A.num * square[p]
                       + IF p[1] = p[2] THEN A.den * (D * R) * (D * R) * Cost(p[1]) ELSE 0],
                   C * A.num * (D * R) * (D * R), n)

\* What the energy of bits b is meant to be, on the same scale: the weighted
\* square of the coverage less the slack less the target, plus the cost.
CollateralEnergy(inst, slackBits, b) ==
  LET n == Len(inst.securities)
      R == inst.required
      k == SlackUsed(inst, slackBits)
      D == IF k > 0 THEN 2^k - 1 ELSE 1
      A == PenaltyWeight(SmallestCoverage(inst), R)
      posted == {i \in 1..n : b[i] = 1}
      units == SumFunction([j \in 1..k |-> b[n + j] * 2^(j - 1)])
      miss == D * (CoverageOf(inst, posted) - R) - units * Surplus(inst)
  IN CollateralScale(inst) * A.num * miss * miss
       + A.den * (D * R) * (D * R) * PostingCost(inst, posted)
=============================================================================
