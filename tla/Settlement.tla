------------------------------ MODULE Settlement ------------------------------
(***************************************************************************)
(* The settlement domain (finance/settlement.py): settle a batch of queued *)
(* obligations, of as large a value as possible, such that no participant  *)
(* pays out more than its balance after netting.  Constraints, reduction   *)
(* to a research instance, and the QUBO with slack bits per participant.   *)
(*                                                                         *)
(* Abstracted: amounts and balances are integers, the floor on the settled *)
(* value a number of tenths.  A batch is a set of positions.               *)
(***************************************************************************)
EXTENDS Qubo

SETTLEMENT_SLACK_BITS == 3

IsSettlementSpec(p) ==
  /\ p.domain = "settlement"
  /\ p.obligations \in Seq(ToSet(p.obligations)) /\ p.obligations # <<>>
  /\ \A i \in DOMAIN p.obligations :
       LET o == p.obligations[i]
       IN o.payer \in DOMAIN p.balance /\ o.payee \in DOMAIN p.balance
          /\ o.payer # o.payee /\ o.amount \in Nat \ {0}
  /\ \A k \in DOMAIN p.balance : p.balance[k] \in Nat
  /\ p.ratio \in 0..10  \* 0: no floor
  /\ p.penalty \in Nat \ {0}
  /\ p.maxQubits \in Nat \ {0}

ValueOf(obs, batch) == SumFunction([i \in batch |-> obs[i].amount])

Paying(obs, batch, k) == {i \in batch : obs[i].payer = k}

Receiving(obs, batch, k) == {i \in batch : obs[i].payee = k}

NetOutflow(obs, batch, k) ==
  ValueOf(obs, Paying(obs, batch, k)) - ValueOf(obs, Receiving(obs, batch, k))

\* min_settled_ratio
AboveFloor(inst, batch) ==
  LET obs == inst.obligations
  IN inst.ratio > 0 => 10 * ValueOf(obs, batch) >= inst.ratio * ValueOf(obs, DOMAIN obs)

\* The rows of solve_settlement_milp: one for each participant that an
\* obligation touches.
SettlementRows(inst, batch) ==
  LET obs == inst.obligations
  IN obs # <<>> =>
       /\ inst.parties # <<>>
       /\ \A k \in ToSet(inst.parties) :
            Paying(obs, DOMAIN obs, k) \cup Receiving(obs, DOMAIN obs, k) # {} =>
              NetOutflow(obs, batch, k) <= inst.balance[k]
       /\ AboveFloor(inst, batch)

\* check_settlement_constraints: the participant that is overdrawn most is
\* the one that is looked at.
SettlementCheck(inst, batch) ==
  LET Over(k) == NetOutflow(inst.obligations, batch, k) - inst.balance[k]
  IN /\ inst.parties # <<>> =>
          LET worst == CHOOSE k \in ToSet(inst.parties) : \A l \in ToSet(inst.parties) : Over(k) >= Over(l)
          IN Over(worst) <= 0
     /\ AboveFloor(inst, batch)

\* The objective: what stays unsettled.
Unsettled(inst, batch) == ValueOf(inst.obligations, DOMAIN inst.obligations \ batch)

-----------------------------------------------------------------------------
(* reduce_to_settlement_instance                                           *)

LargerAmount(o, u) == o.amount > u.amount

\* Adds a party that is not there yet.
Include(parties, k) == IF k \in ToSet(parties) THEN parties ELSE Append(parties, k)

Involve(parties, o) == Include(Include(parties, o.payer), o.payee)

\* Mutant of Admit: the bits of the new parties are not counted.
AdmitEarly(ordered, reserve, maxQubits) ==
  LET after[i \in 0..Len(ordered)] ==
        IF i = 0 THEN [chosen |-> <<>>, parties |-> <<>>]
        ELSE LET before == after[i - 1]
             IN IF Len(before.chosen) + 1 + Len(before.parties) * reserve <= maxQubits
                THEN [chosen |-> Append(before.chosen, ordered[i]),
                      parties |-> Involve(before.parties, ordered[i])]
                ELSE before
  IN after[Len(ordered)]

\* admit: the obligations in order, each taken if it and the bits reserved for
\* every participant involved by then fit the budget.
Admit(ordered, reserve, maxQubits) ==
  LET after[i \in 0..Len(ordered)] ==
        IF i = 0 THEN [chosen |-> <<>>, parties |-> <<>>]
        ELSE LET before == after[i - 1]
                 parties == Involve(before.parties, ordered[i])
             IN IF Len(before.chosen) + 1 + Len(parties) * reserve <= maxQubits
                THEN [chosen |-> Append(before.chosen, ordered[i]), parties |-> parties]
                ELSE before
  IN after[Len(ordered)]

SettlementInstance(p) ==
  LET ordered == StableSort(p.obligations, LargerAmount)
      reserved == Admit(ordered, 1, p.maxQubits)
      taken == IF reserved.chosen = <<>> THEN Admit(ordered, 0, p.maxQubits) ELSE reserved
      spare == p.maxQubits - Len(taken.chosen)
  IN [obligations |-> taken.chosen, parties |-> taken.parties,
      balance |-> [k \in ToSet(taken.parties) |-> p.balance[k]],
      slackBits |-> IF reserved.chosen = <<>> THEN 0
                    ELSE Min({SETTLEMENT_SLACK_BITS, spare \div Len(taken.parties)}),
      ratio |-> p.ratio, penalty |-> p.penalty, degenerate |-> FALSE]

-----------------------------------------------------------------------------
(* build_settlement_qubo, multiplied by A.den * (D * T)^2, where T is the  *)
(* value of all obligations and D = 2^slackBits - 1; by T without slack.   *)

\* min(2.5 over the square of the smallest share, 1000), and at least the
\* penalty_scale of the spec.
LiquidityWeight(inst, step, T) ==
  LET auto == IF 5 * T * T >= 2000 * step * step THEN [num |-> 1000, den |-> 1]
              ELSE [num |-> 5 * T * T, den |-> 2 * step * step]
  IN IF auto.num <= inst.penalty * auto.den THEN [num |-> inst.penalty, den |-> 1] ELSE auto

SmallestAmount(obs) == Min({obs[i].amount : i \in DOMAIN obs})

\* The most liquidity k can leave unused: its balance and all it may receive.
Headroom(inst, k) ==
  inst.balance[k] + ValueOf(inst.obligations,
                            Receiving(inst.obligations, DOMAIN inst.obligations, k))

\* The participants that get slack bits, in the order of their blocks.
WithSlack(inst) ==
  IF inst.slackBits = 0 THEN <<>>
  ELSE Kept(inst.parties, {i \in DOMAIN inst.parties : Headroom(inst, inst.parties[i]) > 0})

SettlementSize(inst) == Len(inst.obligations) + inst.slackBits * Len(WithSlack(inst))

\* The first of the slack variables of participant k, less one.
BlockOf(inst, k) ==
  Len(inst.obligations)
    + inst.slackBits * (CHOOSE i \in DOMAIN WithSlack(inst) : WithSlack(inst)[i] = k)
    - inst.slackBits

\* D times the coefficients of the net outflow of k plus its slack.
LiquidityForm(inst, k, D) ==
  LET obs == inst.obligations
  IN [v \in 1..SettlementSize(inst) |->
       IF v <= Len(obs)
         THEN IF obs[v].payer = k THEN D * obs[v].amount
              ELSE IF obs[v].payee = k THEN -(D * obs[v].amount)
              ELSE 0
       ELSE IF k \in ToSet(WithSlack(inst))
               /\ v - BlockOf(inst, k) \in 1..inst.slackBits
         THEN Headroom(inst, k) * 2^(v - BlockOf(inst, k) - 1)
       ELSE 0]

SettlementQubo(inst) ==
  LET obs == inst.obligations
      n == SettlementSize(inst)
      T == ValueOf(obs, DOMAIN obs)
      D == 2^inst.slackBits - 1
      A == LiquidityWeight(inst, SmallestAmount(obs), T)
      parties == ToSet(inst.parties)
      squares == [k \in parties |-> Square(n, LiquidityForm(inst, k, D), -D * inst.balance[k])]
      Reward(i) == IF i <= Len(obs) THEN obs[i].amount ELSE 0
  IN IF inst.slackBits = 0
     THEN Encoding(n, [p \in Pairs(n) |-> IF p[1] = p[2] THEN -Reward(p[1]) ELSE 0], 0, n)
     ELSE Encoding(n,
                   [p \in Pairs(n) |->
                     A.num * SumFunction([k \in parties |-> squares[k][p]])
                       - IF p[1] = p[2] THEN A.den * D * D * T * Reward(p[1]) ELSE 0],
                   A.num * SumFunction([k \in parties |-> (D * inst.balance[k]) * (D * inst.balance[k])]),
                   Len(obs))

\* The bits of k's block, read as a number.
SlackUnits(inst, k, b) ==
  IF k \in ToSet(WithSlack(inst))
  THEN SumFunction([j \in 1..inst.slackBits |-> b[BlockOf(inst, k) + j] * 2^(j - 1)])
  ELSE 0

\* By how much net outflow and slack of k miss its balance, times D.
Miss(inst, k, b) ==
  LET batch == {i \in DOMAIN inst.obligations : b[i] = 1}
      D == 2^inst.slackBits - 1
  IN D * (NetOutflow(inst.obligations, batch, k) - inst.balance[k])
       + SlackUnits(inst, k, b) * Headroom(inst, k)

\* What the energy of bits b is meant to be, on the same scale.
SettlementEnergy(inst, b) ==
  LET obs == inst.obligations
      batch == {i \in DOMAIN obs : b[i] = 1}
      T == ValueOf(obs, DOMAIN obs)
      D == 2^inst.slackBits - 1
      A == LiquidityWeight(inst, SmallestAmount(obs), T)
  IN IF inst.slackBits = 0 THEN -ValueOf(obs, batch)
     ELSE A.num * SumFunction([k \in ToSet(inst.parties) |-> Miss(inst, k, b) * Miss(inst, k, b)])
            - A.den * D * D * T * ValueOf(obs, batch)
=============================================================================
