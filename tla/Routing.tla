-------------------------------- MODULE Routing --------------------------------
(***************************************************************************)
(* The payment routing domain (finance/payment_routing.py): send every     *)
(* transaction over one eligible route, at minimum cost, within the        *)
(* capacity of the routes, the share of a network and the mean approval    *)
(* rate.  Constraints, reduction to a research instance, and the one-hot   *)
(* encoding as a QUBO.                                                     *)
(*                                                                         *)
(* Abstracted: amounts, rates and fees are integers, approval rates and    *)
(* shares numbers of tenths; the cost of latency is part of the fee.  An   *)
(* assignment is a set of pairs of the positions of a transaction and a    *)
(* route.                                                                  *)
(***************************************************************************)
EXTENDS Qubo

ROUTES_PER_INSTANCE == 3

IsRoutingSpec(p) ==
  /\ p.domain = "routing"
  /\ p.routes \in Seq(ToSet(p.routes)) /\ p.routes # <<>>
  /\ p.transactions \in Seq(ToSet(p.transactions))
  /\ \A i \in DOMAIN p.routes :
       LET r == p.routes[i]
       IN r.rate \in Nat /\ r.fraud \in Nat /\ r.fee \in Nat /\ r.capacity \in Nat /\ r.approval \in 1..10
  /\ \A i, j \in DOMAIN p.routes : i # j => p.routes[i].id # p.routes[j].id
  /\ \A i \in DOMAIN p.transactions :
       /\ p.transactions[i].amount \in Nat \ {0}
       /\ p.transactions[i].eligible \subseteq {p.routes[r].id : r \in DOMAIN p.routes}
  /\ p.share \in 0..10 /\ p.floor \in 0..10  \* 0: no such constraint
  /\ p.decline \in Nat
  /\ p.maxQubits \in Nat \ {0}

\* is_eligible: an empty list allows every route.
Eligible(tx, r) == tx.eligible = {} \/ r.id \in tx.eligible

\* assignment_cost, multiplied by 10.
RouteCost(inst, t, r) ==
  LET tx == inst.transactions[t]
      route == inst.routes[r]
  IN 10 * ((route.rate + route.fraud) * tx.amount + route.fee)
       + (10 - route.approval) * inst.decline * tx.amount

Slots(inst) == (DOMAIN inst.transactions) \X (DOMAIN inst.routes)

RoutingCost(inst, assigned) == SumFunction([s \in assigned |-> RouteCost(inst, s[1], s[2])])

EligibleSlot(inst, s) == Eligible(inst.transactions[s[1]], inst.routes[s[2]])

Over(assigned, r) == {s \in assigned : s[2] = r}

Networks(inst) == {inst.routes[r].network : r \in DOMAIN inst.routes}

OverNetwork(inst, assigned, net) == {s \in assigned : inst.routes[s[2]].network = net}

\* The sum of the approval rates of what is assigned.
Approvals(inst, assigned) == SumFunction([s \in assigned |-> inst.routes[s[2]].approval])

\* The rows and bounds of solve_routing_milp.
RoutingRows(inst, assigned) ==
  LET T == Len(inst.transactions)
  IN T > 0 =>
       /\ inst.routes # <<>>
       /\ \A s \in assigned : EligibleSlot(inst, s)
       /\ \A t \in DOMAIN inst.transactions : Cardinality({s \in assigned : s[1] = t}) = 1
       /\ \A r \in DOMAIN inst.routes : Cardinality(Over(assigned, r)) <= inst.routes[r].capacity
       /\ inst.share > 0 => \A net \in Networks(inst) :
            10 * Cardinality(OverNetwork(inst, assigned, net)) <= inst.share * T
       /\ inst.floor > 0 => Approvals(inst, assigned) >= inst.floor * T

\* check_routing_constraints: valid are the transactions with one assignment
\* that is eligible; the mean approval of no assignment is 0.
RoutingCheck(inst, assigned) ==
  LET T == Len(inst.transactions)
      valid == {t \in DOMAIN inst.transactions :
                  \E s \in assigned : {u \in assigned : u[1] = t} = {s} /\ EligibleSlot(inst, s)}
      Load(r) == Cardinality(Over(assigned, r)) - inst.routes[r].capacity
      Share(net) == Cardinality(OverNetwork(inst, assigned, net))
  IN /\ Cardinality(valid) = T
     /\ \E worst \in DOMAIN inst.routes :
          Load(worst) <= 0 /\ \A r \in DOMAIN inst.routes : Load(worst) >= Load(r)
     /\ inst.share > 0 /\ T > 0 =>
          \E worst \in Networks(inst) :
            10 * Share(worst) <= inst.share * T /\ \A net \in Networks(inst) : Share(worst) >= Share(net)
     /\ inst.floor > 0 =>
          assigned # {} /\ Approvals(inst, assigned) >= inst.floor * Cardinality(assigned)

-----------------------------------------------------------------------------
(* reduce_to_routing_instance                                              *)

CheaperRoute(r, q) == r.rate < q.rate \/ (r.rate = q.rate /\ r.approval > q.approval)

LargerPayment(t, u) == t.amount > u.amount

\* Mutant of Routable: transactions are not tried against the routes left.
RoutableAll(p, routes) == p.transactions

\* The transactions that may use one of the routes.
Routable(p, routes) ==
  Kept(p.transactions,
       {t \in DOMAIN p.transactions :
          \E r \in DOMAIN routes : Eligible(p.transactions[t], routes[r])})

RoutingInstance(p) ==
  LET routes == SubSeq(StableSort(p.routes, CheaperRoute), 1,
                       Min({Len(p.routes), ROUTES_PER_INSTANCE}))
      routable == Routable(p, routes)
      budget == Max({1, p.maxQubits \div Len(routes)})
      chosen == SubSeq(StableSort(routable, LargerPayment), 1, Min({Len(routable), budget}))
  IN [transactions |-> chosen,
      routes |-> IF p.transactions = <<>> THEN SubSeq(p.routes, 1, 1) ELSE routes,
      share |-> p.share, floor |-> p.floor, decline |-> p.decline,
      degenerate |-> chosen = <<>>]

-----------------------------------------------------------------------------
(* build_routing_qubo, multiplied by the cost C of all slots together.     *)

RoutingScale(inst) == Max({1, RoutingCost(inst, Slots(inst))})

\* The slot of variable v, counted from 1.
SlotOf(inst, v) ==
  <<((v - 1) \div Len(inst.routes)) + 1, ((v - 1) % Len(inst.routes)) + 1>>

RoutingWeight == 8  \* penalty_scale of PaymentInstance

RoutingQubo(inst) ==
  LET n == Cardinality(Slots(inst))
      C == RoutingScale(inst)
      Diagonal(s) == RouteCost(inst, s[1], s[2]) - C * RoutingWeight
                       + IF EligibleSlot(inst, s) THEN 0 ELSE 5 * C * RoutingWeight
  IN IF n = 0 THEN NoEncoding
     ELSE Encoding(n,
                   [p \in Pairs(n) |->
                     LET s == SlotOf(inst, p[1]) u == SlotOf(inst, p[2])
                     IN IF s = u THEN Diagonal(s)
                        ELSE IF s[1] = u[1] THEN 2 * C * RoutingWeight ELSE 0],
                   C * RoutingWeight * Len(inst.transactions), n)

AssignedBy(inst, b) == {SlotOf(inst, v) : v \in {v \in DOMAIN b : b[v] = 1}}

\* What the energy of bits b is meant to be, on the same scale: the weighted
\* squares of how far each transaction is from one route, the cost, and five
\* times the weight for every ineligible slot.
RoutingEnergy(inst, b) ==
  LET assigned == AssignedBy(inst, b)
      Off(t) == Cardinality({s \in assigned : s[1] = t}) - 1
      forbidden == {s \in assigned : ~EligibleSlot(inst, s)}
  IN RoutingScale(inst) * RoutingWeight
       * (SumFunction([t \in DOMAIN inst.transactions |-> Off(t) * Off(t)])
            + 5 * Cardinality(forbidden))
     + RoutingCost(inst, assigned)
=============================================================================
