-------------------------------- MODULE Ladder --------------------------------
(***************************************************************************)
(* The execution ladder on the numbers of a problem: the planner reduces   *)
(* the problem to a research instance and encodes it as a QUBO             *)
(* (hardware_planner_agent), then the execution agent solves the instance  *)
(* exactly under all constraints, finds the ground state of the QUBO by    *)
(* brute force, and anneals the QUBO (agents/quantum_agent.py,             *)
(* backends/heuristic.py).  The three domains answer through one           *)
(* interface, ProblemDomain.                                               *)
(*                                                                         *)
(* Module Pipeline has the same agents with their policy, abstention and   *)
(* failures and with opaque results; here are the results.                 *)
(***************************************************************************)
EXTENDS Collateral, Settlement, Routing

CONSTANTS
  Specs,             \* the problem specifications a run may be given
  BruteforceLimit,   \* Settings.bruteforce_qubit_limit
  None               \* no result, no energy yet

ASSUME SpecsAssumption ==
  \A p \in Specs : IsCollateralSpec(p) \/ IsSettlementSpec(p) \/ IsRoutingSpec(p)

ASSUME LimitAssumption == BruteforceLimit \in Nat \ {0}

VARIABLES
  problem,     \* the specification
  instance,    \* state.instance
  qubo,        \* state.qubo
  milp,        \* state.instance_milp
  exact,       \* state.instance_qubo_exact
  annealed,    \* state.instance_sa
  phase,       \* where the two agents are
  bits,        \* the annealer's b
  energy,      \* its e
  best,        \* its best_bits
  bestEnergy   \* its best_e; None is infinity

results == <<milp, exact, annealed>>
search == <<bits, energy, best, bestEnergy>>
ladderVars == <<problem, instance, qubo, results, phase, search>>

-----------------------------------------------------------------------------
(* ProblemDomain, for the problem at hand                                  *)

Reduce(p) ==
  CASE p.domain = "collateral" -> CollateralInstance(p)
    [] p.domain = "settlement" -> SettlementInstance(p)
    [] p.domain = "routing" -> RoutingInstance(p)

\* The planner offers slack bits up to the budget; only collateral takes them.
OfferedSlack(p, inst) ==
  Max({0, Min({SLACK_BITS_DEFAULT, p.maxQubits - Len(inst.securities)})})

Build(p, inst) ==
  CASE p.domain = "collateral" -> CollateralQubo(inst, OfferedSlack(p, inst))
    [] p.domain = "settlement" -> SettlementQubo(inst)
    [] p.domain = "routing" -> RoutingQubo(inst)

Items(p, inst) ==
  CASE p.domain = "collateral" -> DOMAIN inst.securities
    [] p.domain = "settlement" -> DOMAIN inst.obligations
    [] p.domain = "routing" -> Slots(inst)

\* What the rows of the integer program admit.
Rows(p, inst, alloc) ==
  CASE p.domain = "collateral" -> CollateralRows(inst, alloc)
    [] p.domain = "settlement" -> SettlementRows(inst, alloc)
    [] p.domain = "routing" -> RoutingRows(inst, alloc)

\* What the recomputation of the domain accepts.
Check(p, inst, alloc) ==
  CASE p.domain = "collateral" -> CollateralCheck(inst, alloc)
    [] p.domain = "settlement" -> SettlementCheck(inst, alloc)
    [] p.domain = "routing" -> RoutingCheck(inst, alloc)

CostOf(p, inst, alloc) ==
  CASE p.domain = "collateral" -> PostingCost(inst, alloc)
    [] p.domain = "settlement" -> Unsettled(inst, alloc)
    [] p.domain = "routing" -> RoutingCost(inst, alloc)

\* The leading decision bits; slack bits are ignored.
Decode(p, inst, b) ==
  IF p.domain = "routing" THEN AssignedBy(inst, b)
  ELSE {i \in Items(p, inst) : b[i] = 1}

\* The SolveResult of an allocation: the domain recomputes cost and feasibility.
Outcome(alloc) ==
  [allocation |-> alloc, feasible |-> Check(problem, instance, alloc),
   cost |-> CostOf(problem, instance, alloc)]

Infeasible == [allocation |-> {}, feasible |-> FALSE, cost |-> None]

-----------------------------------------------------------------------------
Init ==
  /\ problem \in Specs
  /\ instance = None /\ qubo = NoEncoding
  /\ milp = None /\ exact = None /\ annealed = None
  /\ phase = "planning"
  /\ bits = <<>> /\ energy = 0 /\ best = <<>> /\ bestEnergy = None

\* hardware_planner_agent, as far as it fills in instance and qubo.
Plan ==
  /\ phase = "planning"
  /\ instance' = Reduce(problem)
  /\ qubo' = Build(problem, instance')
  /\ phase' = "planned"
  /\ UNCHANGED <<problem, results, search>>

\* solve_instance_classical: an optimum of the integer program, recomputed.
SolveInstance ==
  LET admitted == {a \in SUBSET Items(problem, instance) : Rows(problem, instance, a)}
      Cost(a) == CostOf(problem, instance, a)
  IN /\ phase = "planned"
     /\ \/ /\ admitted = {}
           /\ milp' = Infeasible
        \/ \E a \in admitted :
             /\ \A c \in admitted : Cost(a) <= Cost(c)
             /\ milp' = Outcome(a)
     /\ phase' = "solved"
     /\ UNCHANGED <<problem, instance, qubo, exact, annealed, search>>

\* The second rung: the ground state, if the QUBO is small enough.
SolveExactly ==
  /\ phase = "solved"
  /\ exact' = IF qubo.n \in 1..BruteforceLimit
              THEN Outcome(Decode(problem, instance, BruteForce(qubo))) ELSE None
  /\ phase' = IF qubo.n > 0 THEN "restarting" ELSE "done"
  /\ UNCHANGED <<problem, instance, qubo, milp, annealed, search>>

-----------------------------------------------------------------------------
(* simulated_annealing_qubo.  The number of restarts, the sweeps of each   *)
(* and the temperatures are left open: a restart may end after any sweep,  *)
(* and a flip uphill may be accepted or not.                               *)

Restart ==
  /\ phase = "restarting"
  /\ \E b \in Bits(qubo.n) : bits' = b /\ energy' = Energy(qubo, b)
  /\ phase' = "restarted"
  /\ UNCHANGED <<problem, instance, qubo, results, best, bestEnergy>>

\* W[i, j] for i # j
Coupling(i, j) == qubo.Q[<<Min({i, j}), Max({i, j})>>]

\* Mutant of Delta: the row of W is filled above the diagonal only.
DeltaUpper(i) ==
  (1 - 2 * bits[i])
    * (qubo.Q[<<i, i>>] + SumFunction([j \in {j \in i + 1..qubo.n : bits[j] = 1} |-> Coupling(i, j)]))

\* What flipping bit i adds to the energy.
Delta(i) ==
  (1 - 2 * bits[i])
    * (qubo.Q[<<i, i>>] + SumFunction([j \in {j \in (1..qubo.n) \ {i} : bits[j] = 1} |-> Coupling(i, j)]))

\* One sweep: a flip is tried, and the best so far brought up to date.
Sweep ==
  /\ phase \in {"restarted", "annealing"}
  /\ \E i \in 1..qubo.n : \E accepted \in BOOLEAN :
       /\ Delta(i) <= 0 => accepted
       /\ bits' = IF accepted THEN [bits EXCEPT ![i] = 1 - @] ELSE bits
       /\ energy' = IF accepted THEN energy + Delta(i) ELSE energy
  /\ LET better == IF bestEnergy = None THEN TRUE ELSE energy' < bestEnergy
     IN /\ best' = IF better THEN bits' ELSE best
        /\ bestEnergy' = IF better THEN energy' ELSE bestEnergy
  /\ phase' = "annealing"
  /\ UNCHANGED <<problem, instance, qubo, results>>

\* The sweeps of a restart are over, and another one follows.
EndRestart ==
  /\ phase = "annealing"
  /\ phase' = "restarting"
  /\ bits' = <<>> /\ energy' = 0
  /\ UNCHANGED <<problem, instance, qubo, results, best, bestEnergy>>

\* The last restart is over: best_e is computed anew and best_bits decoded.
Stop ==
  /\ phase = "annealing"
  /\ bestEnergy' = Energy(qubo, best)
  /\ annealed' = Outcome(Decode(problem, instance, best))
  /\ phase' = "done"
  /\ bits' = <<>> /\ energy' = 0
  /\ UNCHANGED <<problem, instance, qubo, milp, exact, best>>

Done == phase = "done" /\ UNCHANGED ladderVars

Next ==
  \/ Plan \/ SolveInstance \/ SolveExactly
  \/ Restart \/ Sweep \/ EndRestart \/ Stop \/ Done

Spec == Init /\ [][Next]_ladderVars

-----------------------------------------------------------------------------
\* reduce_to_instance and the planner's slack keep to max_effective_qubits: the
\* QUBO fits, but for a single payment whose routes alone exceed the budget.
\* The settlement reduction gives every participant a slack bit if one obligation
\* with its two parties leaves room for that, and then leaves out no obligation
\* that still fits on these terms.
FitsBudget ==
  phase = "planned" =>
    /\ \/ qubo.n <= problem.maxQubits
       \/ problem.domain = "routing" /\ Len(instance.transactions) = 1
    /\ problem.domain = "settlement" /\ problem.maxQubits >= 3 =>
         /\ instance.slackBits > 0
         /\ \A i \in DOMAIN problem.obligations :
              LET o == problem.obligations[i]
              IN o \in ToSet(instance.obligations)
                 \/ Len(instance.obligations) + 1 + Len(Involve(instance.parties, o))
                      > problem.maxQubits

\* The coefficients a domain builds say what they are meant to say: for every
\* bit string the energy is the weighted square of every violation, slack
\* included, plus what the allocation costs.
EncodingExact ==
  phase = "planned" =>
    \A b \in Bits(qubo.n) :
      qubo.n > 0 =>
        Energy(qubo, b) =
          CASE problem.domain = "collateral" ->
                 CollateralEnergy(instance, OfferedSlack(problem, instance), b)
            [] problem.domain = "settlement" -> SettlementEnergy(instance, b)
            [] problem.domain = "routing" -> RoutingEnergy(instance, b)

\* qubo_to_ising hands a gate-model backend the same landscape: for every bit
\* string the Ising energy of its spins is the energy of the QUBO.
IsingAgrees ==
  phase = "planned" =>
    LET H == Ising(qubo)
    IN \A b \in Bits(qubo.n) : 4 * Energy(qubo, b) = IsingEnergy(H, Spins(b))

\* The fair comparator: the integer program and the check that judges every
\* decoded bit string agree on the instance, so that no bit string a heuristic
\* or a quantum backend returns passes the check and is cheaper than instance_milp,
\* and instance_milp passes it itself if anything does.
ClassicalIsFair ==
  phase = "solved" /\ ~instance.degenerate =>
    /\ \A a \in SUBSET Items(problem, instance) :
         Check(problem, instance, a) =>
           milp.feasible /\ milp.cost <= CostOf(problem, instance, a)
    /\ milp.cost # None => milp.feasible

\* The ground state of a routing QUBO sends every transaction over exactly one
\* route, an eligible and cheapest one: the one-hot penalty outweighs all costs.
RoutingGroundIsCheapest ==
  exact # None /\ phase = "restarting" /\ best = <<>> /\ problem.domain = "routing" =>
    \A t \in DOMAIN instance.transactions :
      \E r \in DOMAIN instance.routes :
        /\ {s \in exact.allocation : s[1] = t} = {<<t, r>>}
        /\ EligibleSlot(instance, <<t, r>>)
        /\ \A q \in DOMAIN instance.routes :
             EligibleSlot(instance, <<t, q>>) =>
               RouteCost(instance, t, r) <= RouteCost(instance, t, q)

\* The annealer adds up differences and still knows where it is: the energies
\* it carries along are those of its bits and of the best it has seen, and after
\* a sweep the best is no worse than where it stands.
AnnealingTracks ==
  /\ phase \in {"restarted", "annealing"} => energy = Energy(qubo, bits)
  /\ phase \in {"annealing", "done"} /\ best # <<>> => bestEnergy = Energy(qubo, best)
  /\ phase = "annealing" => bestEnergy <= energy

\* docs/ARCHITECTURE.md: the adaptive penalty "guarantees the QUBO ground state
\* respects coverage".
GroundStateCovers ==
  exact # None /\ problem.domain = "collateral" =>
    CoverageOf(instance, exact.allocation) >= instance.required
=============================================================================
