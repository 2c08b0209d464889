------------------------------- MODULE Pipeline -------------------------------
(***************************************************************************)
(* The optimization pipeline (build_default_pipeline in                    *)
(* qf_agentos/pipeline.py): nine agents that run in order on one context,  *)
(* each tolerating that earlier ones failed.  The steps of Workflow give   *)
(* the control, this module what every agent reads and writes of           *)
(* PipelineState, and what its exceptions leave behind.                    *)
(*                                                                         *)
(* Abstracted: a solution is its feasibility and its cost, both as         *)
(* check_constraints computes them; the cost estimates, depths and texts   *)
(* of plans and reports are left out.                                      *)
(***************************************************************************)
EXTENDS Workflow, Policy, FiniteSets

CONSTANTS
  Requests,         \* execution policies and available backends, see IsRequest
  Sizes,            \* sizes n of the QUBO of the research instance, 0 if degenerate
  Costs,            \* objective values of solutions
  Prices,           \* what a provider charges for one execution
  MaxEffective,     \* execution_policy.max_effective_qubits
  StatevectorLimit, \* settings.statevector_qubit_limit
  BruteforceLimit   \* settings.bruteforce_qubit_limit

Agents == <<"requirements", "formulation", "classical_baseline", "hardware_planner",
            "quantum_algorithm", "execution", "verification", "auditor", "governance">>

Paid == {"qaoa_ibm", "dwave_hybrid"}  \* solvers with requires_credentials

QuantumSolvers == {"qaoa_sim"} \cup Paid

IsRequest(r) ==
  /\ IsPolicy(r)
  /\ r.gate \in BOOLEAN      \* allow_gate_model
  /\ r.anneal \in BOOLEAN    \* allow_quantum_annealing
  /\ r.qpu \in {"sim", "ibm", "dwave"}
  /\ r.available \subseteq QuantumSolvers

ASSUME PipelineAssumption ==
  /\ Steps = Agents
  /\ \A r \in Requests : IsRequest(r)
  /\ Sizes \subseteq Nat /\ Costs \subseteq Nat /\ Prices \subseteq Nat
  /\ {MaxEffective, StatevectorLimit, BruteforceLimit} \subseteq Nat

Solution == [feasible : BOOLEAN, cost : Costs]

NoResult == [feasible |-> FALSE, cost |-> -1]  \* objective=None

\* What the MILP returns: an optimum, or no solution.
MilpResults == {v \in Solution : v.feasible} \cup {NoResult}

VARIABLES
  request, \* the run's execution policy, approval and available backends
  size,    \* state.instance and state.qubo: its number of bits, -1 before
  plan,    \* state.hardware_plan, as a set of at most one plan
  ran,     \* the methods that have a result in the state
  value,   \* value[m]: the result of the methods the auditor compares
  called,  \* quantum solvers whose solve was called
  spent,   \* what the providers charged for it
  blocked, \* a warning says that QAOA was not executed, or skipped
  checked, \* verification has set its reports
  audit,   \* state.audit, as a set of at most one decision
  bundle   \* state.bundle, as a set of at most one snapshot

state == <<request, size, plan, ran, value, called, spent, blocked, checked, audit, bundle>>
pipeVars == <<runVars, state>>

Compared == {"classical_milp", "instance_milp", "quantum"}

PipeInit ==
  /\ RunInit
  /\ request \in Requests
  /\ size = -1
  /\ plan = {}
  /\ ran = {}
  /\ value = [m \in Compared |-> NoResult]
  /\ called = {}
  /\ spent = 0
  /\ blocked = FALSE
  /\ checked = FALSE
  /\ audit = {}
  /\ bundle = {}

-----------------------------------------------------------------------------
(* The agents, in order.  Each returns or raises; what it assigned before  *)
(* it raised stays.                                                        *)

\* requirements_agent and formulation_agent: their reports are not modelled.
Describe(s) ==
  /\ s \in {"requirements", "formulation"}
  /\ Return(s) \/ Raise(s)
  /\ UNCHANGED state

ClassicalBaseline ==
  \/ /\ Return("classical_baseline")
     /\ ran' = ran \cup {"classical_milp"}
     /\ \E v \in MilpResults : value' = [value EXCEPT !["classical_milp"] = v]
     /\ UNCHANGED <<request, size, plan, called, spent, blocked, checked, audit, bundle>>
  \/ Raise("classical_baseline") /\ UNCHANGED state

UsesAnnealer == request.qpu = "dwave" /\ request.anneal /\ "dwave_hybrid" \in request.available

\* Mutant of Abstains: the policy's limit on qubits is not checked.
AbstainsUnlimited(n) ==
  \/ n = 0
  \/ ~request.gate /\ ~request.anneal
  \/ /\ ~UsesAnnealer
     /\ ~request.gate \/ "qaoa_sim" \notin request.available \/ n > StatevectorLimit

\* The cascade of hardware_planner_agent for an instance of n bits.
Abstains(n) ==
  \/ n = 0
  \/ ~request.gate /\ ~request.anneal
  \/ n > MaxEffective
  \/ /\ ~UsesAnnealer
     /\ ~request.gate \/ "qaoa_sim" \notin request.available \/ n > StatevectorLimit

Target ==
  IF UsesAnnealer THEN "dwave_hybrid"
  ELSE IF request.qpu = "ibm" /\ "qaoa_ibm" \in request.available THEN "qaoa_ibm"
  ELSE "qaoa_sim"

PlanFor(n) == [abstain |-> Abstains(n), target |-> IF Abstains(n) THEN "none" ELSE Target]

HardwarePlanner ==
  \/ /\ Return("hardware_planner")
     /\ \E n \in Sizes : size' = n /\ plan' = {PlanFor(n)}
     /\ UNCHANGED <<request, ran, value, called, spent, blocked, checked, audit, bundle>>
  \/ /\ Raise("hardware_planner")  \* before or after it assigned the instance
     /\ size' \in Sizes \cup {-1}
     /\ UNCHANGED <<request, plan, ran, value, called, spent, blocked, checked, audit, bundle>>

\* quantum_algorithm_agent: its selection is read by reports only.
QuantumAlgorithm ==
  /\ Return("quantum_algorithm") \/ Raise("quantum_algorithm")
  /\ UNCHANGED state

-----------------------------------------------------------------------------
(* execution_agent: the ladder of methods on the research instance.        *)

\* The local methods, for an instance of n bits.
Local(n) ==
  {"instance_milp"}
    \cup {m \in {"qubo_exact_optimum"} : n > 0 /\ n <= BruteforceLimit}
    \cup {m \in {"simulated_annealing"} : n > 0}

\* What has run when one of them raises: those before it in this order.
PartOfLocal(n) ==
  {{}} \cup {{"instance_milp"} \cup part :
              part \in {p \in {{}, Local(n) \ {"simulated_annealing"}} : n > 0}}

EstimatedCost == 0  \* HardwarePlan.estimated_cost_usd

Authorised(target) ==
  Allowed(request, IF target \in Paid THEN "run_paid_qpu" ELSE "run_simulator", EstimatedCost)

\* The local methods done have run, and the instance's MILP ended somehow.
RunLocal(done) ==
  /\ ran' = ran \cup done
  /\ IF "instance_milp" \in done
       THEN \E v \in Solution \cup {NoResult} : value' = [value EXCEPT !["instance_milp"] = v]
       ELSE value' = value

\* No instance, QUBO or plan: nothing is executed, and nothing is said.
SkipExecution ==
  /\ plan = {}
  /\ Return("execution") \/ Raise("execution")
  /\ UNCHANGED state

FailLocally ==
  /\ plan # {}
  /\ Raise("execution")
  /\ \E done \in PartOfLocal(size) : RunLocal(done)
  /\ UNCHANGED <<request, size, plan, called, spent, blocked, checked, audit, bundle>>

\* Mutant of ExecuteLocally: nothing is said of the solver that was not called.
ExecuteLocallySilent ==
  /\ \E p \in plan : p.target = "none" \/ ~Authorised(p.target)
  /\ Return("execution")
  /\ RunLocal(Local(size))
  /\ UNCHANGED <<request, size, plan, called, spent, blocked, checked, audit, bundle>>

\* The planner abstained, or the policy does not allow the solver it chose.
ExecuteLocally ==
  /\ \E p \in plan : p.target = "none" \/ ~Authorised(p.target)
  /\ Return("execution")
  /\ RunLocal(Local(size))
  /\ blocked' = TRUE
  /\ UNCHANGED <<request, size, plan, called, spent, checked, audit, bundle>>

\* solve of the chosen solver is called.
Call(target) ==
  /\ called' = called \cup {target}
  /\ spent' \in IF target \in Paid THEN Prices \cup {0} ELSE {0}
  /\ UNCHANGED <<request, size, plan, blocked, checked, audit, bundle>>

\* It raises, before or after the provider ran it, or decoding does.
FailInSolver ==
  \E p \in plan :
    /\ p.target # "none" /\ Authorised(p.target)
    /\ Raise("execution")
    /\ RunLocal(Local(size))
    /\ Call(p.target)

\* It answers; the noisy pass of the simulator may follow and may raise.
ExecuteQuantum ==
  \E p \in plan, c \in Solution \cup {NoResult}, q \in Solution, noisy \in BOOLEAN :
    /\ p.target # "none" /\ Authorised(p.target)
    /\ noisy => p.target = "qaoa_sim"
    /\ \/ Return("execution")
          /\ ran' = ran \cup Local(size) \cup {"quantum"}
                        \cup {m \in {"qaoa_noisy_sim"} : noisy}
       \/ noisy /\ Raise("execution") /\ ran' = ran \cup Local(size) \cup {"quantum"}
    /\ value' = [value EXCEPT !["instance_milp"] = c, !["quantum"] = q]
    /\ Call(p.target)

Execution ==
  SkipExecution \/ FailLocally \/ ExecuteLocally \/ FailInSolver \/ ExecuteQuantum

-----------------------------------------------------------------------------
(* The agents that judge the results.                                      *)

\* Mutant of Verification: its failure is swallowed.
VerificationSwallowed ==
  /\ Return("verification")
  /\ checked' \in {checked, TRUE}
  /\ UNCHANGED <<request, size, plan, ran, value, called, spent, blocked, audit, bundle>>

\* verification_agent: the reports are assigned at the end, all or none.
Verification ==
  \/ /\ Return("verification")
     /\ checked' = TRUE
     /\ UNCHANGED <<request, size, plan, ran, value, called, spent, blocked, audit, bundle>>
  \/ Raise("verification") /\ UNCHANGED state

ProblemInfeasible == "classical_milp" \in ran /\ ~value["classical_milp"].feasible

\* The classical objective the auditor compares with: recomputed from the
\* allocation if there is a report, where posting nothing costs nothing, and
\* else the one the method reported.
ClassicalCost ==
  IF checked /\ "instance_milp" \in ran /\ value["instance_milp"] = NoResult
    THEN 0
    ELSE value["instance_milp"].cost

Abstained == \A p \in plan : p.abstain

\* Mutant of Category: the feasibility of the quantum result is not looked at.
CategoryUnchecked ==
  LET q == value["quantum"]
  IN IF ProblemInfeasible THEN "CLASSICAL_PREFERRED"
     ELSE IF Abstained \/ "quantum" \notin ran THEN "QUANTUM_NOT_FEASIBLE"
     ELSE IF ClassicalCost = NoResult.cost THEN "QUANTUM_RESEARCH_CANDIDATE"
     ELSE IF q.cost < ClassicalCost THEN "QUANTUM_IMPROVEMENT_OBSERVED"
     ELSE IF q.cost = ClassicalCost THEN "QUANTUM_PARITY"
     ELSE "CLASSICAL_PREFERRED"

\* The cascade of auditor_agent.
Category ==
  LET q == value["quantum"]
  IN IF ProblemInfeasible THEN "CLASSICAL_PREFERRED"
     ELSE IF Abstained \/ "quantum" \notin ran THEN "QUANTUM_NOT_FEASIBLE"
     ELSE IF ~q.feasible THEN "CLASSICAL_PREFERRED"
     ELSE IF ClassicalCost = NoResult.cost THEN "QUANTUM_RESEARCH_CANDIDATE"
     ELSE IF q.cost < ClassicalCost THEN "QUANTUM_IMPROVEMENT_OBSERVED"
     ELSE IF q.cost = ClassicalCost THEN "QUANTUM_PARITY"
     ELSE "CLASSICAL_PREFERRED"

\* objective_gap_pct is set.
HasGap ==
  /\ ~ProblemInfeasible /\ ~Abstained /\ "quantum" \in ran
  /\ value["quantum"].feasible /\ ClassicalCost # NoResult.cost

Recommended ==
  IF ProblemInfeasible THEN "none"
  ELSE IF Category = "QUANTUM_IMPROVEMENT_OBSERVED" THEN "quantum"
  ELSE "classical_milp"

Decision == [category |-> Category, recommended |-> Recommended, gap |-> HasGap,
             signed |-> Allowed(request, "recommend_production", 0)]

Auditor ==
  \/ /\ Return("auditor")
     /\ audit' = {Decision}
     /\ UNCHANGED <<request, size, plan, ran, value, called, spent, blocked, checked, bundle>>
  \/ Raise("auditor") /\ UNCHANGED state

\* governance_agent: build_bundle takes what the state holds by then.
Governance ==
  \/ /\ Return("governance")
     /\ bundle' = {[ran |-> ran, audit |-> audit, plan |-> plan, checked |-> checked,
                    blocked |-> blocked, errors |-> {errors[i] : i \in 1..Len(errors)}]}
     /\ UNCHANGED <<request, size, plan, ran, value, called, spent, blocked, checked, audit>>
  \/ Raise("governance") /\ UNCHANGED state

-----------------------------------------------------------------------------
PipeNext ==
  \/ \E s \in StepNames : Describe(s)
  \/ ClassicalBaseline
  \/ HardwarePlanner
  \/ QuantumAlgorithm
  \/ Execution
  \/ Verification
  \/ Auditor
  \/ Governance

PipeSpec == PipeInit /\ [][PipeNext]_pipeVars

-----------------------------------------------------------------------------
(* What a run may do.                                                      *)

\* A paid solver is called only at autonomy L3 or above, with approval, when
\* the request asked for that provider and its credentials are there; and no
\* provider charges anything otherwise.  Neither a failed step nor the
\* planner's fallbacks open another way to it (policy.py:49-86,
\* planner.py:48-96, quantum_agent.py:131-138).
PaidRunsGated ==
  /\ \A b \in called \cap Paid :
       /\ request.level >= 3 /\ request.approved
       /\ b \in request.available
       /\ b = "dwave_hybrid" => request.qpu = "dwave" /\ request.anneal
       /\ b = "qaoa_ibm" => request.qpu = "ibm" /\ request.gate
  /\ spent # 0 => called \cap Paid # {}

\* What is executed is what was planned: one solver at most, the one of the
\* plan in the evidence, and none when the planner abstained, did not run, or
\* the instance does not fit the limits (planner.py:48-75,
\* quantum_agent.py:131-135).
ExecutesThePlan ==
  /\ \A b \in called : \E p \in plan : p.target = b /\ ~p.abstain
  /\ Cardinality(called) <= 1
  /\ "quantum" \in ran => called # {}
  /\ called # {} => size \in 1..MaxEffective
  /\ "qaoa_sim" \in called => size <= StatevectorLimit /\ request.level >= 2

Favourable == {"QUANTUM_PARITY", "QUANTUM_RESEARCH_CANDIDATE", "QUANTUM_IMPROVEMENT_OBSERVED"}

\* The agent in place k has had its turn.
Over(k) == turn > k \/ ending # "none"

\* Which agent made what the state holds: what ties the results to the plan
\* and the plan to the policy while the agents take their turns, and makes
\* the properties of this section inductive.
TurnInv ==
  /\ turn \in 1..Len(Steps) + 1
  /\ plan # {} => Over(4) /\ size \in Sizes /\ plan = {PlanFor(size)}
  /\ called # {} => Over(6) /\ plan # {}
  /\ audit # {} => Over(8)
  /\ \A b \in called : b # "none" /\ b = PlanFor(size).target /\ Authorised(b)
  /\ spent # 0 => called \cap Paid # {}
  /\ "quantum" \in ran => called # {}

\* A decision in favour of the quantum result rests on a solver that was
\* called, on a solution that meets the constraints, and on a problem that
\* has a solution; whichever steps failed on the way (auditor.py:36-135).
FavourRestsOnResult ==
  \A d \in audit :
    d.category \in Favourable =>
      /\ called # {} /\ "quantum" \in ran /\ value["quantum"].feasible
      /\ ~ProblemInfeasible

Failures == {errors[i] : i \in 1..Len(errors)}

\* "Not feasible on present hardware" is never said of a run that has a
\* quantum result; and when the planner had chosen a backend, the evidence
\* says why there is none: the execution step failed, or a warning says that
\* it was not executed.  The branch "no QAOA result was recorded" is dead
\* (auditor.py:62-79).
CauseOnRecord ==
  \A d \in audit :
    d.category = "QUANTUM_NOT_FEASIBLE" =>
      /\ "quantum" \notin ran
      /\ Abstained \/ blocked \/ "execution" \in Failures

\* A bundle without errors is a complete one: the full problem and the
\* instance were solved, the hardware planned, the reports made and the
\* decision taken; its quantum result is missing only under a warning, and
\* what it says in favour of one was verified (workflow.py:10-11,
\* report.py:86-115).
CleanBundleComplete ==
  \A b \in bundle : b.errors = {} =>
    /\ {"classical_milp", "instance_milp"} \subseteq b.ran
    /\ b.plan # {} /\ b.audit # {} /\ b.checked
    /\ "quantum" \in b.ran \/ b.blocked
    /\ \A d \in b.audit : d.category \in Favourable => "quantum" \in b.ran

=============================================================================
