---------------------------- MODULE PipelineProofs ----------------------------
(***************************************************************************)
(* Proofs about Pipeline and its callers in Frontends, for every set of    *)
(* policies, instances, costs and prices, every limit, every set of calls, *)
(* and whichever agents raise.                                             *)
(***************************************************************************)
EXTENDS Frontends, FiniteSetTheorems, TLAPS

(* The agent whose turn it is, and its place in the list.                  *)
LEMMA PlaceOfStep ==
  ASSUME turn \in 1..Len(Steps) + 1, NEW s, At(s)
  PROVE  /\ ending = "none" /\ turn \in 1..9
         /\ s = "hardware_planner" => turn = 4
         /\ s = "execution" => turn = 6
         /\ s = "auditor" => turn = 8
         /\ s \in {"requirements", "formulation", "classical_baseline", "quantum_algorithm",
                   "verification"} => turn < 8
         /\ s = "governance" => turn = 9
<1>1. Steps = Agents /\ Len(Steps) = 9
  BY PipelineAssumption DEF Agents
<1>2. turn \in 1..9 /\ Agents[turn] = s /\ ending = "none"
  BY <1>1 DEF At
<1> QED
  BY <1>2 DEF Agents

(* However a step ends, its agent has had its turn afterwards.             *)
LEMMA StepEnds ==
  ASSUME turn \in 1..Len(Steps) + 1, NEW s, Return(s) \/ Raise(s)
  PROVE  /\ At(s)
         /\ turn' \in 1..Len(Steps) + 1
         /\ turn' >= turn
         /\ turn' > turn \/ ending' # "none"
<1>1. Len(Steps) = 9
  BY PipelineAssumption DEF Agents
<1>2. At(s) /\ (Continue \/ Abort)
  BY DEF Return, Raise, Returned, EmitRaised, Record
<1>3. turn \in 1..9
  BY <1>1, <1>2 DEF At
<1> QED
  BY <1>1, <1>2, <1>3 DEF Continue, Abort

(* A step of an agent whose turn is not one of those that decide what is    *)
(* executed leaves their turns where they were.                            *)
LEMMA OverStays ==
  ASSUME turn \in 1..Len(Steps) + 1, NEW s, Return(s) \/ Raise(s), NEW k \in Nat
  PROVE  /\ Over(k) => Over(k)'
         /\ turn = k => Over(k)'
<1>1. Len(Steps) = 9
  BY PipelineAssumption DEF Agents
<1> QED
  BY <1>1, StepEnds DEF Over, At
-----------------------------------------------------------------------------
(* The inductive invariant.                                                *)

(* A run starts with nothing planned, executed, charged or decided.        *)
LEMMA InitTurnInv ==
  ASSUME PipeInit
  PROVE  TurnInv
<1> Len(Steps) = 9
  BY PipelineAssumption DEF Agents
<1> QED
  BY DEF PipeInit, RunInit, TurnInv

(* A step keeps the invariant when it keeps what the invariant is about.    *)
LEMMA KeepsTurnInv ==
  ASSUME TurnInv, NEW s, Return(s) \/ Raise(s),
         UNCHANGED <<request, size, plan, called, spent>>,
         "quantum" \in ran' => "quantum" \in ran,
         audit' = audit \/ turn = 8
  PROVE  TurnInv'
<1>1. turn' \in 1..Len(Steps) + 1
  BY StepEnds DEF TurnInv
<1>2. /\ Over(4) => Over(4)'
      /\ Over(6) => Over(6)'
      /\ Over(8) => Over(8)'
      /\ turn = 8 => Over(8)'
  BY OverStays DEF TurnInv
<1>3. (plan # {} => Over(4) /\ size \in Sizes /\ plan = {PlanFor(size)})'
  BY <1>2 DEF TurnInv, PlanFor, Abstains, Target, UsesAnnealer
<1>4. \A b \in called' :
        (b # "none" /\ b = PlanFor(size).target /\ Authorised(b))'
  BY DEF TurnInv, PlanFor, Abstains, Target, UsesAnnealer, Authorised
<1> QED
  BY <1>1, <1>2, <1>3, <1>4 DEF TurnInv

(* The planner's turn comes before anything is executed, so the plan it     *)
(* makes is the first and the only one.                                    *)
LEMMA PlannerTurnInv ==
  ASSUME TurnInv, HardwarePlanner
  PROVE  TurnInv'
<1>1. turn = 4 /\ ending = "none"
  BY StepEnds, PlaceOfStep DEF TurnInv, HardwarePlanner
<1>2. plan = {} /\ called = {} /\ audit = {} /\ "quantum" \notin ran /\ spent = 0
  BY <1>1 DEF TurnInv, Over
<1>3. UNCHANGED <<request, ran, called, spent, audit>>
  BY DEF HardwarePlanner
<1>4. turn' \in 1..Len(Steps) + 1 /\ Over(4)'
  BY <1>1, StepEnds, OverStays DEF TurnInv, HardwarePlanner
<1>5. plan' # {} => \E n \in Sizes : size' = n /\ plan' = {PlanFor(n)}
  BY <1>2 DEF HardwarePlanner
<1>6. plan' # {} => size' \in Sizes /\ plan' = {PlanFor(size)'}
  BY <1>3, <1>5 DEF PlanFor, Abstains, Target, UsesAnnealer
<1> QED
  BY <1>2, <1>3, <1>4, <1>6 DEF TurnInv

(* A solver is called only by the execution agent, and it is the one the    *)
(* plan names and the policy allows.                                       *)
LEMMA CallTurnInv ==
  ASSUME TurnInv, NEW p \in plan, p.target # "none", Authorised(p.target), Call(p.target),
         Return("execution") \/ Raise("execution")
  PROVE  TurnInv'
<1>1. turn = 6 /\ ending = "none"
  BY StepEnds, PlaceOfStep DEF TurnInv
<1>2. called = {} /\ audit = {} /\ spent = 0
  BY <1>1 DEF TurnInv, Over
<1>3. plan = {PlanFor(size)} /\ size \in Sizes /\ p = PlanFor(size)
  BY DEF TurnInv
<1>4. /\ called' = {p.target}
      /\ spent' # 0 => p.target \in Paid
      /\ UNCHANGED <<request, size, plan, audit>>
  BY <1>2 DEF Call
<1>5. turn' \in 1..Len(Steps) + 1 /\ Over(4)' /\ Over(6)'
  BY <1>1, StepEnds, OverStays DEF TurnInv, Over
<1>6. (plan = {PlanFor(size)} /\ size \in Sizes)'
  BY <1>3, <1>4 DEF PlanFor, Abstains, Target, UsesAnnealer
<1>7. (p.target = PlanFor(size).target /\ Authorised(p.target))'
  BY <1>3, <1>4 DEF PlanFor, Abstains, Target, UsesAnnealer, Authorised
<1> QED
  BY <1>2, <1>3, <1>4, <1>5, <1>6, <1>7 DEF TurnInv

(* The execution agent, whichever way it goes.                             *)
LEMMA ExecutionTurnInv ==
  ASSUME TurnInv, Execution
  PROVE  TurnInv'
<1>1. CASE SkipExecution
  BY <1>1, KeepsTurnInv DEF SkipExecution, state
<1>2. ASSUME NEW n, NEW m \in Local(n)
      PROVE  m # "quantum"
  BY <1>2 DEF Local
<1>3. CASE FailLocally
  <2>1. PICK done \in PartOfLocal(size) : RunLocal(done)
    BY <1>3 DEF FailLocally
  <2>2. "quantum" \notin done
    BY <1>2 DEF PartOfLocal, Local
  <2> QED
    BY <1>3, <2>1, <2>2, KeepsTurnInv DEF FailLocally, RunLocal
<1>4. CASE ExecuteLocally
  BY <1>2, <1>4, KeepsTurnInv DEF ExecuteLocally, RunLocal
<1>5. CASE FailInSolver
  BY <1>5, CallTurnInv DEF FailInSolver
<1>6. CASE ExecuteQuantum
  BY <1>6, CallTurnInv DEF ExecuteQuantum
<1> QED
  BY <1>1, <1>3, <1>4, <1>5, <1>6 DEF Execution

(* Every agent keeps the invariant.                                        *)
LEMMA StepTurnInv ==
  ASSUME TurnInv, [PipeNext]_pipeVars
  PROVE  TurnInv'
<1>1. CASE UNCHANGED pipeVars
  BY <1>1 DEF pipeVars, runVars, state, TurnInv, Over, PlanFor, Abstains, Target,
              UsesAnnealer, Authorised
<1>2. CASE \E s \in StepNames : Describe(s)
  BY <1>2, KeepsTurnInv DEF Describe, state
<1>3. CASE ClassicalBaseline
  <2>1. "quantum" \in ran' => "quantum" \in ran
    BY <1>3 DEF ClassicalBaseline, state
  <2> QED
    BY <1>3, <2>1, KeepsTurnInv DEF ClassicalBaseline, state
<1>4. CASE HardwarePlanner
  BY <1>4, PlannerTurnInv
<1>5. CASE QuantumAlgorithm
  BY <1>5, KeepsTurnInv DEF QuantumAlgorithm, state
<1>6. CASE Execution
  BY <1>6, ExecutionTurnInv
<1>7. CASE Verification
  BY <1>7, KeepsTurnInv DEF Verification, state
<1>8. CASE Auditor
  <2>1. turn = 8
    BY <1>8, StepEnds, PlaceOfStep DEF Auditor, TurnInv
  <2> QED
    BY <1>8, <2>1, KeepsTurnInv DEF Auditor, state
<1>9. CASE Governance
  BY <1>9, KeepsTurnInv DEF Governance, state
<1> QED
  BY <1>1, <1>2, <1>3, <1>4, <1>5, <1>6, <1>7, <1>8, <1>9 DEF PipeNext

(* The plan, what was called and the policy agree throughout every run.     *)
THEOREM TurnsAgree == PipeSpec => []TurnInv
<1> QED
  BY InitTurnInv, StepTurnInv, PTL DEF PipeSpec
-----------------------------------------------------------------------------
(* What the policy engine answers.                                         *)

(* Paid execution is allowed at L3 or above, with approval, within budget.  *)
LEMMA PaidNeedsApproval ==
  ASSUME NEW r, NEW cost, Allowed(r, "run_paid_qpu", cost)
  PROVE  r.level >= 3 /\ r.approved /\ cost <= r.budget
  BY DEF Allowed, MinLevel, Actions

(* The simulator is allowed at L2 or above.                                 *)
LEMMA SimulatorNeedsLevel ==
  ASSUME NEW r, NEW cost, Allowed(r, "run_simulator", cost)
  PROVE  r.level >= 2
  BY DEF Allowed, MinLevel, Actions

(* What the plan's target says of the instance and the request.            *)
LEMMA PlanMeansAllowed ==
  ASSUME NEW n \in Sizes, PlanFor(n).target # "none"
  PROVE  /\ ~PlanFor(n).abstain
         /\ n \in 1..MaxEffective
         /\ PlanFor(n).target \in QuantumSolvers
         /\ PlanFor(n).target = "dwave_hybrid" => UsesAnnealer
         /\ PlanFor(n).target = "qaoa_ibm" =>
              request.qpu = "ibm" /\ request.gate /\ "qaoa_ibm" \in request.available
         /\ PlanFor(n).target = "qaoa_sim" => n <= StatevectorLimit
<1>1. n \in Nat /\ MaxEffective \in Nat /\ StatevectorLimit \in Nat
  BY PipelineAssumption
<1>2. ~Abstains(n) /\ PlanFor(n).target = Target /\ ~PlanFor(n).abstain
  BY DEF PlanFor
<1> QED
  BY <1>1, <1>2 DEF Abstains, Target, QuantumSolvers, Paid

-----------------------------------------------------------------------------
(* The theorems.                                                           *)

(* No run calls a paid solver without the autonomy, the approval, the       *)
(* request and the credentials for it, or is charged without calling one.  *)
THEOREM PaidSolversAreGated == PipeSpec => []PaidRunsGated
<1>1. ASSUME TurnInv
      PROVE  PaidRunsGated
  <2>1. ASSUME NEW b \in called \cap Paid
        PROVE  /\ request.level >= 3 /\ request.approved
               /\ b \in request.available
               /\ b = "dwave_hybrid" => request.qpu = "dwave" /\ request.anneal
               /\ b = "qaoa_ibm" => request.qpu = "ibm" /\ request.gate
    <3>1. b # "none" /\ b = PlanFor(size).target /\ Authorised(b) /\ size \in Sizes
      BY <1>1, <2>1 DEF TurnInv
    <3>2. request.level >= 3 /\ request.approved
      BY <2>1, <3>1, PaidNeedsApproval DEF Authorised
    <3> QED
      BY <2>1, <3>1, <3>2, PlanMeansAllowed DEF Paid, UsesAnnealer
  <2> QED
    BY <1>1, <2>1 DEF PaidRunsGated, TurnInv
<1> QED
  BY <1>1, TurnsAgree, PTL

(* A run executes what it planned and nothing else.                        *)
THEOREM PlansAreExecuted == PipeSpec => []ExecutesThePlan
<1>1. ASSUME TurnInv
      PROVE  ExecutesThePlan
  <2>1. ASSUME NEW b \in called
        PROVE  /\ \E p \in plan : p.target = b /\ ~p.abstain
               /\ size \in 1..MaxEffective
               /\ b = "qaoa_sim" => size <= StatevectorLimit /\ request.level >= 2
    <3>1. /\ b # "none" /\ b = PlanFor(size).target /\ Authorised(b)
          /\ size \in Sizes /\ plan = {PlanFor(size)}
      BY <1>1, <2>1 DEF TurnInv
    <3>2. b = "qaoa_sim" => request.level >= 2
      BY <3>1, SimulatorNeedsLevel DEF Authorised, Paid
    <3> QED
      BY <3>1, <3>2, PlanMeansAllowed
  <2>2. Cardinality(called) <= 1
    <3>1. called \subseteq {PlanFor(size).target}
      BY <1>1 DEF TurnInv
    <3>2. IsFiniteSet({PlanFor(size).target}) /\ Cardinality({PlanFor(size).target}) = 1
      BY FS_Singleton
    <3> QED
      BY <3>1, <3>2, FS_Subset
  <2>3. called # {} => size \in 1..MaxEffective
    BY <2>1
  <2>4. "quantum" \in ran => called # {}
    BY <1>1 DEF TurnInv
  <2> QED
    BY <2>1, <2>2, <2>3, <2>4 DEF ExecutesThePlan
<1> QED
  BY <1>1, TurnsAgree, PTL

(* A step that takes no decision after the auditor's turn, and changes no   *)
(* result by then, keeps a decision founded.                               *)
LEMMA FavourStays ==
  ASSUME FavourRestsOnResult, UNCHANGED <<ran, value, called, audit>>
  PROVE  FavourRestsOnResult'
  BY DEF FavourRestsOnResult, ProblemInfeasible

(* Before the auditor's turn there is no decision.                         *)
LEMMA EarlyStepFavour ==
  ASSUME TurnInv, NEW s, At(s), turn < 8, UNCHANGED audit
  PROVE  FavourRestsOnResult'
  BY DEF FavourRestsOnResult, TurnInv, Over, At

(* A category in favour of the quantum result is given on its merits.       *)
LEMMA CategoryIsFounded ==
  ASSUME TurnInv, Category \in Favourable
  PROVE  called # {} /\ "quantum" \in ran /\ value["quantum"].feasible /\ ~ProblemInfeasible
<1>1. "quantum" \in ran /\ value["quantum"].feasible /\ ~ProblemInfeasible
  BY DEF Category, Favourable
<1> QED
  BY <1>1 DEF TurnInv

(* Every agent keeps decisions founded.                                     *)
LEMMA StepFavour ==
  ASSUME TurnInv, FavourRestsOnResult, [PipeNext]_pipeVars
  PROVE  FavourRestsOnResult'
<1>1. CASE UNCHANGED pipeVars
  BY <1>1, FavourStays DEF pipeVars, state
<1>2. CASE \E s \in StepNames : Describe(s)
  BY <1>2, FavourStays DEF Describe, state
<1>3. CASE ClassicalBaseline
  <2>1. At("classical_baseline") /\ turn < 8 /\ UNCHANGED audit
    BY <1>3, StepEnds, PlaceOfStep DEF ClassicalBaseline, state, TurnInv
  <2> QED
    BY <2>1, EarlyStepFavour
<1>4. CASE HardwarePlanner
  BY <1>4, FavourStays DEF HardwarePlanner, state
<1>5. CASE QuantumAlgorithm
  BY <1>5, FavourStays DEF QuantumAlgorithm, state
<1>6. CASE Execution
  <2>1. (Return("execution") \/ Raise("execution")) /\ UNCHANGED audit
    BY <1>6 DEF Execution, SkipExecution, FailLocally, ExecuteLocally, FailInSolver,
                ExecuteQuantum, Call, state
  <2>2. At("execution") /\ turn < 8
    BY <2>1, StepEnds, PlaceOfStep DEF TurnInv
  <2> QED
    BY <2>1, <2>2, EarlyStepFavour
<1>7. CASE Verification
  BY <1>7, FavourStays DEF Verification, state
<1>8. CASE Auditor
  <2>1. CASE UNCHANGED state
    BY <2>1, FavourStays DEF state
  <2>2. CASE audit' = {Decision} /\ UNCHANGED <<ran, value, called>>
    <3>1. ASSUME NEW d \in audit', d.category \in Favourable
          PROVE  Category \in Favourable
      BY <2>2, <3>1 DEF Decision
    <3> QED
      BY <2>2, <3>1, CategoryIsFounded DEF FavourRestsOnResult, ProblemInfeasible
  <2> QED
    BY <1>8, <2>1, <2>2 DEF Auditor
<1>9. CASE Governance
  BY <1>9, FavourStays DEF Governance, state
<1> QED
  BY <1>1, <1>2, <1>3, <1>4, <1>5, <1>6, <1>7, <1>8, <1>9 DEF PipeNext

(* A decision in favour of the quantum result rests on a result that exists,*)
(* meets the constraints and belongs to a problem with a solution.         *)
THEOREM FavourIsFounded == PipeSpec => []FavourRestsOnResult
<1>1. PipeInit => FavourRestsOnResult
  BY DEF PipeInit, FavourRestsOnResult
<1> QED
  BY <1>1, StepFavour, TurnsAgree, PTL DEF PipeSpec
-----------------------------------------------------------------------------
(* What is on record of the agents that had their turn.                    *)

\* The agent in place k left what it is there for, or its failure is recorded.
Accounted(k, fact) == turn > k => fact \/ Steps[k] \in Failures

Executed == "instance_milp" \in ran /\ ("quantum" \in ran \/ blocked)

\* What every agent accounts for, by the time a decision or a bundle is made of
\* it: the strengthening that makes CauseOnRecord and CleanBundleComplete
\* inductive.
RecordInv ==
  /\ errors \in Seq(StepNames)
  /\ Accounted(3, "classical_milp" \in ran)
  /\ Accounted(4, plan # {})
  /\ Accounted(6, plan = {} \/ Executed)
  /\ Accounted(7, checked)
  /\ Accounted(8, audit # {})

(* The loop goes on by one step or ends; a failure is recorded, and none is *)
(* forgotten.                                                              *)
LEMMA StepOnRecord ==
  ASSUME TurnInv, errors \in Seq(StepNames), NEW s, Return(s) \/ Raise(s)
  PROVE  /\ errors' \in Seq(StepNames)
         /\ Failures \subseteq Failures' /\ Failures' \subseteq Failures \cup {s}
         /\ turn \in 1..9 /\ turn' \in {turn, turn + 1} /\ s = Steps[turn]
         /\ Raise(s) => s \in Failures'
<1>1. turn \in 1..9 /\ s = Steps[turn] /\ s \in StepNames
  <2>1. At(s) /\ Len(Steps) = 9
    BY StepEnds, PipelineAssumption DEF TurnInv, Agents
  <2> QED
    BY <2>1 DEF At, StepNames, TurnInv
<1>2. turn' \in {turn, turn + 1} /\ errors' \in {errors, Append(errors, s)}
  BY DEF Return, Raise, Returned, EmitRaised, Record, Continue, Abort
<1>3. Raise(s) => errors' = Append(errors, s)
  BY DEF Raise, Record
<1>4. /\ Append(errors, s) \in Seq(StepNames) /\ Len(Append(errors, s)) = Len(errors) + 1
      /\ \A n \in 1..Len(errors) : Append(errors, s)[n] = errors[n]
      /\ Append(errors, s)[Len(errors) + 1] = s
      /\ Len(errors) \in Nat
  BY <1>1
<1>5. Failures' = {errors'[n] : n \in 1..Len(errors')}
  BY DEF Failures
<1>6. Failures \subseteq Failures'
  BY <1>2, <1>4, <1>5 DEF Failures
<1>7. errors' = Append(errors, s) => s \in Failures'
  BY <1>4, <1>5
<1>8. Failures' \subseteq Failures \cup {s}
  <2>1. CASE errors' = errors
    BY <1>5, <2>1 DEF Failures
  <2>2. CASE errors' = Append(errors, s)
    BY <1>4, <1>5, <2>2 DEF Failures
  <2> QED
    BY <1>2, <2>1, <2>2
<1> QED
  BY <1>1, <1>2, <1>3, <1>4, <1>6, <1>7, <1>8

(* A step keeps the account when results, warnings, reports and decisions   *)
(* only grow, the plan stays after the planner, and the agent accounts for  *)
(* its own part.                                                           *)
LEMMA AccountKept ==
  ASSUME TurnInv, RecordInv, NEW s, Return(s) \/ Raise(s),
         ran \subseteq ran', blocked => blocked', checked => checked',
         audit # {} => audit' # {}, plan' = plan \/ turn = 4,
         turn = 3 => "classical_milp" \in ran' \/ Raise(s),
         turn = 4 => plan' # {} \/ Raise(s),
         turn = 6 => plan' = {} \/ Executed' \/ Raise(s),
         turn = 7 => checked' \/ Raise(s),
         turn = 8 => audit' # {} \/ Raise(s)
  PROVE  RecordInv'
<1>1. /\ errors' \in Seq(StepNames)
      /\ Failures \subseteq Failures'
      /\ turn \in 1..9 /\ turn' \in {turn, turn + 1} /\ s = Steps[turn]
      /\ Raise(s) => s \in Failures'
  BY StepOnRecord DEF RecordInv
<1>2. ASSUME NEW k \in 1..9, turn' > k
      PROVE  turn > k \/ turn = k
  BY <1>1, <1>2
<1>3. Executed => Executed'
  BY DEF Executed
<1>4. Accounted(3, "classical_milp" \in ran)'
  BY <1>1, <1>2 DEF RecordInv, Accounted
<1>5. Accounted(4, plan # {})'
  BY <1>1, <1>2 DEF RecordInv, Accounted
<1>6. Accounted(6, plan = {} \/ Executed)'
  BY <1>1, <1>2, <1>3 DEF RecordInv, Accounted
<1>7. Accounted(7, checked)'
  BY <1>1, <1>2 DEF RecordInv, Accounted
<1>8. Accounted(8, audit # {})'
  BY <1>1, <1>2 DEF RecordInv, Accounted
<1> QED
  BY <1>1, <1>4, <1>5, <1>6, <1>7, <1>8 DEF RecordInv

(* The place of every agent.                                               *)
LEMMA TurnOf ==
  ASSUME TurnInv, NEW s, Return(s) \/ Raise(s)
  PROVE  /\ turn = 3 <=> s = "classical_baseline"
         /\ turn = 4 <=> s = "hardware_planner"
         /\ turn = 6 <=> s = "execution"
         /\ turn = 7 <=> s = "verification"
         /\ turn = 8 <=> s = "auditor"
         /\ turn = 9 <=> s = "governance"
<1>1. Steps = Agents /\ Len(Steps) = 9 /\ At(s)
  BY StepEnds, PipelineAssumption DEF TurnInv, Agents
<1>2. turn \in 1..9 /\ Agents[turn] = s
  BY <1>1 DEF At, TurnInv
<1> QED
  BY <1>2 DEF Agents

(* The execution agent says what it has done, or fails.                     *)
LEMMA ExecutionOnRecord ==
  ASSUME TurnInv, Execution
  PROVE  /\ Return("execution") \/ Raise("execution")
         /\ ran \subseteq ran'
         /\ blocked => blocked'
         /\ UNCHANGED <<plan, checked, audit, bundle>>
         /\ plan' = {} \/ Executed' \/ Raise("execution")
<1>1. "instance_milp" \in Local(size)
  BY DEF Local
<1>2. CASE SkipExecution
  BY <1>2 DEF SkipExecution, state
<1>3. CASE FailLocally
  BY <1>3 DEF FailLocally, RunLocal
<1>4. CASE ExecuteLocally
  BY <1>1, <1>4 DEF ExecuteLocally, RunLocal, Executed
<1>5. CASE FailInSolver
  BY <1>5 DEF FailInSolver, RunLocal, Call
<1>6. CASE ExecuteQuantum
  BY <1>1, <1>6 DEF ExecuteQuantum, Call, Executed
<1> QED
  BY <1>2, <1>3, <1>4, <1>5, <1>6 DEF Execution

(* Every agent keeps the account.                                           *)
LEMMA StepRecordInv ==
  ASSUME TurnInv, RecordInv, [PipeNext]_pipeVars
  PROVE  RecordInv'
<1>1. CASE UNCHANGED pipeVars
  BY <1>1 DEF pipeVars, runVars, state, RecordInv, Accounted, Executed, Failures
<1>2. CASE \E s \in StepNames : Describe(s)
  BY <1>2, AccountKept, TurnOf DEF Describe, state
<1>3. CASE ClassicalBaseline
  BY <1>3, AccountKept, TurnOf DEF ClassicalBaseline, state
<1>4. CASE HardwarePlanner
  BY <1>4, AccountKept, TurnOf DEF HardwarePlanner, state
<1>5. CASE QuantumAlgorithm
  BY <1>5, AccountKept, TurnOf DEF QuantumAlgorithm, state
<1>6. CASE Execution
  <2>1. /\ Return("execution") \/ Raise("execution")
        /\ ran \subseteq ran'
        /\ blocked => blocked'
        /\ plan' = plan /\ checked' = checked /\ audit' = audit
        /\ plan' = {} \/ Executed' \/ Raise("execution")
    BY <1>6, ExecutionOnRecord
  <2>2. turn = 6
    BY <2>1, TurnOf
  <2> QED
    BY <2>1, <2>2, AccountKept
<1>7. CASE Verification
  BY <1>7, AccountKept, TurnOf DEF Verification, state
<1>8. CASE Auditor
  BY <1>8, AccountKept, TurnOf DEF Auditor, state
<1>9. CASE Governance
  BY <1>9, AccountKept, TurnOf DEF Governance, state
<1> QED
  BY <1>1, <1>2, <1>3, <1>4, <1>5, <1>6, <1>7, <1>8, <1>9 DEF PipeNext

(* Whatever fails, every agent that had its turn is accounted for.          *)
LEMMA AlwaysOnRecord == PipeSpec => []RecordInv
<1>1. PipeInit => RecordInv
  BY DEF PipeInit, RunInit, RecordInv, Accounted
<1> QED
  BY <1>1, StepRecordInv, TurnsAgree, PTL DEF PipeSpec

-----------------------------------------------------------------------------
(* Decisions and bundles.                                                  *)

(* A run with a quantum result did not abstain.                             *)
LEMMA ResultMeansPlanned ==
  ASSUME TurnInv, "quantum" \in ran
  PROVE  ~Abstained
<1>1. PICK b \in called : b # "none" /\ b = PlanFor(size).target
  BY DEF TurnInv
<1>2. plan = {PlanFor(size)} /\ ~PlanFor(size).abstain
  BY <1>1 DEF TurnInv, PlanFor
<1> QED
  BY <1>2 DEF Abstained

(* The auditor's "not feasible" has its cause on record.                    *)
LEMMA CategoryHasCause ==
  ASSUME TurnInv, RecordInv, turn = 8, Category = "QUANTUM_NOT_FEASIBLE"
  PROVE  "quantum" \notin ran /\ (Abstained \/ blocked \/ "execution" \in Failures)
<1>1. Abstained \/ "quantum" \notin ran
  BY DEF Category
<1>2. "quantum" \notin ran
  BY <1>1, ResultMeansPlanned
<1>3. Steps[6] = "execution"
  BY PipelineAssumption DEF Agents
<1>4. plan = {} \/ Executed \/ "execution" \in Failures
  BY <1>3 DEF RecordInv, Accounted
<1> QED
  BY <1>2, <1>4 DEF Executed, Abstained

LEMMA StepCause ==
  ASSUME TurnInv, RecordInv, CauseOnRecord, [PipeNext]_pipeVars
  PROVE  CauseOnRecord'
<1>1. CASE UNCHANGED pipeVars
  BY <1>1 DEF pipeVars, runVars, state, CauseOnRecord, Abstained, Failures
<1>2. ASSUME NEW s, Return(s) \/ Raise(s), UNCHANGED audit, turn # 9
      PROVE  CauseOnRecord'
  <2>1. audit = {} \/ turn > 8
    BY <1>2, StepEnds DEF TurnInv, Over, At
  <2>2. turn \in 1..9
    BY <1>2, StepOnRecord DEF RecordInv
  <2> QED
    BY <1>2, <2>1, <2>2 DEF CauseOnRecord
<1>3. CASE \E s \in StepNames : Describe(s)
  BY <1>2, <1>3, TurnOf DEF Describe, state
<1>4. CASE ClassicalBaseline
  BY <1>2, <1>4, TurnOf DEF ClassicalBaseline, state
<1>5. CASE HardwarePlanner
  BY <1>2, <1>5, TurnOf DEF HardwarePlanner
<1>6. CASE QuantumAlgorithm
  BY <1>2, <1>6, TurnOf DEF QuantumAlgorithm, state
<1>7. CASE Execution
  BY <1>2, <1>7, ExecutionOnRecord, TurnOf
<1>8. CASE Verification
  BY <1>2, <1>8, TurnOf DEF Verification, state
<1>9. CASE Auditor
  <2>1. turn = 8 /\ (Return("auditor") \/ Raise("auditor"))
    BY <1>9, TurnOf DEF Auditor
  <2>2. CASE UNCHANGED state
    BY <1>2, <2>1, <2>2 DEF state
  <2>3. CASE audit' = {Decision} /\ UNCHANGED <<ran, plan, blocked>>
    <3>1. Failures \subseteq Failures'
      BY <2>1, StepOnRecord DEF RecordInv
    <3>2. ASSUME NEW d \in audit', d.category = "QUANTUM_NOT_FEASIBLE"
          PROVE  Category = "QUANTUM_NOT_FEASIBLE"
      BY <2>3, <3>2 DEF Decision
    <3> QED
      BY <2>1, <2>3, <3>1, <3>2, CategoryHasCause DEF CauseOnRecord, Abstained
  <2> QED
    BY <1>9, <2>2, <2>3 DEF Auditor
<1>10. CASE Governance
  <2>1. UNCHANGED <<audit, ran, plan, blocked>> /\ Failures \subseteq Failures'
    BY <1>10, StepOnRecord DEF Governance, state, RecordInv
  <2> QED
    BY <2>1 DEF CauseOnRecord, Abstained
<1> QED
  BY <1>1, <1>3, <1>4, <1>5, <1>6, <1>7, <1>8, <1>9, <1>10 DEF PipeNext

(* For every policy, limit and pattern of failures: a decision that there   *)
(* is no quantum result is right, and the evidence says why there is none.  *)
THEOREM CausesAreRecorded == PipeSpec => []CauseOnRecord
<1>1. PipeInit => CauseOnRecord
  BY DEF PipeInit, CauseOnRecord
<1> QED
  BY <1>1, StepCause, TurnsAgree, AlwaysOnRecord, PTL DEF PipeSpec

(* What a step may do to the bundle.                                        *)
LEMMA StepBundle ==
  ASSUME TurnInv, RecordInv, FavourRestsOnResult, CleanBundleComplete, [PipeNext]_pipeVars
  PROVE  CleanBundleComplete'
<1>1. CASE UNCHANGED bundle
  BY <1>1 DEF CleanBundleComplete
<1>2. CASE Governance /\ bundle' # bundle
  <2>1. /\ turn = 9
        /\ bundle' = {[ran |-> ran, audit |-> audit, plan |-> plan, checked |-> checked,
                       blocked |-> blocked, errors |-> Failures]}
    BY <1>2, TurnOf DEF Governance, state, Failures
  <2>2. Failures = {} =>
          /\ {"classical_milp", "instance_milp"} \subseteq ran
          /\ plan # {} /\ audit # {} /\ checked
          /\ "quantum" \in ran \/ blocked
    BY <2>1 DEF RecordInv, Accounted, Executed
  <2>3. \A d \in audit : d.category \in Favourable => "quantum" \in ran
    BY DEF FavourRestsOnResult
  <2> QED
    BY <2>1, <2>2, <2>3 DEF CleanBundleComplete
<1>3. UNCHANGED bundle \/ Governance
  <2>1. CASE Execution
    BY <2>1, ExecutionOnRecord
  <2> QED
    BY <2>1 DEF PipeNext, Describe, ClassicalBaseline, HardwarePlanner, QuantumAlgorithm,
                Verification, Auditor, pipeVars, state
<1> QED
  BY <1>1, <1>2, <1>3

(* Whatever the policy and the instance, evidence that names no failed step *)
(* holds everything a run is for.                                          *)
THEOREM CleanBundlesAreComplete == PipeSpec => []CleanBundleComplete
<1>1. PipeInit => CleanBundleComplete
  BY DEF PipeInit, CleanBundleComplete
<1> QED
  BY <1>1, StepBundle, TurnsAgree, AlwaysOnRecord, FavourIsFounded, PTL DEF PipeSpec
-----------------------------------------------------------------------------
(* The callers.                                                            *)

(* What a caller sees of the pipeline is a run of the pipeline: every       *)
(* theorem above is one about the runs of both front ends.                 *)
THEOREM FrontsRunThePipeline == FrontSpec => PipeSpec
<1>1. FrontInit => PipeInit
  BY DEF FrontInit
<1>2. [FrontNext]_frontVars => [PipeNext]_pipeVars
  BY DEF FrontNext, frontVars, Reject, Serve, ApiRefuses, ApiAnswers, CliAborts, CliExits, Tell
<1> QED
  BY <1>1, <1>2, PTL DEF FrontSpec, PipeSpec

\* The bundle has the decision of the context and the failures of the agents
\* before governance, which is the last.
BundleInv ==
  /\ bundle # {} \/ "governance" \in Failures => Over(9)
  /\ \A b \in bundle : b.audit = audit /\ b.errors = Failures \ {"governance"}

(* After the governance agent nothing is executed any more; before it, there *)
(* is no bundle.                                                           *)
LEMMA StepBundleInv ==
  ASSUME TurnInv, RecordInv, BundleInv, [PipeNext]_pipeVars
  PROVE  BundleInv'
<1>1. CASE UNCHANGED pipeVars
  BY <1>1 DEF pipeVars, runVars, state, BundleInv, Over, Failures
<1>2. ASSUME NEW s, Return(s) \/ Raise(s)
      PROVE  /\ bundle = {} /\ "governance" \notin Failures
             /\ Failures' \ {"governance"} \subseteq Failures \cup ({s} \ {"governance"})
             /\ turn = 9 => Over(9)'
  <2>1. ~Over(9)
    BY <1>2, StepOnRecord, StepEnds DEF TurnInv, Over, At, RecordInv
  <2>2. turn = 9 => Over(9)'
    BY <1>2, OverStays DEF TurnInv
  <2> QED
    BY <1>2, <2>1, <2>2, StepOnRecord DEF BundleInv, RecordInv
<1>3. ASSUME NEW s, Return(s) \/ Raise(s), bundle' = bundle
      PROVE  BundleInv'
  <2>1. s # "governance" \/ turn = 9
    BY <1>3, TurnOf
  <2> QED
    BY <1>2, <1>3, <2>1, StepOnRecord DEF BundleInv, RecordInv
<1>4. CASE Governance
  <2>1. turn = 9 /\ (Return("governance") \/ Raise("governance"))
    BY <1>4, TurnOf DEF Governance
  <2>2. CASE UNCHANGED state
    BY <1>3, <2>1, <2>2 DEF state
  <2>3. CASE ~UNCHANGED state
    <3>1. /\ audit' = audit
          /\ \A b \in bundle' : b.audit = audit /\ b.errors = Failures
      BY <1>4, <2>3 DEF Governance, Failures
    <3>2. /\ Failures = Failures' \ {"governance"}
          /\ Over(9)'
      BY <1>2, <2>1, StepOnRecord DEF RecordInv
    <3> QED
      BY <3>1, <3>2 DEF BundleInv
  <2> QED
    BY <2>2, <2>3
<1>5. CASE PipeNext /\ ~Governance
  <2>1. CASE Execution
    BY <1>3, <2>1, ExecutionOnRecord
  <2> QED
    BY <1>3, <1>5, <2>1 DEF PipeNext, Describe, ClassicalBaseline, HardwarePlanner,
                            QuantumAlgorithm, Verification, Auditor, state
<1> QED
  BY <1>1, <1>4, <1>5

LEMMA AlwaysBundleInv == PipeSpec => []BundleInv
<1>1. PipeInit => BundleInv
  BY DEF PipeInit, RunInit, BundleInv, Failures
<1> QED
  BY <1>1, StepBundleInv, TurnsAgree, AlwaysOnRecord, PTL DEF PipeSpec

(* A caller answers once, on what the run has left and the store has taken. *)
LEMMA StepAnswer ==
  ASSUME BundleInv, AnswerMatchesEvidence, [FrontNext]_frontVars
  PROVE  AnswerMatchesEvidence'
<1>1. CASE UNCHANGED frontVars
  BY <1>1 DEF frontVars, front, pipeVars, runVars, state, AnswerMatchesEvidence, Failures,
              ProblemInfeasible
<1>2. CASE answer' \notin {"200", "exit 0", "exit 4"}
  BY <1>2 DEF AnswerMatchesEvidence
<1>3. CASE answer' # answer
  <2>1. /\ UNCHANGED <<audit, bundle, errors, ran, value, call>>
        /\ \/ Reject \/ ApiRefuses \/ ApiAnswers \/ CliAborts \/ CliExits
    BY <1>3 DEF FrontNext, frontVars, front, Serve, Reject, ApiRefuses, ApiAnswers, CliAborts,
                CliExits, Tell, pipeVars, runVars, state
  <2>2. Failures' = Failures
    BY <2>1 DEF Failures
  <2>3. CASE ApiAnswers /\ answer' = "200"
    BY <2>1, <2>2, <2>3 DEF ApiAnswers, Tell, BundleInv, AnswerMatchesEvidence
  <2>4. CASE CliExits /\ answer' \in {"exit 0", "exit 4"}
    <3>1. stored' = bundle /\ answer' = IF Infeasible THEN "exit 4" ELSE "exit 0"
      BY <2>4 DEF CliExits, Tell
    <3>2. Infeasible <=> audit # {} /\ ProblemInfeasible
      BY DEF Infeasible
    <3> QED
      BY <2>1, <2>2, <3>1, <3>2 DEF BundleInv, AnswerMatchesEvidence, ProblemInfeasible
  <2>5. CASE answer' \notin {"200", "exit 0", "exit 4"}
    BY <1>2, <2>5
  <2> QED
    BY <2>1, <2>3, <2>4, <2>5 DEF Reject, ApiRefuses, ApiAnswers, CliAborts, CliExits, Tell
<1>4. CASE FrontNext /\ answer' = answer
  <2>1. answer = "none"
    BY <1>4 DEF FrontNext, Serve, Reject, ApiRefuses, ApiAnswers, CliAborts, CliExits, Back
  <2> QED
    BY <1>2, <1>4, <2>1
<1> QED
  BY <1>1, <1>3, <1>4

(* For every call, policy and pattern of failures: whoever is told how a    *)
(* run ended is told what the evidence says, and the evidence is kept if    *)
(* it was to be.                                                           *)
THEOREM AnswersMatchEvidence == FrontSpec => []AnswerMatchesEvidence
<1>1. FrontInit => AnswerMatchesEvidence
  BY DEF FrontInit, AnswerMatchesEvidence
<1> QED
  BY <1>1, StepAnswer, FrontsRunThePipeline, AlwaysBundleInv, PTL DEF FrontSpec
=============================================================================
