---------------------------- MODULE Classification ----------------------------
(***************************************************************************)
(* The classification pipeline (build_classification_pipeline in           *)
(* qf_agentos/pipeline.py): fraud detection and RFQ fill prediction.  It   *)
(* runs on Workflow like the optimization pipeline, with agents of its own *)
(* in the middle (agents/classification.py) over the domain of             *)
(* finance/qkernel.py: two classical models, a quantum kernel where the    *)
(* policy allows it, and a verification that compares them.                *)
(*                                                                         *)
(* Abstracted: a trained model is its error on the test set; features,     *)
(* kernels and scores are left out, so that the bootstrap of the           *)
(* significance test may answer anything.  The times of the samples are    *)
(* kept: the split, the leakage check and the temporal check are computed. *)
(***************************************************************************)
EXTENDS Workflow, Policy, FiniteSets

CONSTANTS
  Requests,      \* execution policies, see IsRequest
  Times,         \* the timestamps of the data sets considered, one per sample
  TestSizes,     \* round(test_fraction * n), at least 1
  TrainingErrors \* the error of a model on the test set

Agents == <<"requirements", "formulation", "classical_baseline", "quantum_planner",
            "execution", "verification", "auditor", "governance">>

IsRequest(r) ==
  /\ IsPolicy(r)
  /\ r.gate \in BOOLEAN  \* allow_gate_model
  /\ r.sim \in BOOLEAN   \* quantum_available()

ASSUME ClassificationAssumption ==
  /\ Steps = Agents
  /\ \A r \in Requests : IsRequest(r)
  /\ \A times \in Times : times \in Seq(Nat) /\ \A k \in TestSizes : k \in 1..Len(times)
  /\ TrainingErrors \subseteq Nat

VARIABLES
  request, \* the run's execution policy, and whether the simulator is installed
  dataset, \* state.dataset, as a set of at most one: when each sample was taken
  split,   \* state.split, as a set of at most one: the time ranks and the two sides
  plan,    \* state.feature_plan, as a set of at most one plan
  models,  \* state.class_models: the error of each model, by name
  reports, \* state.verification, by name
  warned,  \* a warning says that the kernel was skipped or not executed
  audit,   \* state.audit, as a set of at most one decision
  bundle   \* state.bundle, as a set of at most one snapshot

state == <<request, dataset, split, plan, models, reports, warned, audit, bundle>>
classVars == <<runVars, state>>

Baselines == {"logistic_regression", "rbf_kernel_ridge"}

Quantum == "quantum_kernel_ridge"

ModelNames == Baselines \cup {Quantum}

Has(field) == Cardinality(field) = 1

None == [m \in {} |-> 0]  \* an empty dict

ClassInit ==
  /\ RunInit
  /\ request \in Requests
  /\ dataset = {} /\ split = {} /\ plan = {}
  /\ models = None /\ reports = None
  /\ warned = FALSE
  /\ audit = {} /\ bundle = {}

-----------------------------------------------------------------------------
(* The data: finance/qml.py and finance/qkernel.py.                        *)

\* timestamps.argsort().argsort(): the rank of every sample in time.  The
\* sort is not stable, so that equal timestamps may be ranked in any order.
Rankings(times) ==
  {r \in [1..Len(times) -> 1..Len(times)] :
    \A i, j \in 1..Len(times) :
      /\ i # j => r[i] # r[j]
      /\ times[i] < times[j] => r[i] < r[j]}

\* Mutant of TemporalSplit: holds out the earliest samples.
TemporalSplitEarliest(r, k) ==
  LET test == {i \in DOMAIN r : r[i] <= k}
  IN [rank |-> r, train |-> DOMAIN r \ test, test |-> test]

\* temporal_split: the k latest samples are the test set.
TemporalSplit(r, k) ==
  LET test == {i \in DOMAIN r : r[i] > Cardinality(DOMAIN r) - k}
  IN [rank |-> r, train |-> DOMAIN r \ test, test |-> test]

\* leakage_report, and the temporal check of verify.
Valid(s) ==
  /\ s.train \cap s.test = {}
  /\ \A i \in s.train, j \in s.test : s.rank[i] < s.rank[j]

\* The keys of a dict, with the values that f gives them added to d.
Update(d, f) == [m \in DOMAIN d \cup DOMAIN f |-> IF m \in DOMAIN f THEN f[m] ELSE d[m]]

-----------------------------------------------------------------------------
(* The agents, in order.  Each returns or raises; what it assigned before  *)
(* it raised stays.                                                        *)

\* requirements_agent and formulation_agent: their reports are not modelled.
Understand(s) ==
  /\ s \in {"requirements", "formulation"}
  /\ Return(s) \/ Raise(s)
  /\ UNCHANGED state

Load ==
  \E times \in Times, k \in TestSizes :
    /\ dataset' = {times}
    /\ \E r \in Rankings(times) : split' = {TemporalSplit(r, k)}

Baseline ==
  \/ /\ Return("classical_baseline")
     /\ Load
     /\ \E e \in [Baselines -> TrainingErrors] : models' = Update(models, e)
     /\ UNCHANGED <<request, plan, reports, warned, audit, bundle>>
  \/ /\ Raise("classical_baseline")  \* before the data are assigned, or after
     /\ Load \/ UNCHANGED <<dataset, split>>
     /\ UNCHANGED <<request, plan, models, reports, warned, audit, bundle>>

\* plan_quantum reads the data set, and raises if there is none.
Planner ==
  \/ /\ Return("quantum_planner") /\ Has(dataset)
     /\ plan' = {IF request.gate /\ request.sim THEN "simulate" ELSE "abstain"}
     /\ UNCHANGED <<request, dataset, split, models, reports, warned, audit, bundle>>
  \/ Raise("quantum_planner") /\ UNCHANGED state

\* The planner chose the simulator, and the policy lets it run.
MayExecute ==
  /\ "simulate" \in plan
  /\ Allowed(request, "run_simulator", 0)

SkipKernel ==
  /\ ~MayExecute
  /\ \/ Return("execution") /\ warned' = TRUE
     \/ Raise("execution") /\ UNCHANGED warned
  /\ UNCHANGED <<request, dataset, split, plan, models, reports, audit, bundle>>

\* run_quantum trains the kernel, or raises.
TrainKernel ==
  /\ MayExecute
  /\ \/ /\ Return("execution")
        /\ \E e \in TrainingErrors : models' = Update(models, [m \in {Quantum} |-> e])
     \/ Raise("execution") /\ UNCHANGED models
  /\ UNCHANGED <<request, dataset, split, plan, reports, warned, audit, bundle>>

\* What the kernel is compared with: the same learner with the RBF kernel,
\* or else the best classical model, if there is one.
Comparators ==
  IF "rbf_kernel_ridge" \in DOMAIN models THEN {"rbf_kernel_ridge"}
  ELSE {m \in Baselines \cap DOMAIN models :
          \A n \in Baselines \cap DOMAIN models : models[m] <= models[n]}

\* What the significance test may find.
Findings ==
  IF Comparators = {} THEN {{}}
  ELSE {{c} : c \in [against : Comparators, significant : BOOLEAN, diff : {-1, 0, 1}]}

\* The reports verify may give for the models there are.
ReportsOn(s) ==
  {[m \in DOMAIN models |-> [feasible |-> Valid(s),
                             contribution |-> IF m = Quantum THEN found ELSE {}]] :
    found \in Findings}

\* verify unpacks the split, and raises if there is none; the reports are
\* assigned together.
Verify ==
  \/ /\ Return("verification")
     /\ \E s \in split : reports' \in ReportsOn(s)
     /\ UNCHANGED <<request, dataset, split, plan, models, warned, audit, bundle>>
  \/ Raise("verification") /\ UNCHANGED state

-----------------------------------------------------------------------------
(* classification_auditor_agent.                                           *)

Feasible(m) == m \in DOMAIN reports /\ reports[m].feasible

\* Mutant of Champions: a report is not asked for.
ChampionsUnverified ==
  {m \in Baselines \cap DOMAIN models :
    \A n \in Baselines \cap DOMAIN models : models[m] <= models[n]}

\* _champion: the best of the classical models that were verified.
Champions ==
  LET verified == {m \in Baselines \cap DOMAIN models : Feasible(m)}
  IN {m \in verified : \A n \in verified : models[m] <= models[n]}

\* Of two equally good models min takes the first of the dict.
Champion ==
  IF Champions = {} THEN "none"
  ELSE IF "logistic_regression" \in Champions THEN "logistic_regression"
  ELSE "rbf_kernel_ridge"

Skipped == "abstain" \in plan \/ Quantum \notin DOMAIN models

\* The quantum model is judged by its contribution, which is asserted to be
\* there.
Judged == Champion # "none" /\ ~Skipped /\ Feasible(Quantum)

AssertionFails == Judged /\ reports[Quantum].contribution = {}

\* Mutant of Category: any better mean counts.
CategoryUntested ==
  IF Champion = "none" THEN "CLASSICAL_PREFERRED"
  ELSE IF Skipped THEN "QUANTUM_NOT_FEASIBLE"
  ELSE IF ~Feasible(Quantum) THEN "CLASSICAL_PREFERRED"
  ELSE IF \E c \in reports[Quantum].contribution : c.diff > 0
    THEN "QUANTUM_IMPROVEMENT_OBSERVED"
  ELSE "QUANTUM_PARITY"

Category ==
  IF Champion = "none" THEN "CLASSICAL_PREFERRED"
  ELSE IF Skipped THEN "QUANTUM_NOT_FEASIBLE"
  ELSE IF ~Feasible(Quantum) THEN "CLASSICAL_PREFERRED"
  ELSE LET found == CHOOSE c \in reports[Quantum].contribution : TRUE
       IN IF found.significant /\ found.diff > 0 THEN "QUANTUM_IMPROVEMENT_OBSERVED"
          ELSE IF found.significant /\ found.diff < 0 THEN "CLASSICAL_PREFERRED"
          ELSE "QUANTUM_PARITY"

Recommended == IF Category = "QUANTUM_IMPROVEMENT_OBSERVED" THEN Quantum ELSE Champion

Audit ==
  \/ /\ Return("auditor") /\ ~AssertionFails
     /\ audit' = {[category |-> Category, recommended |-> Recommended, gap |-> Judged,
                   signed |-> Allowed(request, "recommend_production", 0)]}
     /\ UNCHANGED <<request, dataset, split, plan, models, reports, warned, bundle>>
  \/ Raise("auditor") /\ UNCHANGED state

\* build_bundle takes the classification report if there is a data set, and
\* the report of the optimization pipeline, with no result, if there is none.
ShowsModels == Has(dataset)

Govern ==
  \/ /\ Return("governance")
     /\ bundle' = {[results |-> IF ShowsModels THEN DOMAIN models ELSE {},
                    reports |-> DOMAIN reports, audit |-> audit, plan |-> plan,
                    errors |-> {errors[i] : i \in 1..Len(errors)}, warned |-> warned]}
     /\ UNCHANGED <<request, dataset, split, plan, models, reports, warned, audit>>
  \/ Raise("governance") /\ UNCHANGED state

-----------------------------------------------------------------------------
ClassNext ==
  \/ \E s \in StepNames : Understand(s)
  \/ Baseline
  \/ Planner
  \/ SkipKernel
  \/ TrainKernel
  \/ Verify
  \/ Audit
  \/ Govern

ClassSpec == ClassInit /\ [][ClassNext]_classVars

-----------------------------------------------------------------------------
(* What a run may do.                                                      *)

Failures == {errors[i] : i \in 1..Len(errors)}

\* No look-ahead: whatever order equal timestamps are ranked in, no sample is
\* on both sides of the split, none is left out, none of the training samples
\* is later than one of the test samples, and the checks of verify agree
\* (qml.py:91-97, qkernel.py:302-303).
HoldoutIsLatest ==
  \A times \in dataset, s \in split :
    /\ s.train \cup s.test = 1..Len(times)
    /\ s.test # {} /\ Valid(s)
    /\ \A i \in s.train, j \in s.test : times[i] <= times[j]

\* An improvement is claimed, or parity granted, only to a kernel that was
\* executed within the policy and that verify compared on valid data with the
\* same learner; an improvement only if it was significant.  Unlike in the
\* optimization pipeline this holds whichever steps failed
\* (classification.py:112-160, qkernel.py:302-366).
FavourIsTested ==
  \A d \in audit :
    /\ d.category \in {"QUANTUM_PARITY", "QUANTUM_IMPROVEMENT_OBSERVED"} =>
         /\ request.level >= 2 /\ request.gate /\ request.sim
         /\ {Quantum, "rbf_kernel_ridge"} \subseteq DOMAIN models \cap DOMAIN reports
         /\ \A s \in split : Valid(s)
    /\ d.recommended = Quantum =>
         \E c \in reports[Quantum].contribution :
           c.against = "rbf_kernel_ridge" /\ c.significant /\ c.diff > 0

\* What is recommended was trained and verified, and a classical
\* recommendation is the best of the baselines; nothing is recommended only
\* if the baselines or the verification failed: the branch "data validation
\* failed" is never the reason (classification.py:95-119).
RecommendationStands ==
  \A d \in audit :
    /\ d.recommended # "none" => Feasible(d.recommended)
    /\ d.recommended \in Baselines =>
         \A m \in Baselines \cap DOMAIN models : models[d.recommended] <= models[m]
    /\ d.recommended = "none" <=> Failures \cap {"classical_baseline", "verification"} # {}
                                  /\ DOMAIN reports \cap Baselines = {}

-----------------------------------------------------------------------------
(* What the agents have left by the time they had their turn: with         *)
(* RunIInv, what makes the properties of the last section inductive.       *)

\* The data are absent, or were split where their times say.
DataInv ==
  \/ dataset = {} /\ split = {}
  \/ \E times \in Times, k \in TestSizes : \E r \in Rankings(times) :
       dataset = {times} /\ split = {TemporalSplit(r, k)}

\* The baselines are trained together, the kernel within the policy.
ModelsInv ==
  /\ DOMAIN models \subseteq ModelNames
  /\ \A m \in DOMAIN models : models[m] \in TrainingErrors
  /\ Baselines \subseteq DOMAIN models \/ Baselines \cap DOMAIN models = {}
  /\ "simulate" \in plan => request.gate /\ request.sim
  /\ Quantum \in DOMAIN models => request.level >= 2 /\ request.gate /\ request.sim

\* The reports are on the models there are, all or none.
ReportsInv ==
  /\ DOMAIN reports # {} => turn >= 6 /\ DOMAIN reports = DOMAIN models
  /\ \A m \in DOMAIN reports : reports[m].feasible
  /\ Quantum \in DOMAIN reports => reports[Quantum].contribution \in Findings

\* A step that left nothing failed.
AccountInv ==
  /\ turn > 3 => Baselines \subseteq DOMAIN models \/ "classical_baseline" \in Failures
  /\ turn > 6 => DOMAIN reports = DOMAIN models \/ "verification" \in Failures
  /\ audit # {} => turn >= 7

ClassInv == DataInv /\ ModelsInv /\ ReportsInv /\ AccountInv

=============================================================================
