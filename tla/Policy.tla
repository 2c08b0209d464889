-------------------------------- MODULE Policy --------------------------------
(***************************************************************************)
(* The policy engine (qf_agentos/core/policy.py): autonomy levels L0 to L4 *)
(* and the gates on paid hardware and production recommendations.          *)
(***************************************************************************)
EXTENDS Integers

Levels == 0..4

Actions == {"explain", "plan", "run_simulator", "run_paid_qpu", "recommend_production"}

\* _MIN_LEVEL
MinLevel == [a \in Actions |->
  CASE a = "explain" -> 0
    [] a = "plan" -> 1
    [] a = "run_simulator" -> 2
    [] a = "run_paid_qpu" -> 3
    [] a = "recommend_production" -> 4]

\* A policy: what PolicyEngine is built from.
IsPolicy(p) == p.level \in Levels /\ p.approved \in BOOLEAN /\ p.budget \in Nat

\* Mutant of Allowed: paid execution needs no approval.
AllowedUnapproved(p, action, cost) ==
  /\ p.level >= MinLevel[action]
  /\ action = "run_paid_qpu" => cost <= p.budget
  /\ action = "recommend_production" => p.approved

\* authorize(action, cost_usd=cost).allowed
Allowed(p, action, cost) ==
  /\ p.level >= MinLevel[action]
  /\ action = "run_paid_qpu" => cost <= p.budget /\ p.approved
  /\ action = "recommend_production" => p.approved

=============================================================================
