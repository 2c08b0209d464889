------------------------------- MODULE Frontends -------------------------------
(***************************************************************************)
(* The two callers of the pipeline that keep evidence: _execute_solve of   *)
(* qf_agentos/api.py, which answers POST /solve and the jobs, and the      *)
(* command `qf-agent solve` of qf_agentos/cli.py.  Each reads the          *)
(* specification, runs the pipeline, looks at what the run left in its     *)
(* context, saves the bundle, and says how it went: a status code or an    *)
(* exit code.                                                              *)
(*                                                                         *)
(* The steps of saving are in modules EvidenceStore, PostgresStore and     *)
(* MLflowStore; here a save takes place or raises.  An answer is a status  *)
(* code of the API or an exit code of errors.py and typer.                 *)
(***************************************************************************)
EXTENDS Pipeline

CONSTANT Calls  \* the calls considered

\* A call: who makes it, what of, whether the evidence is to be saved, and
\* whether progress is printed.  The command always saves, the API never prints.
ASSUME CallsAssumption ==
  /\ Calls \subseteq [door : {"api", "cli"}, request : Requests, persist : BOOLEAN, sink : Sinks]
  /\ \A c \in Calls : IF c.door = "cli" THEN c.persist ELSE c.sink = "none"

VARIABLES
  call,   \* the call that is answered
  stored, \* the bundle that is in the store, as a set of at most one
  answer  \* what the caller was told

front == <<call, stored, answer>>
frontVars == <<pipeVars, front>>

FrontInit ==
  /\ call \in Calls
  /\ request = call.request /\ sink = call.sink
  /\ PipeInit
  /\ stored = {}
  /\ answer = "none"

-----------------------------------------------------------------------------
Tell(what) == answer' = what /\ UNCHANGED <<pipeVars, call>>

\* The specification is not valid, or too large for the API: nothing is run.
Reject ==
  /\ answer = "none" /\ turn = 1 /\ ending = "none"
  /\ \E what \in IF call.door = "cli" THEN {"exit 2"} ELSE {"413", "422"} : Tell(what)
  /\ UNCHANGED stored

Serve == answer = "none" /\ PipeNext /\ UNCHANGED front

\* The pipeline came back to its caller.
Back(caller) == call.door = caller /\ answer = "none" /\ ending = "finished"

Infeasible == audit # {} /\ ProblemInfeasible

\* _execute_solve, when a decision or the bundle is missing.
ApiRefuses ==
  /\ Back("api")
  /\ {} \in {audit, bundle}
  /\ Tell("500")
  /\ UNCHANGED stored

ApiAnswers ==
  /\ Back("api") /\ audit # {} /\ bundle # {}
  /\ \/ Tell("200") /\ stored' = IF call.persist THEN bundle ELSE stored
     \/ call.persist /\ Tell("500") /\ stored' \in {stored, bundle}  \* save raised

\* solve of the command line: an exception of emit left the pipeline.
CliAborts ==
  /\ call.door = "cli" /\ answer = "none" /\ ending = "aborted"
  /\ Tell("exit 1")
  /\ UNCHANGED stored

\* Mutant of CliExits: leaves before it saves when the problem is infeasible.
CliExitsEarly ==
  /\ Back("cli")
  /\ Tell(IF Infeasible THEN "exit 4" ELSE "exit 0")
  /\ stored' = IF Infeasible THEN stored ELSE bundle

\* The decision, the errors and the warnings are printed, the bundle is saved
\* if there is one, and then the exit code is chosen; printing and saving may
\* raise.
CliExits ==
  /\ Back("cli")
  /\ \/ Tell(IF Infeasible THEN "exit 4" ELSE "exit 0") /\ stored' = bundle
     \/ Tell("exit 1") /\ stored' \in {stored, bundle}

FrontNext ==
  \/ Reject \/ Serve
  \/ ApiRefuses \/ ApiAnswers
  \/ CliAborts \/ CliExits

FrontSpec == FrontInit /\ [][FrontNext]_frontVars

\* One thread reads the specification, runs the pipeline and answers.
FrontFairSpec == FrontSpec /\ WF_frontVars(FrontNext)

-----------------------------------------------------------------------------
\* What a caller is told agrees with the evidence that is kept: a decision is
\* answered with the bundle that holds this very decision and every failure of
\* the steps before governance, the bundle is in the store if it was to be kept,
\* and the command exits with 4 exactly if the decision says that the problem
\* has no solution, which it says after the evidence was saved
\* (api.py:256-282, cli.py:102-111).
AnswerMatchesEvidence ==
  LET done == answer \in {"200", "exit 0", "exit 4"}
  IN /\ done /\ call.persist => stored = bundle
     /\ done => \A b \in bundle :
                  b.audit = audit /\ b.errors = Failures \ {"governance"}
     /\ answer = "200" => audit # {} /\ bundle # {}
     /\ answer = "exit 4" => "classical_milp" \in ran /\ ~value["classical_milp"].feasible
     /\ answer = "exit 0" => \A d \in audit : ~ProblemInfeasible

\* Every caller is answered; and whatever failed, one who is told that the run
\* ended, and wanted the evidence, has it in the store, unless assembling it is
\* what failed (workflow.py:10-11, cli.py:102-107).
CallersServed ==
  <>/\ answer # "none"
    /\ call.persist /\ answer \in {"200", "exit 0", "exit 4"} =>
         stored # {} \/ "governance" \in Failures

=============================================================================
