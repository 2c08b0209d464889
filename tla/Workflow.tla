------------------------------- MODULE Workflow -------------------------------
(***************************************************************************)
(* The runner of a pipeline (qf_agentos/core/workflow.py): a fixed list of *)
(* steps, executed in order by one thread on one RunContext.  A step that  *)
(* raises is recorded and the run goes on.  The optional callback emit,    *)
(* which prints progress, is called inside the guarded block, so that an   *)
(* exception of the callback is taken for one of the step; called again to *)
(* report a failure, it is not guarded and can end the run.                *)
(*                                                                         *)
(* A step of this module is one iteration of the loop: nothing else reads  *)
(* or writes the context meanwhile.  A pipeline extends the module and     *)
(* says what each of its steps does when it returns or raises.             *)
(***************************************************************************)
EXTENDS Naturals, Sequences

CONSTANTS Steps,    \* the names of the steps, in order
          MayRaise, \* the steps that may raise
          Sinks     \* the callbacks considered: "none", "console"

ASSUME WorkflowAssumption ==
  /\ Steps # <<>>
  /\ Steps \in Seq(STRING)
  /\ \A i, j \in 1..Len(Steps) : Steps[i] = Steps[j] => i = j
  /\ Sinks \subseteq {"none", "console"}

VARIABLES
  sink,   \* the emit argument of run
  turn,   \* index of the step that is executed next
  trace,  \* RunContext.trace: what each TraceEvent says
  errors, \* RunContext.state.errors: the steps they name
  ending  \* how run ended

runVars == <<sink, turn, trace, errors, ending>>

StepNames == {Steps[i] : i \in 1..Len(Steps)}

Events == [step : StepNames, ok : BOOLEAN]

RunTypeOK ==
  /\ sink \in Sinks
  /\ turn \in 1..Len(Steps) + 1
  /\ trace \in Seq(Events)
  /\ errors \in Seq(StepNames)
  /\ ending \in {"none", "finished", "aborted"}

RunInit ==
  /\ sink \in Sinks
  /\ turn = 1
  /\ trace = <<>>
  /\ errors = <<>>
  /\ ending = "none"

-----------------------------------------------------------------------------
At(s) == ending = "none" /\ turn <= Len(Steps) /\ Steps[turn] = s

Ok(s) == [step |-> s, ok |-> TRUE]

Failed(s) == [step |-> s, ok |-> FALSE]

\* Mutant of Continue: leaves the loop after a failure.
ContinueUntilFailure ==
  /\ turn' = turn + 1
  /\ ending' = IF turn = Len(Steps) \/ errors # <<>> THEN "finished" ELSE "none"

\* On to the next step.
Continue ==
  /\ turn' = turn + 1
  /\ ending' = IF turn = Len(Steps) THEN "finished" ELSE "none"

\* An exception leaves run, from the emit of the except clause.
Abort ==
  /\ sink = "console"
  /\ turn' = turn
  /\ ending' = "aborted"

\* Mutant of Record: the trace does not show the failure.
RecordUntraced(s, events) ==
  /\ UNCHANGED <<trace, sink>>
  /\ errors' = Append(errors, s)
  /\ Continue \/ Abort

\* The except clause: the failure is recorded, then emitted.
Record(s, events) ==
  /\ trace' = trace \o events
  /\ errors' = Append(errors, s)
  /\ Continue \/ Abort
  /\ UNCHANGED sink

\* The step returned, and its summary was emitted if there is a callback.
Returned(s) ==
  /\ At(s)
  /\ trace' = Append(trace, Ok(s))
  /\ Continue
  /\ UNCHANGED <<errors, sink>>

\* The step returned, and emitting its summary raised.
EmitRaised(s) ==
  /\ At(s)
  /\ sink = "console"
  /\ Record(s, <<Ok(s), Failed(s)>>)

Return(s) == Returned(s) \/ EmitRaised(s)

Raise(s) ==
  /\ s \in MayRaise
  /\ At(s)
  /\ Record(s, <<Failed(s)>>)

RunNext == \E s \in StepNames : Return(s) \/ Raise(s)

RunSpec == RunInit /\ [][RunNext]_runVars

-----------------------------------------------------------------------------
\* The place of a step in the list.
Place(s) == CHOOSE i \in 1..Len(Steps) : Steps[i] = s

\* Failures are isolated, and none is forgotten: a run that came to its end
\* executed every step, whichever steps failed before; the trace has the steps
\* in the order of the list; and the errors, which go into the evidence, are
\* exactly the steps that the trace shows as failed, each once and in order,
\* also where a step succeeded and its callback raised (workflow.py:74-106).
RunOnRecord ==
  /\ ending = "finished" => \A s \in StepNames : \E m \in 1..Len(trace) : trace[m].step = s
  /\ \A m, n \in 1..Len(trace) : m < n => Place(trace[m].step) <= Place(trace[n].step)
  /\ \A k, l \in 1..Len(errors) : k < l => Place(errors[k]) < Place(errors[l])
  /\ \A s \in StepNames :
       (\E k \in 1..Len(errors) : errors[k] = s) <=> (\E m \in 1..Len(trace) : trace[m] = Failed(s))

\* What a run has on record while it is at a step.
TurnsInv ==
  /\ \A i \in 1..Len(Steps) : i < turn => \E m \in 1..Len(trace) : trace[m].step = Steps[i]
  /\ ending = "finished" => turn = Len(Steps) + 1
  /\ ending = "none" => /\ \A m \in 1..Len(trace) : Place(trace[m].step) < turn
                        /\ \A k \in 1..Len(errors) : Place(errors[k]) < turn

RunIInv == RunTypeOK /\ TurnsInv /\ RunOnRecord

=============================================================================
