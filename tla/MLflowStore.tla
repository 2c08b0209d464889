------------------------------ MODULE MLflowStore ------------------------------
(***************************************************************************)
(* The MLflow evidence store (qf_agentos/governance/mlflow_store.py) as    *)
(* several API processes use it on one tracking server.  save creates an   *)
(* MLflow run that carries the run id as a tag, and logs the parameters    *)
(* and the three documents into it call by call.  Each call is a request   *)
(* to the server that may fail, before or after it took effect; within a   *)
(* process saves take turns (_persist_lock).                               *)
(*                                                                         *)
(* An MLflow run is named by the save that created it.  The server keeps   *)
(* runs by their start time, here the order in which they were created,    *)
(* and takes a document as a whole.                                        *)
(***************************************************************************)
EXTENDS Naturals, Sequences, SequencesExt, SavingProcesses

Documents == {"manifest.json", "report.md", "model_card.md"}

\* What save asks of the server once the run is created, in order.  Parameters
\* and the gap, if there is one, are one call here: nothing reads them.
Calls == <<"figures", "manifest.json", "report.md", "model_card.md", "terminated">>

VARIABLES
  experiment, \* the experiment exists
  runs,       \* the MLflow runs of the experiment, oldest first
  logged      \* logged[s]: the calls that took effect on the run of s

mlVars == <<experiment, runs, logged, phase>>

MlInside == {"connecting", "creating", "ready", "logging"}  \* within the with block

MlInit ==
  /\ experiment = FALSE
  /\ runs = <<>>
  /\ logged = [s \in Saves |-> {}]
  /\ phase = [s \in Saves |-> "idle"]

-----------------------------------------------------------------------------
(* The store is made: _ensure_experiment looks for it and creates it.      *)

MlEnter(s) == EnterLock(s, MlInside) /\ UNCHANGED <<experiment, runs, logged>>

GetExperiment(s) ==
  /\ phase[s] = "connecting"
  /\ phase' = [phase EXCEPT ![s] = IF experiment THEN "ready" ELSE "creating"]
  /\ UNCHANGED <<experiment, runs, logged>>

\* It raises if the experiment has been created since.
CreateExperiment(s) ==
  /\ phase[s] = "creating"
  /\ experiment' = TRUE
  /\ phase' = [phase EXCEPT ![s] = IF experiment THEN "failed" ELSE "ready"]
  /\ UNCHANGED <<runs, logged>>

\* A reader's store creates it.
MlCreateElsewhere ==
  /\ ~experiment
  /\ experiment' = TRUE
  /\ UNCHANGED <<runs, logged, phase>>

-----------------------------------------------------------------------------
(* save.                                                                   *)

CreateRun(s) ==
  /\ phase[s] = "ready"
  /\ runs' = Append(runs, s)
  /\ phase' = [phase EXCEPT ![s] = "logging"]
  /\ UNCHANGED <<experiment, logged>>

\* The call save makes next: the first that is not logged.
NextCall(s) == Calls[Cardinality(logged[s]) + 1]

Log(s) ==
  /\ phase[s] = "logging"
  /\ logged' = [logged EXCEPT ![s] = @ \cup {NextCall(s)}]
  /\ phase' = [phase EXCEPT ![s] = IF NextCall(s) = "terminated" THEN "saved" ELSE "logging"]
  /\ UNCHANGED <<experiment, runs>>

\* A request of s takes effect, or not, and nobody waits for its answer.
Unheard(s) ==
  \/ UNCHANGED <<runs, logged>>
  \/ phase[s] = "ready" /\ runs' = Append(runs, s) /\ UNCHANGED logged
  \/ /\ phase[s] = "logging"
     /\ logged' = [logged EXCEPT ![s] = @ \cup {NextCall(s)}]
     /\ UNCHANGED runs

\* A request raises; save has no handler and leaves what it did.
MlFail(s) ==
  /\ phase[s] \in MlInside
  /\ Unheard(s)
  /\ phase' = [phase EXCEPT ![s] = "failed"]
  /\ UNCHANGED experiment

\* A process dies, one of its saves perhaps during a request.
MlCrash(p) ==
  /\ Die(p)
  /\ \E s \in Dying(p) : Unheard(s)
  /\ UNCHANGED experiment

-----------------------------------------------------------------------------
(* Readers: GET /runs lists whatever carries the tag, GET /runs/{run_id}   *)
(* opens the newest run with that tag.                                     *)

Listed == {RunOf[s] : s \in ToSet(runs)}

\* Mutant of Newest: in the order of list_runs.
Oldest(r) == SelectInSeq(runs, LAMBDA s : RunOf[s] = r)

\* The place of the run that load_manifest opens for r.
Newest(r) == SelectLastInSeq(runs, LAMBDA s : RunOf[s] = r)

\* load_manifest(r) returns a manifest; it raises if the run has none.
Loads(r) == "manifest.json" \in logged[runs[Newest(r)]]

-----------------------------------------------------------------------------
MlSave(s) ==
  MlEnter(s) \/ GetExperiment(s) \/ CreateExperiment(s) \/ CreateRun(s) \/ Log(s)

MlNext ==
  \/ MlCreateElsewhere
  \/ \E s \in Saves : MlSave(s) \/ MlFail(s)
  \/ \E p \in Processes : MlCrash(p)

MlSpec == MlInit /\ [][MlNext]_mlVars

-----------------------------------------------------------------------------
\* A save that was answered left its whole evidence, and who opens its run gets
\* that or what a save of the same run begun later has put before it.  Evidence
\* that cannot be loaded, though its run is listed, is therefore always that of
\* a newer save that has not come to its end or never will
\* (mlflow_store.py:44-71,95-105).
SavedLoads ==
  /\ \A s \in Saves : phase[s] = "saved" =>
       /\ Documents \subseteq logged[s]
       /\ \E i \in 1..Newest(RunOf[s]) : runs[i] = s
  /\ \A r \in Listed : Loads(r) \/ phase[runs[Newest(r)]] \in {"logging", "failed", "dead"}

=============================================================================
