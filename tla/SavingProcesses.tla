---------------------------- MODULE SavingProcesses ----------------------------
(***************************************************************************)
(* API processes that persist runs in one store on a server (api.py,       *)
(* _execute_solve).  Within a process the saves take turns                 *)
(* (_persist_lock); those of different processes meet on the server only.  *)
(* Modules PostgresStore and MLflowStore say what a save does when it has  *)
(* its turn.                                                               *)
(***************************************************************************)
EXTENDS FiniteSets

CONSTANTS
  Saves,     \* calls of save
  Runs,      \* run ids
  RunOf,     \* RunOf[s]: the run whose evidence s persists
  Processes, \* API processes on one server
  ProcessOf  \* ProcessOf[s]: the process that executes s

ASSUME SavesAssumption ==
  /\ IsFiniteSet(Saves)
  /\ RunOf \in [Saves -> Runs]
  /\ ProcessOf \in [Saves -> Processes]

VARIABLE phase \* phase[s]: how far s is

Ended == {"saved", "failed", "refused", "dead"}

\* The thread gets _persist_lock; inside are the phases within the with block.
EnterLock(s, inside) ==
  /\ phase[s] = "idle"
  /\ \A t \in Saves : ProcessOf[t] = ProcessOf[s] => phase[t] \notin inside
  /\ phase' = [phase EXCEPT ![s] = "connecting"]

\* A process dies with all its saves, also those waiting for the lock.
Dying(p) == {s \in Saves : ProcessOf[s] = p /\ phase[s] \notin Ended}

Die(p) ==
  /\ Dying(p) # {}
  /\ phase' = [s \in Saves |-> IF s \in Dying(p) THEN "dead" ELSE phase[s]]

=============================================================================
