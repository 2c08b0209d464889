---------------------------- MODULE JobLifecycle ----------------------------
(***************************************************************************)
(* What the job queue promises the clients of POST /jobs and GET /jobs,    *)
(* with neither threads, nor a lock, nor an executor in sight: every job   *)
(* goes once through queued, running and one of the two outcomes, at most  *)
(* Slots jobs run at a time, a job is listed from its submission on, and   *)
(* only completed jobs stop being listed.                                  *)
(***************************************************************************)
EXTENDS Naturals, FiniteSets

CONSTANTS Jobs,   \* identities of jobs
          Slots   \* how many jobs may run at a time

VARIABLES phase,  \* phase[j]: what GET /jobs/{j} may report as the status
          listed, \* the jobs GET /jobs reports
          closed  \* the service is going down

view == <<phase, listed, closed>>

Running == {j \in Jobs : phase[j] = "running"}

Completed == {j \in Jobs : phase[j] \in {"succeeded", "failed"}}

Init ==
  /\ phase = [j \in Jobs |-> "absent"]
  /\ listed = {}
  /\ closed = FALSE

\* A submission lists the job and may retire completed ones.
Accept(j) ==
  /\ phase[j] = "absent"
  /\ phase' = [phase EXCEPT ![j] = "queued"]
  /\ listed' \subseteq listed \cup {j}
  /\ (listed \cup {j}) \ listed' \subseteq Completed
  /\ UNCHANGED closed

Begin(j) ==
  /\ phase[j] = "queued"
  /\ Cardinality(Running) < Slots
  /\ phase' = [phase EXCEPT ![j] = "running"]
  /\ UNCHANGED <<listed, closed>>

End(j) ==
  /\ phase[j] = "running"
  /\ \E p \in {"succeeded", "failed"} : phase' = [phase EXCEPT ![j] = p]
  /\ UNCHANGED <<listed, closed>>

Close ==
  /\ ~closed
  /\ closed' = TRUE
  /\ UNCHANGED <<phase, listed>>

Next == Close \/ \E j \in Jobs : Accept(j) \/ Begin(j) \/ End(j)

Safety == Init /\ [][Next]_view

\* While the service is up every queued job gets its turn, and a job that
\* runs comes to an end, going down or not.
Progress ==
  \A j \in Jobs : WF_view(~closed /\ Begin(j)) /\ WF_view(End(j))

Spec == Safety /\ Progress
=============================================================================
