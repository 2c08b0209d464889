------------------------------ MODULE JobEvidence ------------------------------
(***************************************************************************)
(* The job queue over the file store: what the function of a job does      *)
(* (_work and _execute_solve in qf_agentos/api.py), between the steps of   *)
(* JobQueue and with those of EvidenceStore.  A job solves its spec and,   *)
(* if asked to, saves the evidence under _persist_lock before its thread   *)
(* stores the result; POST /solve does the same in the thread of the       *)
(* request.  The API process may die at any moment; the directory and what *)
(* clients were told outlive it.                                           *)
(***************************************************************************)
EXTENDS JobQueue

CONSTANTS
  Persisting, \* the jobs with persist = true
  Requests,   \* calls of POST /solve that persist their evidence
  LastSecond, \* bound on the clock
  Nobody      \* _persist_lock is free

ASSUME JobEvidenceAssumption ==
  /\ Persisting \subseteq Jobs
  /\ IsFiniteSet(Requests) /\ Requests \cap Jobs = {}
  /\ LastSecond \in Nat
  /\ Nobody \notin Jobs \cup Requests

VARIABLES
  clock, since, run, next, phase, lock, file, lines, cut, wanted, got, \* of the store
  up,   \* the API process is alive
  told  \* the jobs a client was told have succeeded

\* Every job and every request solves a spec of its own.
Store == INSTANCE EvidenceStore
  WITH Saves <- Jobs \cup Requests,  Api <- Jobs \cup Requests,
       Specs <- Jobs \cup Requests,
       SpecOf <- [s \in Jobs \cup Requests |-> s]

evidence    == <<clock, since, run, next, phase, lock, file, lines, cut, wanted, got>>
serviceVars == <<vars, evidence, up, told>>

ServiceInit ==
  /\ Init
  /\ Store!StoreInit
  /\ up = TRUE
  /\ told = {}

-----------------------------------------------------------------------------
(* The function of a job, in the thread w that executes it.                *)

\* It solves, then saves if the request says so.
Compute(w) ==
  /\ stage[w] = "computing"
  /\ \/ Store!Solve(held[w])
     \/ held[w] \in Persisting /\ Store!Save(held[w])
  /\ UNCHANGED vars

\* Mutant of Answerable: the evidence is saved when the answer is out.
AnswerableEarly(j) == phase[j] \in {"solved", "saving", "saved"}

\* _execute_solve has come to its return.
Answerable(j) == phase[j] = IF j \in Persisting THEN "saved" ELSE "solved"

\* fn returned.
Deliver(w) ==
  /\ stage[w] = "computing"
  /\ Answerable(held[w])
  /\ Succeed(w)
  /\ UNCHANGED evidence

\* save raised, and nothing between it and _run catches that.
SaveRaised(w) ==
  /\ stage[w] = "computing"
  /\ phase[held[w]] = "failed"
  /\ Fail(w)
  /\ UNCHANGED evidence

\* solve raised, or it left no decision or no bundle: nothing is saved.
SolveRaised(w) ==
  /\ stage[w] = "computing"
  /\ phase[held[w]] \in {"idle", "solved"}
  /\ Fail(w)
  /\ UNCHANGED evidence

\* What a thread of the pool goes on with.
Work(w) ==
  /\ up
  /\ \/ (Take(w) \/ Start(w) \/ Stamp(w)) /\ UNCHANGED evidence
     \/ Compute(w) \/ Deliver(w) \/ SaveRaised(w)
  /\ UNCHANGED <<up, told>>

-----------------------------------------------------------------------------
(* Everything else that happens.                                           *)

Queueing ==
  /\ up
  /\ (\E j \in Jobs : Submit(j)) \/ Shutdown
  /\ UNCHANGED <<evidence, up, told>>

\* POST /solve.
Elsewhere(s) ==
  /\ up
  /\ Store!Solve(s) \/ Store!Save(s)
  /\ UNCHANGED <<vars, up, told>>

\* GET /jobs/{job_id} with the result.
Tell(j) ==
  /\ up
  /\ j \in registry /\ status[j] = "succeeded"
  /\ told' = told \cup {j}
  /\ UNCHANGED <<vars, evidence, up>>

Die ==
  /\ up
  /\ up' = FALSE
  /\ IF Store!Busy \cap (Jobs \cup Requests) = {} THEN UNCHANGED evidence ELSE Store!CrashApi
  /\ UNCHANGED <<vars, told>>

ServiceNext ==
  \/ \E w \in Workers : Work(w) \/ (up /\ SolveRaised(w) /\ UNCHANGED <<up, told>>)
  \/ \E s \in Requests : Elsewhere(s)
  \/ \E j \in Jobs : Tell(j)
  \/ Queueing
  \/ Die

ServiceSpec == ServiceInit /\ [][ServiceNext]_serviceVars

\* As in JobApi: threads of the pool go on, also through the steps of a save,
\* and so do requests that save; one that registered a job goes on to the
\* executor.  threading.Lock is not fair, but only finitely many other saves
\* can be let in before one that waits.
ServiceFairSpec ==
  /\ ServiceSpec
  /\ \A w \in Workers : WF_serviceVars(Work(w))
  /\ \A j \in Jobs : WF_serviceVars(Queueing /\ (Enqueue(j) \/ Refuse(j)))
  /\ \A s \in Requests : WF_serviceVars(Elsewhere(s))

-----------------------------------------------------------------------------
\* Who was told that a job has succeeded finds its evidence, also when the
\* process died right after the answer or the record was trimmed: the three
\* files are the job's own and complete, and the index has a line for them.  A
\* job that failed is not in the list of runs (api.py:256-282, 296-301,
\* store.py:52-71).
ToldIsStored ==
  /\ \A j \in told \cap Persisting :
       /\ \A r \in run[j], f \in Store!FileNames : file[r][f] = j
       /\ \E i \in 1..Len(lines) : lines[i].record = [run |-> CHOOSE r \in run[j] : TRUE, save |-> j]
  /\ \A j \in Jobs : status[j] = "failed" => \A rec \in Store!Listed : rec.save # j

\* A job handed to the executor is completed and stamped, though it may have
\* to wait for the lock behind any number of other saves that fail or die; only
\* a shutdown before its turn or the end of the process keeps it from that
\* (api_jobs.py:82-123, api.py:268-270).
JobsSettle ==
  \A j \in Jobs :
    caller[j] = "accepted" ~>
      \/ Done(j) /\ finished[j]
      \/ closed /\ j \notin InPool /\ status[j] = "queued"
      \/ ~up
=============================================================================
