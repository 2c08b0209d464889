------------------------------- MODULE JobApi -------------------------------
(***************************************************************************)
(* The job endpoints of the REST API (qf_agentos/api.py) over the queue of *)
(* JobQueue.  POST /jobs runs JobManager.submit; GET /jobs/{job_id} looks  *)
(* the record up under the manager's lock and then reads its fields one    *)
(* after the other without it, while the threads of the pool write them.   *)
(* One client per job submits it and, if the job is in Watchers, polls     *)
(* until the answer is final.                                              *)
(*                                                                         *)
(* A field read between two assignments of one critical section of _run is *)
(* not a case of its own: each section assigns the status last, and an     *)
(* answer reads the status before the fields assigned with it.             *)
(***************************************************************************)
EXTENDS JobQueue

CONSTANT Watchers  \* the jobs whose client polls after submitting

ASSUME JobApiAssumption == Watchers \subseteq Jobs

VARIABLES
  current,  \* the manager is the one the module-level _jobs_manager names
  posting,  \* jobs whose POST has the manager and has not called submit yet
  reading,  \* reading[j]: next field of the poll in progress, 0 between polls
  draft,    \* draft[j]: what the poll in progress has read so far
  answer    \* answer[j]: the last answer the client of j received

polls    == <<reading, draft, answer>>
apiVars  == <<vars, current, posting, polls>>

\* Mutant of ReadOrder: the record is summarised before its result is looked up.
SummaryFirst == <<"status", "started", "finished", "error", "result">>

\* job_status evaluates the result first, then summary() from status to error.
ReadOrder == <<"result", "status", "started", "finished", "error">>

Blank == [result |-> FALSE, status |-> "absent",
          started |-> FALSE, finished |-> FALSE, error |-> FALSE]

NotFound == [Blank EXCEPT !.status = "missing"]

ApiInit ==
  /\ Init
  /\ current = TRUE
  /\ posting = {}
  /\ reading = [j \in Jobs |-> 0]
  /\ draft = [j \in Jobs |-> Blank]
  /\ answer = [j \in Jobs |-> Blank]

-----------------------------------------------------------------------------
(* POST /jobs.                                                             *)

\* _jobs(): the request gets hold of the manager.
Post(j) ==
  /\ current
  /\ caller[j] = "idle"
  /\ j \notin posting
  /\ posting' = posting \cup {j}
  /\ UNCHANGED <<vars, current, polls>>

\* submit, on whatever manager the request holds.
SubmitPosted(j) ==
  /\ j \in posting
  /\ Submit(j)
  /\ UNCHANGED <<current, posting, polls>>

\* _reset_jobs, from the end of the application's lifespan.
ResetJobs ==
  /\ current
  /\ Shutdown
  /\ current' = FALSE
  /\ UNCHANGED <<posting, polls>>

-----------------------------------------------------------------------------
(* GET /jobs/{job_id}.                                                     *)

\* Job.done as the client sees it: it polls no further.
Final(a) == a.status \in {"succeeded", "failed", "missing"}

\* Mutant of Poll: a missing record is not answered.
PollIgnoringMissing(j) ==
  /\ j \in Watchers /\ caller[j] = "accepted" /\ reading[j] = 0 /\ ~Final(answer[j])
  /\ current /\ j \in registry
  /\ reading' = [reading EXCEPT ![j] = 1]
  /\ UNCHANGED <<vars, current, posting, draft, answer>>

\* _jobs().get(job_id).  After a reset _jobs() makes a new, empty manager.
Poll(j) ==
  /\ j \in Watchers
  /\ caller[j] = "accepted"
  /\ reading[j] = 0
  /\ ~Final(answer[j])
  /\ IF current /\ j \in registry
       THEN reading' = [reading EXCEPT ![j] = 1] /\ UNCHANGED answer
       ELSE answer' = [answer EXCEPT ![j] = NotFound] /\ UNCHANGED reading
  /\ UNCHANGED <<vars, current, posting, draft>>

\* The value of a field of the answer, were it read now.
Field(j, f) ==
  CASE f = "result"   -> status[j] = "succeeded" /\ outcome[j] = "result"
    [] f = "status"   -> status[j]
    [] f = "started"  -> started[j]
    [] f = "finished" -> finished[j]
    [] f = "error"    -> outcome[j] = "error"

ReadField(j) ==
  /\ reading[j] \in 1..Len(ReadOrder)
  /\ LET f == ReadOrder[reading[j]]
     IN draft' = [draft EXCEPT ![j][f] = Field(j, f)]
  /\ reading' = [reading EXCEPT ![j] = @ + 1]
  /\ UNCHANGED <<vars, current, posting, answer>>

Respond(j) ==
  /\ reading[j] = Len(ReadOrder) + 1
  /\ answer' = [answer EXCEPT ![j] = draft[j]]
  /\ draft' = [draft EXCEPT ![j] = Blank]
  /\ reading' = [reading EXCEPT ![j] = 0]
  /\ UNCHANGED <<vars, current, posting>>

-----------------------------------------------------------------------------
Client(j) == Poll(j) \/ ReadField(j) \/ Respond(j)

PoolStep == (\E w \in Workers : Run(w)) /\ UNCHANGED <<current, posting, polls>>

ApiNext ==
  \/ \E j \in Jobs : Post(j) \/ SubmitPosted(j) \/ Client(j)
  \/ PoolStep
  \/ ResetJobs

ApiSpec == ApiInit /\ [][ApiNext]_apiVars

\* What the threads justify: a request thread that has registered a job goes on
\* to the executor, a pool thread goes on with its _run (the pipeline of a job
\* returns or raises), and an idle thread gets a waiting work item.  A client
\* that was given an id keeps polling, and requests that are being served are
\* answered.  Nobody need submit and nothing need shut the queue down.
ApiFairness ==
  /\ \A j \in Jobs : WF_apiVars(caller[j] = "registered" /\ SubmitPosted(j))
  /\ \A w \in Workers : WF_apiVars(Run(w) /\ UNCHANGED <<current, posting, polls>>)
  /\ \A j \in Jobs : WF_apiVars(Client(j))

ApiFairSpec == ApiSpec /\ ApiFairness

-----------------------------------------------------------------------------
(* What a client may conclude from an answer.                              *)

\* An answer is put together from reads at different moments and can mix
\* them, yet some of its fields go together: a result comes with
\* "succeeded" and without an error, "failed" comes with its error, and a
\* job reported past "queued" has a start time (api.py:312-320).
AnswersCohere ==
  \A j \in Jobs :
    LET a == answer[j]
    IN /\ a.result => a.status = "succeeded" /\ ~a.error
       /\ a.status = "failed" => a.error
       /\ a.status \in {"running", "succeeded", "failed"} => a.started

\* A client that was given an id and keeps polling learns how its job ended,
\* or that the record has been retired, unless the service goes down.
ClientsLearnOutcome ==
  \A j \in Watchers : caller[j] = "accepted" ~> Final(answer[j]) \/ ~current
=============================================================================
