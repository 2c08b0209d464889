------------------------------ MODULE JobQueue ------------------------------
(***************************************************************************)
(* The in-process job queue of the REST API (qf_agentos/api_jobs.py): a    *)
(* registry of job records behind one lock, and a ThreadPoolExecutor whose *)
(* threads execute JobManager._run.                                        *)
(*                                                                         *)
(* A step is one critical section of JobManager._lock, one atomic          *)
(* operation of the executor, or the return or raise of the job's          *)
(* function.  The steps of different threads interleave freely: submit     *)
(* releases the lock between registering a job and handing it to the       *)
(* executor, and _run stamps the end of a job in a critical section of its *)
(* own, after the one that stores the outcome.                             *)
(***************************************************************************)
EXTENDS Integers, Sequences, FiniteSets

CONSTANTS Jobs,     \* identities of the jobs clients may submit (uuid4 hex)
          Workers,  \* threads of the pool: max(1, api_job_workers) of them
          MaxJobs,  \* retention cap: max(1, api_max_jobs)
          NoJob     \* what an idle thread holds

ASSUME JobQueueAssumption ==
  /\ IsFiniteSet(Jobs)
  /\ IsFiniteSet(Workers) /\ Workers # {}
  /\ MaxJobs \in Nat \ {0}
  /\ NoJob \notin Jobs

VARIABLES
  caller,   \* caller[j]: how far the submit call for j has got
  status,   \* status[j]: Job.status, "absent" before the job exists
  outcome,  \* outcome[j]: which of Job.result and Job.error is set
  started,  \* started[j]: Job.started_at is not None
  finished, \* finished[j]: Job.finished_at is not None
  registry, \* keys of JobManager._jobs
  arrival,  \* arrival[j]: place of j in the insertion order of _jobs
  queue,    \* work items waiting in the executor, oldest first
  held,     \* held[w]: the job thread w is executing _run for
  stage,    \* stage[w]: the next step of _run in thread w
  closed    \* the executor has been shut down

record   == <<status, outcome, started, finished>>
pool     == <<held, stage>>
vars     == <<caller, record, registry, arrival, queue, pool, closed>>

Statuses == {"absent", "queued", "running", "succeeded", "failed"}

TypeOK ==
  /\ caller \in [Jobs -> {"idle", "registered", "accepted", "refused"}]
  /\ status \in [Jobs -> Statuses]
  /\ outcome \in [Jobs -> {"none", "result", "error"}]
  /\ started \in [Jobs -> BOOLEAN]
  /\ finished \in [Jobs -> BOOLEAN]
  /\ registry \in SUBSET Jobs
  /\ arrival \in [Jobs -> Nat]
  /\ queue \in Seq(Jobs)
  /\ held \in [Workers -> Jobs \cup {NoJob}]
  /\ stage \in [Workers -> {"idle", "taken", "computing", "stamping"}]
  /\ closed \in BOOLEAN

Init ==
  /\ caller = [j \in Jobs |-> "idle"]
  /\ status = [j \in Jobs |-> "absent"]
  /\ outcome = [j \in Jobs |-> "none"]
  /\ started = [j \in Jobs |-> FALSE]
  /\ finished = [j \in Jobs |-> FALSE]
  /\ registry = {}
  /\ arrival = [j \in Jobs |-> 0]
  /\ queue = <<>>
  /\ held = [w \in Workers |-> NoJob]
  /\ stage = [w \in Workers |-> "idle"]
  /\ closed = FALSE

-----------------------------------------------------------------------------
(* The registry.                                                           *)

\* Job.done
Done(j) == status[j] \in {"succeeded", "failed"}

Submitted == {j \in Jobs : caller[j] # "idle"}

\* Mutant of DoneUpTo: counts from the newest.
DoneFrom(reg, j) == {k \in reg : Done(k) /\ arrival[k] >= arrival[j]}

\* The completed jobs among reg that were inserted no later than j.
DoneUpTo(reg, j) == {k \in reg : Done(k) /\ arrival[k] <= arrival[j]}

\* Mutant of Retained: evicts whatever is oldest.
RetainedAny(reg) ==
  {j \in reg : Cardinality({k \in reg : arrival[k] <= arrival[j]}) + MaxJobs > Cardinality(reg)}

\* Mutant of Retained: stops one record above the cap.
RetainedOneMore(reg) ==
  {j \in reg : Done(j) => Cardinality(DoneUpTo(reg, j)) + MaxJobs >= Cardinality(reg)}

\* _evict_locked on a registry with keys reg: completed jobs leave, oldest
\* first, until the cap is met or none is left.
Retained(reg) ==
  {j \in reg : Done(j) => Cardinality(DoneUpTo(reg, j)) + MaxJobs > Cardinality(reg)}

-----------------------------------------------------------------------------
(* submit, in the thread of the request: the record is created, inserted   *)
(* and the registry trimmed under the lock; the hand-over to the executor  *)
(* follows outside of it, and raises once the executor is shut down.       *)

\* A thread that got the manager before a shutdown may still register.
Register(j) ==
  /\ caller[j] = "idle"
  /\ caller' = [caller EXCEPT ![j] = "registered"]
  /\ status' = [status EXCEPT ![j] = "queued"]
  /\ arrival' = [arrival EXCEPT ![j] = Cardinality(Submitted) + 1]
  /\ registry' = Retained(registry \cup {j})
  /\ UNCHANGED <<outcome, started, finished, queue, pool, closed>>

Enqueue(j) ==
  /\ caller[j] = "registered"
  /\ ~closed
  /\ caller' = [caller EXCEPT ![j] = "accepted"]
  /\ queue' = Append(queue, j)
  /\ UNCHANGED <<record, registry, arrival, pool, closed>>

Refuse(j) ==
  /\ caller[j] = "registered"
  /\ closed
  /\ caller' = [caller EXCEPT ![j] = "refused"]
  /\ UNCHANGED <<record, registry, arrival, queue, pool, closed>>

-----------------------------------------------------------------------------
(* A thread of the pool.                                                   *)

\* Mutant of Take: looks at the item without removing it.
TakeKeeping(w) ==
  /\ stage[w] = "idle" /\ queue # <<>>
  /\ held' = [held EXCEPT ![w] = Head(queue)]
  /\ stage' = [stage EXCEPT ![w] = "taken"]
  /\ UNCHANGED <<caller, record, registry, arrival, queue, closed>>

\* An idle thread gets the oldest work item.
Take(w) ==
  /\ stage[w] = "idle"
  /\ queue # <<>>
  /\ held' = [held EXCEPT ![w] = Head(queue)]
  /\ stage' = [stage EXCEPT ![w] = "taken"]
  /\ queue' = Tail(queue)
  /\ UNCHANGED <<caller, record, registry, arrival, closed>>

\* Mutant of Start: the status is not set.
StartUnmarked(w) ==
  /\ stage[w] = "taken"
  /\ started' = [started EXCEPT ![held[w]] = TRUE]
  /\ stage' = [stage EXCEPT ![w] = "computing"]
  /\ UNCHANGED <<caller, status, outcome, finished, registry, arrival, queue, held, closed>>

\* _run: first critical section.
Start(w) ==
  /\ stage[w] = "taken"
  /\ started' = [started EXCEPT ![held[w]] = TRUE]
  /\ status' = [status EXCEPT ![held[w]] = "running"]
  /\ stage' = [stage EXCEPT ![w] = "computing"]
  /\ UNCHANGED <<caller, outcome, finished, registry, arrival, queue, held, closed>>

\* _run: fn() returned or raised, and the critical section that follows.
Settle(w, o, s) ==
  /\ stage[w] = "computing"
  /\ outcome' = [outcome EXCEPT ![held[w]] = o]
  /\ status' = [status EXCEPT ![held[w]] = s]
  /\ stage' = [stage EXCEPT ![w] = "stamping"]
  /\ UNCHANGED <<caller, started, finished, registry, arrival, queue, held, closed>>

Succeed(w) == Settle(w, "result", "succeeded")

\* Mutant of Fail: the error is not stored.
FailSilently(w) == Settle(w, "none", "failed")

Fail(w) == Settle(w, "error", "failed")

\* _run: the finally clause, and the thread is idle again.
Stamp(w) ==
  /\ stage[w] = "stamping"
  /\ finished' = [finished EXCEPT ![held[w]] = TRUE]
  /\ held' = [held EXCEPT ![w] = NoJob]
  /\ stage' = [stage EXCEPT ![w] = "idle"]
  /\ UNCHANGED <<caller, status, outcome, started, registry, arrival, queue, closed>>

\* shutdown(wait=False, cancel_futures=True): waiting work items are dropped,
\* threads that hold one go on.
Shutdown ==
  /\ ~closed
  /\ closed' = TRUE
  /\ queue' = <<>>
  /\ UNCHANGED <<caller, record, registry, arrival, pool>>

-----------------------------------------------------------------------------
Submit(j) == Register(j) \/ Enqueue(j) \/ Refuse(j)

Run(w) == Take(w) \/ Start(w) \/ Succeed(w) \/ Fail(w) \/ Stamp(w)

Next ==
  \/ \E j \in Jobs : Submit(j)
  \/ \E w \in Workers : Run(w)
  \/ Shutdown

Spec == Init /\ [][Next]_vars

-----------------------------------------------------------------------------
(* Safety.                                                                 *)

InQueue == {queue[i] : i \in 1..Len(queue)}

InPool == {held[w] : w \in Workers} \ {NoJob}

\* A client that was given a job id can look the job up for as long as it is
\* not completed: the trimming done by later submissions, whatever the
\* threads of the pool did in between, never drops it (api_jobs.py:112-120).
UnfinishedJobsListed ==
  \A j \in Submitted : ~Done(j) => j \in registry

\* No job is executed twice: it waits at most once in the executor, is held
\* by at most one thread, and not by both; nor is a job that was refused, or
\* not handed over yet, anywhere in the executor (api_jobs.py:72-86).
OneExecution ==
  /\ \A m, n \in 1..Len(queue) : queue[m] = queue[n] => m = n
  /\ \A v, w \in Workers : held[v] = held[w] /\ held[v] # NoJob => v = w
  /\ InQueue \cap InPool = {}
  /\ \A j \in InQueue \cup InPool : caller[j] = "accepted"

\* The record tells where the job is: it says "running" exactly while a
\* thread is inside its function, and a completed record without an end
\* time is one whose thread is between its last two critical sections
\* (api_jobs.py:86-102).
RecordTellsStage ==
  \A j \in Jobs :
    /\ status[j] = "running" <=> \E w \in Workers : held[w] = j /\ stage[w] = "computing"
    /\ Done(j) /\ ~finished[j] <=> \E w \in Workers : held[w] = j /\ stage[w] = "stamping"
    /\ j \in InQueue => status[j] = "queued"

\* A record is never half right about how the job ended: a result goes with
\* "succeeded" alone, an error with "failed" alone, and an end time with one
\* of the two and a start time (api_jobs.py:90-102).
RecordAgrees ==
  \A j \in Jobs :
    /\ outcome[j] = "result" <=> status[j] = "succeeded"
    /\ outcome[j] = "error" <=> status[j] = "failed"
    /\ finished[j] => Done(j) /\ started[j]

\* Both: a record always tells where its job is and how it ended.
RecordsRight == RecordTellsStage /\ RecordAgrees

\* What ties a record to the thread and the caller that work on it, besides
\* the properties above: the strengthening that makes them inductive.
ThreadInv ==
  /\ \A w \in Workers : held[w] = NoJob <=> stage[w] = "idle"
  /\ \A w \in Workers : stage[w] = "taken" => status[held[w]] = "queued"
  /\ \A j \in Jobs : status[j] = "absent" <=> caller[j] = "idle"
  /\ \A j \in Jobs : caller[j] \in {"registered", "refused"} => status[j] = "queued"
  /\ \A j \in Jobs : status[j] \in {"absent", "queued"} <=> ~started[j]

IInv ==
  /\ TypeOK
  /\ ThreadInv
  /\ OneExecution
  /\ RecordTellsStage
  /\ RecordAgrees
  /\ UnfinishedJobsListed

\* Retention is by age of the submission: what a step drops is completed, and
\* every completed job that stays was submitted later (api_jobs.py:112-120).
EvictsOldestDone ==
  [][\A j \in registry \ registry' :
       Done(j) /\ \A k \in registry' : Done(k) => arrival[j] < arrival[k]]_vars

\* Trimming stops exactly at the cap: a submission leaves the registry over it
\* only when nothing in it is completed, and never takes more than it must
\* (api_jobs.py:114-120).
TrimsToCap ==
  [][/\ registry' # registry /\ Cardinality(registry') > MaxJobs
          => \A j \in registry' : ~Done(j)
     /\ registry \ registry' # {} => Cardinality(registry') >= MaxJobs]_vars

-----------------------------------------------------------------------------
(* The queue implements the life cycle clients are promised: the record's  *)
(* status is the phase, the registry is what is listed.                    *)

Lifecycle == INSTANCE JobLifecycle
               WITH Slots <- Cardinality(Workers), phase <- status, listed <- registry

\* Every step of the threads is a step of the life cycle or invisible to
\* clients: no status goes back or skips "running", no more jobs run than the
\* pool has threads, only completed jobs leave the registry
\* (api_jobs.py:72-120).
FollowsLifecycle == Lifecycle!Safety

\* With threads that run on the queue also makes the promised progress: while
\* it is open queued jobs get their turn, and jobs that run come to an end.
ImplementsLifecycle == Lifecycle!Spec
=============================================================================
