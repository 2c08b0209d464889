# QF-AgentOS in TLA+

QF-AgentOS takes a financial problem specification, solves it exactly with classical
methods, decides under a policy whether a quantum method may and should be run, runs it,
verifies every result independently, lets an auditor decide what the evidence supports,
and stores the evidence in files, in PostgreSQL or in MLflow. A REST API serves this with
an in-process job queue; a CLI does the same in one process.

This directory models the parts of that program whose correctness depends on the order
of steps, on which steps fail, on several threads, or on arithmetic that is easy to get
wrong by a sign or an index. Paths below are relative to `src/src/qf_agentos/` unless
they start with `docs/`; `PROJECT.json` maps every definition to its lines.

Contents: [1 The system](#1-the-system) ·
[2 Modules](#2-modules-and-how-they-correspond-to-the-code) ·
[3 Runs](#3-runs) · [4 Fairness](#4-fairness) · [5 Proofs](#5-proofs) ·
[6 Where code and documentation differ](#6-where-code-and-documentation-differ) ·
[7 What is not modelled](#7-what-is-not-modelled) · [8 Plan](#8-plan)

## 1 The system

| Component | State it keeps | Operations | Hard behaviour | What makes it correct |
|---|---|---|---|---|
| Job queue `api_jobs.py` | `_jobs` (records in insertion order) behind one lock; a thread pool with its queue | `submit`, `_run`, `get`, `list`, `_evict_locked`, `shutdown` | the lock is released between registering and handing over; outcome and end time are stored in two critical sections; trimming while threads run; shutdown at any time | a job in flight is never trimmed; each job is executed once; a record always tells the truth; trimming is by age and stops at the cap; accepted jobs finish |
| Job endpoints `api.py` | the module-level manager, replaced after a reset | `POST /jobs`, `GET /jobs/{id}`, `GET /jobs`, lifespan end | fields of a record are read without the lock while threads write them; requests that hold the old manager | what a client may conclude from an answer; it learns the outcome |
| Callers of the pipeline `api.py`, `cli.py` | none of their own; the context of the run | `_execute_solve`, `solve` | the run goes on when steps fail, so a decision or a bundle may be missing when the answer is chosen; saving may raise after it | the answer agrees with the evidence that is kept; every caller is answered |
| Rate limiter `api.py` | a deque of timestamps per client | `rate_limit` | several threads drain, test and extend one deque without a lock | bounded overshoot, exactness without overlap |
| Workflow runner `core/workflow.py` | `RunContext`: trace, errors, pipeline state | `Workflow.run` | a step raises half way; the progress callback raises | failures are isolated and recorded |
| Optimization pipeline `pipeline.py`, `agents/` | `PipelineState` | nine agents | each agent runs on whatever the failed ones before it left | paid hardware is gated; the plan is what runs; a favourable decision rests on results |
| Classification pipeline `agents/classification.py`, `finance/qkernel.py`, `qml.py` | the same state, classification fields | eight agents | as above; equal timestamps at the split | no look-ahead; an improvement is tested before it is claimed |
| Policy engine `core/policy.py` | level, approval, budget | `authorize` | combinations of gates | no unauthorised action |
| Problem domains `finance/collateral.py`, `settlement.py`, `payment_routing.py` | pure | reduce, MILP rows, check, QUBO, Ising, decode | every constraint exists twice; slack bits, penalties, index arithmetic, qubit budget | both forms agree; the encoding means what it should; instances fit |
| Classical QUBO solvers `backends/heuristic.py` | annealer state | brute force, simulated annealing | energy is carried along as a sum of differences | it never loses track of the energy of its bits |
| File store `governance/store.py` | three files per run, `index.jsonl` | `save`, `list_runs`, `load_manifest` | four writes, crashes and failing writes between them, an API lock the CLI does not take, ids of one-second resolution | whoever opens a listed run gets its evidence |
| Postgres store `governance/postgres_store.py` | the table `qf_runs` | creation of the table, `save`, `list_runs`, `load_manifest` | a DELETE and an INSERT in one transaction, against those of other processes at READ COMMITTED; lost answers of a commit | saves of one run have an order; readers see atomic replacement; no save waits for ever |
| MLflow store `governance/mlflow_store.py` | MLflow runs with tags and documents | `_ensure_experiment`, `save`, `list_runs`, `load_manifest` | a run is listed before its documents are logged; several MLflow runs for one run id | an answered save left its evidence; only a newer, unfinished save hides it |
| Governance report `governance/report.py` | pure | `build_bundle`, rendering | runs on a partial state | the bundle shows what there is |
| Quantum backends `backends/`, and the accounting of `agents/verification.py` | provider sessions | `solve`, `available`, `_readout_mitigate`, `_quantum_contribution` | may raise after the provider charged; every framework has a bit order of its own; axes of a tensor are permuted | solver and verifier read the same histogram; a contribution is earned; mitigation inverts the noise |
| Arena, Studio, skills, observability, configuration, QAE, tensor networks | — | — | — | see section 7 |

How they interact. A request thread of the API (or the CLI) calls `solve`, which builds a
`RunContext` and runs one of the two pipelines in that thread; a job does so in a thread
of the pool. The agents share the `PipelineState` and communicate through it only. The
planner and the execution agent ask the domain (pure functions), the backends (external)
and the policy engine. When the run is over the API thread takes `_persist_lock` and
saves the bundle to the configured store; a CLI process saves to the directory of the
file store without that lock, and processes of the API that share a database or a
tracking server meet there only. Clients poll the job record. The progress callback is called from within the runner.

The hazards that follow from this are listed with their lines in `PROJECT.json` under
`hazards`, with the properties that would catch each of them going wrong.

## 2 Modules and how they correspond to the code

```
JobLifecycle <~~ JobQueue <-- JobApi <-- ServiceProofs       Workflow                 Policy
                    ^                     |  |   :            ^  ^                    ^  ^
                    +-- JobEvidence <-----+  |   :            |  +-- Classification --+  |
                           :                 |   :            |         ^                |
                           :   RateLimiter <-+   :            |  ClassificationProofs    |
                           :                     :            +------- Pipeline ---------+
EvidenceRegistry <~~ EvidenceStore <-- EvidenceStoreProofs                ^
                                                                      Frontends <-- PipelineProofs
SavingProcesses <-- PostgresStore, MLflowStore <-- ServerStoreProofs
EvidenceUpsert <~~ PostgresStore
                                      Qubo <-- Collateral, Settlement, Routing <-- Ladder
                                      ^  ^                                           ^
               Sampling --> Readout --+  +-- QuboProofs <----------------------- LadderProofs
                   ^                             ^
                   +------- SamplingProofs ------+

     <--  EXTENDS      <~~  refines (INSTANCE)      :  uses (INSTANCE)
```

`MC*` modules only define model values, requests and problems for TLC.

**JobLifecycle** is the abstract specification of what clients are promised: every job
goes once through queued, running and one outcome; no more jobs run than there are slots;
a job is listed from its submission on and only completed ones stop being listed; queued
jobs get their turn and running ones end.

**JobQueue** models `JobManager`. A step is one critical section of `JobManager._lock`,
one atomic operation of the executor, or the end of the job's function together with the
critical section after it. `submit` is `Register` (record, insertion, `_evict_locked`)
followed by `Enqueue`, or `Refuse` when the executor was shut down in between. `_run` is
`Take`, `Start`, `Succeed` or `Fail`, `Stamp`. `Retained` is the set that the loop of
`_evict_locked` leaves, as a function of the registry. The executor is modelled from how
it is used: a FIFO of work items, and `shutdown(wait=False, cancel_futures=True)` that
empties it. The state of the record is the variables `status`, `outcome`, `started` and
`finished`; `arrival` is the insertion order of the dictionary, assigned by the
registration that happened first.

**JobApi** puts the endpoints over the queue: `POST /jobs` obtains the manager and calls
`submit` in two steps, so that the lifespan can end in between (`ResetJobs`);
`GET /jobs/{id}` looks the record up and then reads its fields one by one in the order
`job_status` evaluates them. A read between two assignments of one critical section of
`_run` is not a separate case: each section assigns the status last and the answer reads
the status before the fields that were assigned with it, so that such a read has the
value it would have had just before or just after the section.

**JobEvidence** composes the queue with the file store: the function of a job solves and,
if the request says so, saves under `_persist_lock` in the thread of the pool before
`_run` stores its result; `POST /solve` does so in the thread of the request. It extends
`JobQueue` and instantiates `EvidenceStore`, so that a step of a thread is a step of the
one, of the other, or — when the function returns or raises — of the queue under a
condition on the store. The process may die between any two steps; the directory and what
clients were told outlive it.

**Workflow** is the loop of `Workflow.run`, one step per iteration, in the control-flow
detail that matters: a step returns or raises, the callback may raise inside the guarded
block (the step is then recorded twice, as ok and as failed) and once more, unguarded, in
the except clause (the run ends). **Pipeline** and **Classification** extend it. Each
agent is an action that says what it assigns when it returns and what it has already
assigned when it raises; each guard is the code's own test for what earlier agents left.

**Policy** is `authorize`. **Pipeline** keeps, of the nine agents' state, what later
agents branch on: the instance's size, the plan, the methods that have results, their
feasibility and cost, which solvers were called, what they charged, warnings, reports,
decision and bundle. `Abstains` and `Target` are the planner's cascade, `Category` and
`Recommended` the auditor's. **Classification** keeps the timestamps of the data set and
computes the split, the leakage check and the temporal check from them; a trained model is
its error on the test set, and the significance test may find anything.

**Frontends** puts the two callers that keep evidence over `Pipeline`: `_execute_solve` and
the command `solve`. Each chooses its answer — a status code or an exit code — from what
the run left: the API refuses without a decision or a bundle and saves only if asked to;
the command saves what bundle there is and then chooses its code. A save takes place or
raises here; its steps are those of the store modules.

**Qubo**, **Collateral**, **Settlement**, **Routing** translate the pure algorithms:
reduction to an instance under a qubit budget, the rows of the integer program, the
recomputation that judges decoded bits, the coefficients of the QUBO, the Ising form.
**Ladder** runs the planner and the execution agent on them: reduce and encode, solve the
instance exactly, brute-force the QUBO if it is small, anneal it.

**Sampling** is what happens to a QUBO on a quantum backend. A shot gives any bit string;
each of the four backends labels outcomes in its framework's order and decodes them with a
function of its own to find its best sample; the verifier decodes the histogram again, with
a function of its own, and compares its energies with those of random strings. The noisy
pass of the simulator misreads a histogram and corrects it with **Readout**, which
translates `_readout_mitigate`: the inverse confusion applied along one axis after the
other, clipping, normalising, rounding.

**EvidenceRegistry** is the abstract store: a run is published once, with its whole
evidence, and neither disappears nor changes. **EvidenceStore** is `save` write by write —
each file is truncated by one step and filled by another, then the line of the index —
by API threads under `_persist_lock` and by CLI processes without it, with writes that
fail, processes that die, and a reader that lists the runs and opens one of them. `since`
remembers the second a run was solved in, apart from the run id it got, so that the
properties can say which executions may share one: `Namesakes`.

**EvidenceUpsert** is the abstract store that replaces: a save takes effect once, at one
moment between its beginning and its answer, and as a whole; one without an answer has
taken effect or not. **SavingProcesses** is what the two server stores share: API processes
whose saves take turns under `_persist_lock`, and that may die. **PostgresStore** is `save` of the SQL store statement by statement:
the lookup and the creation of the table, the DELETE (what it sees when it begins, and
what it removes after waiting for the transaction that is removing the same row), the
INSERT with its wait and its unique violation, the commit and the commit whose answer is
lost. A row is named by the save that wrote it. The database is external and modelled by
what READ COMMITTED allows these statements. **MLflowStore** is `save` of the MLflow store
call by call, each of which may fail before or after it took effect; `Newest` is the run
that `load_manifest` opens.

**RateLimiter** is `rate_limit` for one client, one step per operation on the deque.

### Abstractions

* Identities, digests, texts, durations, model features and circuits are left out or are
  model values.
* A QUBO's coefficients are fractions in the code. Each domain multiplies them by their
  common denominator, which is stated next to the encoding; an energy only ranks bit
  strings and the factor is positive. Floating-point rounding and the tolerances (1e-6
  and the like) of the checks are not modelled.
* Caps, shares, ratios and approval rates are numbers of tenths. Issuers are the only
  attribute of collateral that is capped; the other attributes use the same code. The
  latency cost of a route is part of its fee. Obligations are listed in the order of their
  ids, which is how the code breaks ties.
* In Ladder the annealer's temperatures, random sequence, number of sweeps and restarts
  are left open: every uphill flip may be accepted or not.
* In Sampling energies are integers, and circuits, their parameters and gate noise are left
  out: a histogram is any distribution of the shots. In Readout the misreading probability
  is the fraction `Misread / Reads`, and counts are multiplied by `Reads` to the number of
  qubits, so that the average of the noise is an integer. The mitigation drops entries of
  at most a millionth of the histogram; the millionth is the constant `Parts`. Requests for
  a noisy pass are those it treats: up to 16 qubits and a probability of at most 0.4.
* In PostgresStore and MLflowStore a run's content is the save that wrote it; parameters
  and metrics of an MLflow run are one call, because nothing reads them back.
* In Pipeline an integer program returns an optimum or nothing; for which costs is open.
* A provider that raises may or may not have executed and charged the job.

## 3 Runs

Deadlock checking is off where the modelled service or run really comes to rest: all jobs
submitted and finished, a run answered, all saves settled, the bound on requests reached.
Ladder and Sampling keep it on; their final states have a step of their own.

| Run | Instance | What it shows |
|---|---|---|
| `JobQueue_safety` | 4 jobs, 2 threads, cap 2, symmetric | A job in flight is always listed; each job is executed once; a record tells the stage its job is in and how it ended; trimming drops the oldest completed jobs and stops exactly at the cap; every step is one of `JobLifecycle`. |
| `JobApi_clients` | 2 jobs, 2 threads, cap 1, one client polling | Answers cohere though they are put together from unlocked reads; a client that keeps polling learns the outcome; the queue implements `JobLifecycle` with its progress, also through a reset of the manager. |
| `JobEvidence_disk` | 2 jobs, 2 threads, one job and one request that save | Who was told that a job succeeded finds its complete evidence in the index, also after the process died or the record was trimmed; a failed job is not listed; no job is stuck behind the saves of others. |
| `Frontends_answers` | 112 policies and sets of backends, 3 sizes; five agents, the callback and the save may fail | Paid solvers are gated and the plan is what is executed; favour rests on a called solver and a feasible solution; "not feasible" has a recorded cause; a bundle without errors is complete; answers agree with the evidence that is kept; every caller is answered. |
| `Classification_faults` | 3 requests, every agent but the first may raise, and so may the callback | Failures are isolated and none is forgotten; the split holds out the latest samples under ties; only tested kernels are favoured; recommendation and bundle fit the models there are. |
| `Ladder_domains` | 23 problems of three domains, qubit budgets 1 to 7 | Instances fit the budget; the QUBO's energy is what it is meant to be and the Ising form equals it, for every bit string; rows and check agree; the routing ground state is a cheapest assignment; the annealer knows its energy. |
| `Ladder_ground` | 2 securities | The collateral ground state may miss the coverage requirement (section 6). |
| `Sampling_verifier` | 5 QUBOs of 2 and 3 variables, 4 backends, 2 shots | The verifier reads every backend's histogram as the solver did; a contribution is attributed only to sampling that beat random strings; mitigation takes back the noise exactly, and a single misreading is amplified by no more than it must be and rounded. |
| `EvidenceStore_safety` | 2 API threads and a CLI process; a thread and the CLI share a spec, in one second or two | A save that returned is complete and indexed; readers get the evidence that was listed; only executions of one spec in one second disturb each other; the runs that cannot be shared implement the registry. |
| `PostgresStore_saves` | 3 processes, one with 2 threads, 3 saves of one run | Saves of one run have an order and none overwrites evidence it has not seen; readers see atomic replacement; no two saves wait for each other. |
| `MLflowStore_saves` | the same | An answered save left its whole evidence, and what cannot be loaded is a newer save that has not come to its end. |
| `RateLimiter_threads` | 3 threads, limit 2, 5 requests, window of one tick | The window is overshot by at most threads - 1; without overlap the limit is exact. |

Why the bounds are enough. *Jobs*: trimming needs at least two completed jobs of
different age and one in flight at the cap, and two threads completing out of order;
four jobs with a cap of two give all of these, including a registry above the cap with
nothing to trim. JobApi adds what a client sees and needs one polled job, one that evicts
it, and both threads. JobEvidence needs two threads of the pool, one of which waits for
the lock while a request holds it; specs are distinct, so one second is enough.

*Frontends*: `MCRequests` holds the requests that differ in at most two fields from `Open`,
to which the policy sets no limit: a gate that fails to close shows when it is the only one
that should, and two gates in conflict show as well. The requests of the command line are
two, since what is executed does not depend on the caller. Sizes are 0, within both
limits, and above the simulator's limit and the policy's; costs are 0 and 1 because 0 is
where "no objective" and "costs nothing" are easily confused; the price exceeds the
budget. Of the agents, those whose results later ones or the answer depend on may raise;
proofs cover the other patterns of failures (section 5). L0 is left out of the requests
because it allows no more than L1 of what the pipeline asks for.

*Classification*: three samples, two of them simultaneous, one test sample, so that the
tie is at the boundary; errors 0 and 1 tell better, equal and worse apart. *Ladder*: the
budget crosses every threshold of the reductions (fewer qubits than slack bits, one item,
room for slack, all items), the problems have ties, free and ineligible securities, a
settlement cycle that only settles as a whole, a participant with no balance, transactions
whose only route is cut off, and optional constraints switched on and off; 7 variables are
128 bit strings, and brute force is limited to 6 so that its skipping occurs. *Sampling*:
the QUBOs are one where the order of the bits matters, one with two ground states, one
with couplings only, a flat one, and one of three variables, whose optimum is not known;
two shots can agree or differ, in energy and in optimality. A bit is misread once in five
times; the noise is at its average, or one misreading off it. With `Parts` at 5 mitigation drops
entries of these small histograms, as the code's million does in large ones. Only QUBOs of
two variables are noisy, since the counts grow with `Reads` to the number of qubits; two are
enough for axes to be confused.

*Stores*: in the file store two threads and the CLI are a pair of writers under the lock, two
without, and a third beside each pair; with two specs and two seconds, run ids are shared,
or differ by time or by spec. In
the databases three transactions of one run give a DELETE that waits behind another that
waits itself, and the second thread of a process adds the lock and a second run. *Rate
limiter*: with a limit of two and three threads the deque can be emptied between test and
read, and overshot by two; five requests are what it takes to exceed the bound if the test
let one more pass.

`LastSecond`, `LastTime` and `MaxRequests` bound clocks and counters, and nothing else.

## 4 Fairness

* JobQueue, JobApi: a request thread that registered a job goes on to the executor; each
  pool thread goes on with its `_run` (weak fairness of its next step, which includes
  taking work while there is any, since the executor wakes idle threads); requests being
  served are answered. The client is assumed to keep polling. Nobody need submit, and
  nothing need shut the service down. That a job's function returns or raises is part of
  the thread's fairness: `solve` has no unbounded loop and no wait of its own; a provider
  that never answers is outside the assumption.
* JobEvidence: the same, and threads and requests go on through the steps of a save.
  `threading.Lock` is not fair, but only finitely many saves compete for it, so weak
  fairness of each suffices. That the function raises of its own accord is possible and
  never required; nor is the death of the process.
* Frontends: the one thread that reads, runs and answers goes on.
* PostgresStore: a save that can go on does; the database lets one that waits for another
  transaction proceed when that transaction has ended. Failures and deaths are never
  required.
* None is stated for EvidenceStore, MLflowStore, RateLimiter, Classification, Ladder and
  Sampling: their runs check safety only.

No strong fairness is used anywhere.

## 5 Proofs

TLAPS proves the following for every value of the constants, under the assumptions named
in the modules: finite sets of jobs and threads with at least one thread and a positive
cap (`JobQueueAssumption`); a list of differently named steps (`WorkflowAssumption`), for
the pipeline that of the code, requests that are policies, natural numbers as sizes, costs,
prices and limits (`PipelineAssumption`); finitely many saves (`SavesAssumption`,
`EvidenceStoreAssumption`); jobs and requests that are told apart
(`JobEvidenceAssumption`); finitely many threads and a positive limit and window
(`RateLimiterAssumption`); specifications of the three domains with natural numbers as
amounts, coverages and costs (`SpecsAssumption`) and a positive limit of brute force
(`LimitAssumption`); QUBOs with at least one variable and integer coefficients, and at least
one shot (`SamplingAssumption`); a readout error the mitigation treats (`ReadoutAssumption`).

**ServiceProofs, the queue.** `TypeOK` is inductive alone, given that `Retained` returns a subset of
its argument that contains all that is not completed (`RetainedKeeps`). None of
`OneExecution`, `RecordsRight` and `UnfinishedJobsListed` is inductive: that a thread does
not start a job twice needs that the executor holds a job only once *and* that what it
holds is still queued; that trimming spares a job in flight needs that the status tells
whether it is in flight. `IInv` is their conjunction with `ThreadInv`, which says what a
thread's stage and a caller's progress imply about the record. It is preserved by every
step, one lemma per action (`RegisterIInv` … `ShutdownIInv`, `StepIInv`); `AppendOnce` and
`TailOnce` state what the queue operations do to a sequence without repetitions. From
`Invariance` follow `UnfinishedJobsAreListed`, `ExecutedOnce` and `RecordsAreRight`.
`EvictionIsByAge` needs in addition that of two completed jobs the trimming never keeps
the older one only (`RetainedNewer`), a counting argument. `ClientsSeeLifecycle` is the
refinement: `status` is the phase and the registry what is listed. The step that is not
obvious is `Start`: that fewer than `Cardinality(Workers)` jobs are running when a thread
begins one, because `held` is injective on the running jobs and the thread itself holds
one that is not running yet (`SlotFree`).

`TrimmingStopsAtCap` is about `Retained` as a number: sorted by age, the completed jobs that
go are as many as exceed the cap, and no fewer if there are that many. It counts the
completed jobs up to each one (`RetainedAtCap`); where it needs the oldest of those that
stay it takes a smallest set of jobs not older (`SmallestSubset`, by well-foundedness of the
inclusion of finite sets), and that ages differ is an invariant of its own (`ArrivalInv`).

**ServiceProofs, the endpoints.** Every step of the service is a step of the queue or changes nothing of it
(`ApiRunsQueue`), so that what is proved of `JobQueue` holds of the service, whatever
clients do and whenever the manager is reset. `AnswersAreCoherent` rests on what lasts: a
status that was read as final stays, a job that was begun stays begun, an error goes with
"failed" (`RecordsLast`). `PollInv` says, for every number of fields a poll has read, what
its draft may hold: of the lasting facts those that still hold, and fields that were read
later agree with those read before. Without `IInv` it is not inductive, since it is
`RecordsRight` that ties a start and an error to the status.

**ServiceProofs, the evidence of jobs.** The service of `JobEvidence` is the queue
(`ServiceRunsQueue`) and it is the file store, with every save that of one process and every
spec its own (`ServiceRunsStore`); so `IInv` and the store's `StoreInv` hold of it without
being proved again, the latter cited from `EvidenceStoreProofs` through an instance. What is
left is `LinkInv`, how the end of a record and the phase of its save agree: a success that
persists was saved, what failed was not, and only successes were told. It is preserved because
a step of one save leaves all others' phases (`SavesOwnPhase`), and because a job is ended by
the thread that holds it, when its save is (`StepPhase`, `StepEnding`).
`ToldAreStored` is the consequence: `FilesInv` and `LinesInv` then say what is in the files and
the index. That the index has a line of a save is a fact about the store that lasts, also when
the process dies and the record is trimmed.

**ServiceProofs, the rate limit.** `OvershootBounded` is inductive with `LimiterTypeOK`: a
thread joins those about to append only if the window is below the limit, so that the sum of
both is at most `Limit - 1` plus the threads about to append, itself included; appending moves
one from the one summand to the other and dropping timestamps only lowers the sum.
`LimitIsExact` has a hypothesis about the whole behaviour, that requests never overlap, which
enters each step as a hypothesis about the states before and after it. Then
`SequentialInv` is inductive: the deque holds the last of the admitted timestamps, these grow,
what was dropped is older than the window (`DequeInv`), and a thread knows of what is left
that it is in its window once it has stopped dropping (`Serving`). Admitting keeps the
limit because a window that holds the new timestamp reaches only what the deque holds, and a
request is refused only when all the deque holds is in its window.

**ClassificationProofs, the runner.** `RunOnRecord` — a finished run executed every step, trace and errors are
in the order of the list, and the errors are the steps the trace shows as failed — is
preserved only together with `TurnsInv`, which says what is on record of the steps before
the turn and that nothing is of those after it: `RunIInv` is their conjunction with the
types. A step appends ok, failed, or ok and failed (`EventsAdded`); one lemma,
`RecordKeeps`, covers all three. The names of steps must be distinct.

**PipelineProofs.** `TurnInv` says which agent made what the state holds: a plan exists
only after the fourth turn and is the planner's answer for the instance in the state;
whatever was called is that plan's target and was authorised; a decision exists only after
the eighth turn. The strengthening is needed because a raising planner may have replaced
the instance, and because neither gate looks at the other: the planner does not ask the
policy engine, and the execution agent does not look at the request. From `TurnsAgree`
follow `PaidSolversAreGated` and `PlansAreExecuted`; `FavourIsFounded` is shown from it by
looking at every step once more, since the results a decision rests on must not change
after the decision. `RecordInv` accounts for every agent that had its turn: it did its part
or it is among the failures (`Accounted`), and execution, which may do its part by saying
why it did not call a solver, left a result, a warning or a failure (`Executed`). One
lemma, `AccountKept`, reduces a step to what its agent did and that nothing was taken back.
From it follow `CausesAreRecorded` and `CleanBundlesAreComplete`. All five hold for every
pattern of failing steps and any callback, beyond the steps the run lets fail.

The callers of `Frontends` only add to this (`FrontsRunThePipeline`): what is theirs is the
call, the answer and the store. `AnswersMatchEvidence` needs `BundleInv`: the bundle has the
decision of the context and the failures of the agents before governance. It holds because
governance is the last agent, so that after it neither decision nor failures change, but for
a failure of its own when the callback raised.

**ClassificationProofs, the pipeline.** The agents are steps of the runner (`ClassRunsWorkflow`), so that
`RunIInv` is at hand. `ClassInv` says what each of them left by the time it had its turn:
`DataInv`, a split where the times of the data say; `ModelsInv`, baselines and a quantum
kernel only as the plan and the policy allow; `ReportsInv`, a report for a trained model,
compared with the baselines there are; `AccountInv`, which failures explain what is missing.
None of the three properties is inductive alone: the auditor looks at reports and models, and
that a report's contribution was computed on a valid split and an executed kernel is known of
earlier turns only. `HoldoutsAreLatest` holds for data of any size with any ties, because
the split is a prefix of an order by time.

**EvidenceStoreProofs.** `StoreInv` says that the next write of a save tells what each of its
files holds, or that a namesake has written there too (`FilesInv`), that lines of the index
are those of saves that came to their end (`LinesInv`), and that a reader's record is listed
(`ReaderInv`). It is inductive for any specs and whoever takes the lock: saves that share a
run id share spec and second (`SharedRun`), and who has written under a run id stays a
namesake (`NamesakesStay`), so that what a file may hold is never taken back. From it follow
`SavesAreKept`, for which the account of missing saves is carried along as `SavedInv` — a half
line at the end of the index counts as one save that will be missing, and has a failed save
of its own — and `ReadersAreServed`. `StoreIsRegistry` is about the listed
runs whose spec is solved once (`Unshared`), whatever other saves do to each other; without
that restriction it is false (section 6). The run id of such a save belongs to it alone
(`OwnRun`), and a line of the index is the only step that changes what is shown, by a run
that was not there.

**ServerStoreProofs, PostgreSQL.** That saves of one run have an order (`SavesSerialise`) is not
inductive: a commit keeps it because what the transaction removed is still the row of its
run (`TookInv`), because no other open transaction has removed it (`KeyInv`), and because
the row the transaction inserts is the only one under the key when the INSERT succeeds;
what a DELETE has seen was committed and of the same run (`SeenInv`), and a process has one
save inside its lock (`OneInside`). `PgIInv` is their conjunction with the types, preserved
by one lemma per kind of step. `PgRefinement` maps the committed rows to what is published
and the phase to the answer: a commit is `Keep`, or `Lose` if its answer is lost, and a
crash is `Lose` of all saves of the process, of which the one whose commit was under way
may have taken effect.

**ServerStoreProofs, MLflow.** `SavedLoads` needs what the server has of each save: `CallsInv`, the
calls up to some point, all of them when the save was answered; and `CreatedInv`, a run in the
experiment from `create_run` on. The call that a save makes next is the one after those logged
because as many are logged as the number of them says (`NextCallIs`). `UnheardKeeps` treats
requests that fail, and those of a dying process, together: they do what the request would
have done, or nothing. `NewestIs` says what `load_manifest` finds: the last of a set of places
exists because the smallest bound of them is one of them (`LastPlace`).

**QuboProofs.** A sum over a set is a fold of the community modules, defined by recursion
over finite sets. `SumUnfolds` justifies the recursion: the order of inclusion of finite sets
is well-founded, so that a set of subsets with the empty one and, with every smaller one,
the next one has them all (`SubsetInduction`). What the encodings need of sums follows from it:
they are integers, sums of sums, may be renamed, exchanged and split, count what they
run over (`SumType` … `SumSingle`). `SortingPermutes` says that `StableSort` sorts if the order
is a weak one, by counting who comes before an element, and `KeptIs` that `Kept` is a
subsequence. On that rest three facts about any number of variables and any
coefficients: `IsingExact`, the Ising form has the energy of the QUBO, since every coupling is
shared by the two fields of its variables; `GroundIsLeast`, `brute_force_qubo` finds a
minimum; and `EnergyOfSquares`, an encoding that adds up weighted squares of linear forms has
as its energy the weighted squares of their values, because x * x = x.

**LadderProofs.** All six invariants of `Ladder` hold for every specification.
`LadderInv` says that what is planned is the reduction and the encoding of the specification
in the state, and that the annealer carries the energies of its bits along. It is inductive by
`FlipAdds`: what `Delta` says is the difference of the two sums, since only the terms of
the flipped bit change. `EnergiesAreTracked` and `IsingIsTheQubo` follow at once.

The other four come from lemmas about each domain.

* `PlansFit`: the reductions (`CollateralReduces`, `SettlementReduces`, `RoutingReduces`) keep
  to the budget, slack included. The greedy admission of settlement is a recursive function;
  that it keeps to the budget, and that what it leaves out did not fit when its
  turn came and does not fit later, is an invariant of its steps (`AdmissionKeeps`).
* `EncodingsAreExact`: every encoder builds squares of linear forms plus costs, and
  `EnergyOfSquares` gives their energy. What is left are the values of the forms: slack bits add
  up to the slack they stand for, participants' blocks of bits do not overlap (`BlockLies`),
  a slot is a transaction and a route (`SlotsAre`). `CollateralExact`, `SettlementExact` and
  `RoutingExact` are the results.
* `ComparatorIsFair`: on every instance that is not degenerate the rows of the integer
  program admit what the check accepts and nothing else (`CollateralChecksRows`,
  `SettlementChecksRows`, `RoutingChecksRows`). That the classical result is an optimum under the rows is the invariant
  `Optimum`; the theorem combines the two.
* `GroundsAreCheapest`: bits that are not one eligible slot for each transaction have an energy
  above the cost of all slots together, because the encoding divides costs by that sum and
  the penalty weighs 8 (`PenaltyOutweighs`); among the others, exchanging the route of one
  transaction for a cheaper one lowers the energy (`RoutingGround`). That the exact rung decodes
  a minimum of the encoding in the state is the invariant `ExactIsGround`. The same theorem for collateral would be
  false (`Ladder_ground`, section 6).

**SamplingProofs.** `SampInv` says from what the state stems: the result from a histogram of
shots (`ResultInv`), the report of the verifier from the same shots and from random strings
(`ContributionInv`), the noisy pass from a reading of outcomes (`NoisyInv`). It is inductive,
one lemma per kind of solver. `VerifierReadsAlike` rests on `KeysAgree`: reading a key from its
other end undoes the framework's order, so that summing over keys is summing over outcomes
(`SumOverKeys`), and the least energy of the keys is that of the outcomes; that a QUBO without
Ising terms is flat follows from `IsingExact` (`DegenerateIsFlat`). For `EarnedContributions` a
lower sum of energies has, somewhere, a lower energy (`CheaperInSum`), and the optimal shots
are positive in number exactly if one was drawn (`OptimalSeen`).

`MitigationTakesBack` has three parts. The correction is linear (`CorrectedPlus`), multiplies the
sum by `Reads - 2 * Misread` for every axis and the size — the sum of the absolute values — by
`Reads` at most (`CorrectedIs`, by `AxesGrow`). The correction of the mean reading is exact
(`CorrectedExact`): after q axes the shares of all outcomes in an entry are what the other
axes' misreadings leave of them (`Partly`), by induction over the axes, so that in the end each
entry has its own outcome alone. A reading that is one misreading off is the mean and a
disturbance that sums up to zero, half of its size above zero and half below (`HalvesAre`);
what clipping adds is no more than half the disturbance and falls on entries without counts
(`ClippedIs`), so that no share moves by more than that (`ShareIs`); rounding adds a half
(`RoundIs`, `OffBy`). Rounding is why the bound has its half: that no count is off by more than
the amplified misreading is false, by TLC already for one misreading in five times and two
shots. The proof also needs that the share up to
which entries are dropped is less than half of one outcome's, the hypothesis
`2 * Shots < Parts`: with the code's million, fewer than 500000 outcomes, each of which stands
for `Reads` to the number of qubits readings.

For the sake of these proofs the sums of the domains are written with `SumFunction` of the
community modules, and what the code filters with a comprehension is `Kept`.

What stays with TLC, and why:

* Liveness (`CallersServed`, `ClientsLearnOutcome`, `JobsSettle`, the progress of
  `ImplementsLifecycle`, that saves end): the prover has no fairness and no `ENABLED`.
* That the encodings are those of the code's fractions: the common denominators are part of
  the models (section 2), and floating-point rounding is outside both.

## 6 Where code and documentation differ

Shown by a run:

* `finance/collateral.py:356` — the penalty outweighs all costs for a shortfall of the
  size of the smallest security, but selections can fall short by less.
  `docs/ARCHITECTURE.md:58-59` and the note in every bundle (`collateral.py:386`) say that
  the ground state is guaranteed to respect coverage. (`Ladder_ground`)

Met while modelling, and built into the models as they are:

* `api.py:317` — `job_status` reads the status twice without the lock, for the result
  and for the summary; a job that succeeds in between is answered as `succeeded` with
  `result: null`, and a client that stops there has no result (`docs/API.md:22`: "Poll a
  job; returns the result when done"). `AnswersCohere` states what does hold.
* `agents/auditor.py:44` — when verification raised there are no reports, and the auditor
  uses the solver's own feasibility and objective, up to "quantum improvement observed";
  `SECURITY.md:33` lists "claim quantum advantage without passing deterministic
  verification" among what the system will not do. The classification auditor does not do
  this (`FavourIsTested`), and a bundle without errors is verified (`CleanBundleComplete`).
* `pipeline.py:81` — run ids are the second and the digest of the spec; two solves of one
  spec within a second share a directory, and the later one replaces the evidence of the
  earlier, or mixes with it, although `pipeline.py:78-79` relies on the timestamp for
  uniqueness. `SavedIsListed` and `ReadersGetWhatWasListed` therefore allow what such an
  execution (`Namesakes`), and no other, may do; `ImplementsRegistry` is
  stated for the runs of specs that are solved once, and `ToldIsStored` for jobs and requests
  with specs of their own.
* `governance/postgres_store.py:69-72` — the DELETE and INSERT meant as an upsert raise a
  unique violation when two processes save a run id that is not in the table yet: neither
  DELETE sees the other's row. The save is refused; what is stored stays in order.
* `governance/mlflow_store.py:47` — a run is listed from its creation on, before its
  manifest is logged, and `load_manifest` opens the newest: a listed run can fail to load
  for a while, or for ever, though an older MLflow run of it is complete.
  `governance/store.py:35-36` calls the stores drop-in interchangeable; the file store
  lists what is complete.
* `governance/postgres_store.py:54`, `mlflow_store.py:42` — table and experiment are looked
  up and then created; of two processes that start together one save fails.
* `cli.py:110` — the only code chosen for an ended run is 4; with the decision or the
  bundle missing because auditor or governance raised, `solve` exits with 0 and may have
  written nothing, while `docs/CLI.md:42` explains 0 as success. The codes 3 and 5 it lists
  are not reached by a solver that fails, since the runner records its exception.
* Trimming happens on submission only, so the registry stays above the cap after jobs
  complete, and goes by submission; `docs/API.md:98-99` calls it "LRU-capped".
* The callback is called inside the guarded block, so that an exception of it gives one
  step two trace events (`core/workflow.py:86`).
* After a failed baseline the auditor still recommends `classical_milp`
  (`agents/auditor.py:33`); a run without a classical optimum is a "research candidate"
  (`agents/auditor.py:96`).
* The plan's estimated cost is the constant 0.0 (`agents/planner.py:82`), so the budget
  never refuses anything; when the policy refuses a paid solver, nothing falls back to the
  simulator (`agents/quantum_agent.py:224`; `docs/CLI.md:171-173` describes both).
* A torn last line of the index swallows the line of the next save
  (`governance/store.py:69`); `SavedIsListed` bounds the loss by the number of failed saves.
* Two threads can make `window[0]` fail on an empty deque, which is answered as an
  internal error, and can overshoot the limit (`api.py:134-136`, `docs/API.md:126`).
* In classification the branches for invalid data are unreachable, since the split is
  valid by construction; with equal timestamps "strictly later in time" is true of the
  ranks only. The `budget < 1` branch of `plan_quantum` and the branch "no QAOA result was
  recorded" of the auditor are dead.
* `verify` of an instance result checks the constraints of the instance, not the full set.
* Without transactions but with an approval floor the routing program says feasible and
  the check says infeasible; `ClassicalIsFair` therefore speaks of non-degenerate
  instances. `Obligation.priority` (`core/ir.py:208`) is never used.

## 7 What is not modelled

* **Validation of specifications** (`core/ir.py`): pure checks of input; the models assume
  inputs that pass (`IsCollateralSpec` …).
* **Circuits, their optimisation and gate noise** (`backends/quantum.py`, provider
  adapters): floating-point and external; a shot may give any bit string.
* **LP relaxation, warm starts**: they fill report fields and no decision of the
  optimization pipeline reads them.
* **Amplitude estimation, tensor networks, kernels, learners**: numerical code without
  control state.
* **Authentication, size limits, error handlers, request ids**: per-request checks
  without shared state. That a request is rejected before anything runs is in `Frontends`.
* **The other commands of the CLI** (`explain`, `plan`, `_partial_run`, listings): they run
  a prefix of the same agents, or read, and keep nothing.
* **Arena, Studio, skills, observability, configuration, rendering**: sequential listings,
  text and I/O; settings are constants.

## 8 Plan

Done, in this order: the job queue with its life cycle and proofs; the endpoints over it;
the runner, the policy and the optimization pipeline with proofs; the file store and its
registry; the rate limiter with proofs; the classification pipeline; the domains and the
ladder; the Postgres store with proofs and the MLflow store; the queue over the file store;
the callers over the pipeline; sampling, readout and the accounting of the verifier; proofs
about the runner, the endpoints, the evidence of failures and the file store;
the service with its evidence; proofs about the callers, classification, the trimming of the
registry, what jobs persist, and the MLflow store; proofs about sums, the QUBO and Ising
forms, the three domains and the ladder; proofs about the accounting of the verifier, the
mitigation of readout noise and the exactness of the rate limit. Every safety property of
a passing run is now a theorem.

Next, the most important first:

1. Validation of specifications, where the domains assume it.
2. The LP relaxation and the warm start, which fill report fields.
3. Amplitude estimation, as far as it counts rather than computes.
