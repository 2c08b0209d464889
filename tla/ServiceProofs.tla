---------------------------- MODULE ServiceProofs ----------------------------
(***************************************************************************)
(* Proofs about the job queue, and about what api.py puts over it.         *)
(* JobQueue: for any finite set of jobs, any pool and any retention cap.   *)
(* JobApi, for any number of threads, polling clients and requests: the    *)
(* endpoints do nothing to the queue but what it does by itself, and an    *)
(* answer only mixes facts that last.  JobEvidence: the functions of the   *)
(* jobs do nothing to the store but what it does by itself, and who is     *)
(* told of a success finds its evidence.  RateLimiter: types, the bound on *)
(* a client's deque, and that the limit is exact without overlap, for      *)
(* every limit and period.                                                 *)
(***************************************************************************)
EXTENDS JobApi, JobEvidence, RateLimiter,
        FiniteSetTheorems, SequenceTheorems, WellFoundedInduction, TLAPS

-------------------------------------------------------------------------------
\* The job queue.

\* Trimming only removes jobs, and only completed ones.
LEMMA RetainedKeeps ==
  ASSUME NEW reg
  PROVE  /\ Retained(reg) \subseteq reg
         /\ \A k \in reg : ~Done(k) => k \in Retained(reg)
BY DEF Retained

\* The initial state, without jobs, is well typed.
LEMMA InitTypeOK == Init => TypeOK
<1> SUFFICES ASSUME Init
             PROVE  TypeOK
  OBVIOUS
<1>1. queue \in Seq(Jobs)
  BY EmptySeq DEF Init
<1>2. registry \in SUBSET Jobs /\ closed \in BOOLEAN
  BY DEF Init
<1>3. /\ started \in [Jobs -> BOOLEAN]
      /\ finished \in [Jobs -> BOOLEAN]
      /\ arrival \in [Jobs -> Nat]
  BY DEF Init
<1>4. /\ held \in [Workers -> Jobs \cup {NoJob}]
      /\ stage \in [Workers -> {"idle", "taken", "computing", "stamping"}]
  BY DEF Init
<1>5. QED
  BY <1>1, <1>2, <1>3, <1>4 DEF Init, TypeOK, Statuses

\* Every step of clients, threads and the shutdown keeps the types.
LEMMA StepTypeOK == TypeOK /\ [Next]_vars => TypeOK'
<1> SUFFICES ASSUME TypeOK, [Next]_vars
             PROVE  TypeOK'
  OBVIOUS
<1> USE DEF TypeOK, Statuses, record, pool
<1>1. ASSUME NEW j \in Jobs, Register(j)
      PROVE  TypeOK'
  <2>1. Cardinality(Submitted) \in Nat
    BY JobQueueAssumption, FS_CardinalityType, FS_Subset DEF Submitted
  <2>2. Retained(registry \cup {j}) \in SUBSET Jobs
    BY RetainedKeeps
  <2>3. arrival' \in [Jobs -> Nat]
    BY <1>1, <2>1 DEF Register
  <2>4. registry' \in SUBSET Jobs
    BY <1>1, <2>2 DEF Register
  <2>5. QED
    BY <1>1, <2>3, <2>4 DEF Register
<1>2. ASSUME NEW j \in Jobs, Enqueue(j)
      PROVE  TypeOK'
  BY <1>2 DEF Enqueue
<1>3. ASSUME NEW j \in Jobs, Refuse(j)
      PROVE  TypeOK'
  BY <1>3 DEF Refuse
<1>4. ASSUME NEW w \in Workers, Take(w)
      PROVE  TypeOK'
  BY <1>4 DEF Take
<1>5. ASSUME NEW w \in Workers, Start(w)
      PROVE  TypeOK'
  BY <1>5 DEF Start
<1>6. ASSUME NEW w \in Workers, Succeed(w) \/ Fail(w)
      PROVE  TypeOK'
  BY <1>6 DEF Succeed, Fail, Settle
<1>7. ASSUME NEW w \in Workers, Stamp(w)
      PROVE  TypeOK'
  BY <1>7 DEF Stamp
<1>8. CASE Shutdown
  BY <1>8 DEF Shutdown
<1>9. CASE UNCHANGED vars
  BY <1>9 DEF vars
<1>10. QED
  BY <1>1, <1>2, <1>3, <1>4, <1>5, <1>6, <1>7, <1>8, <1>9
  DEF Next, Submit, Run

\* Every variable has its type in every reachable state (api_jobs.py:34-70).
THEOREM TypeCorrect == Spec => []TypeOK
BY InitTypeOK, StepTypeOK, PTL DEF Spec

-----------------------------------------------------------------------------
(* The executor's queue.                                                   *)

\* Handing a job over adds it to the waiting ones, once.
LEMMA AppendOnce ==
  ASSUME NEW q \in Seq(Jobs), NEW j \in Jobs,
         \A m, n \in 1..Len(q) : q[m] = q[n] => m = n,
         j \notin {q[i] : i \in 1..Len(q)}
  PROVE  LET p == Append(q, j)
         IN /\ \A m, n \in 1..Len(p) : p[m] = p[n] => m = n
            /\ {p[i] : i \in 1..Len(p)} = {q[i] : i \in 1..Len(q)} \cup {j}
<1> DEFINE p == Append(q, j)
<1>1. /\ Len(p) = Len(q) + 1
      /\ \A i \in 1..Len(q) : p[i] = q[i]
      /\ p[Len(q) + 1] = j
      /\ Len(q) \in Nat
  BY AppendProperties, LenProperties
<1> HIDE DEF p
<1>2. \A m, n \in 1..Len(p) : p[m] = p[n] => m = n
  BY <1>1
<1>3. {p[i] : i \in 1..Len(p)} = {q[i] : i \in 1..Len(q)} \cup {j}
  BY <1>1
<1>4. QED
  BY <1>2, <1>3 DEF p

\* Taking the oldest work item removes it from the waiting ones.
LEMMA TailOnce ==
  ASSUME NEW q \in Seq(Jobs), q # <<>>,
         \A m, n \in 1..Len(q) : q[m] = q[n] => m = n
  PROVE  LET p == Tail(q)
         IN /\ \A m, n \in 1..Len(p) : p[m] = p[n] => m = n
            /\ {p[i] : i \in 1..Len(p)} = {q[i] : i \in 1..Len(q)} \ {Head(q)}
            /\ Head(q) \in {q[i] : i \in 1..Len(q)}
            /\ Head(q) \in Jobs
<1> DEFINE p == Tail(q)
<1>1. /\ Len(p) = Len(q) - 1
      /\ \A i \in 1..Len(p) : p[i] = q[i + 1]
      /\ Head(q) = q[1]
      /\ Len(q) \in Nat \ {0}
      /\ Head(q) \in Jobs
  BY HeadTailProperties, LenProperties, EmptySeq
<1> HIDE DEF p
<1>2. \A m, n \in 1..Len(p) : p[m] = p[n] => m = n
  BY <1>1
<1>3. {p[i] : i \in 1..Len(p)} \subseteq {q[i] : i \in 1..Len(q)} \ {Head(q)}
  <2> SUFFICES ASSUME NEW i \in 1..Len(p)
               PROVE  p[i] \in {q[k] : k \in 1..Len(q)} /\ p[i] # Head(q)
    OBVIOUS
  <2>1. i + 1 \in 1..Len(q) /\ i + 1 # 1 /\ 1 \in 1..Len(q)
    BY <1>1
  <2>2. QED
    BY <1>1, <2>1
<1>4. {q[i] : i \in 1..Len(q)} \ {Head(q)} \subseteq {p[i] : i \in 1..Len(p)}
  <2> SUFFICES ASSUME NEW i \in 1..Len(q), q[i] # Head(q)
               PROVE  q[i] \in {p[k] : k \in 1..Len(p)}
    OBVIOUS
  <2>1. i - 1 \in 1..Len(p) /\ p[i - 1] = q[(i - 1) + 1] /\ (i - 1) + 1 = i
    BY <1>1
  <2>2. QED
    BY <2>1
<1>5. Head(q) \in {q[i] : i \in 1..Len(q)}
  BY <1>1
<1>6. QED
  BY <1>1, <1>2, <1>3, <1>4, <1>5 DEF p

-----------------------------------------------------------------------------
(* The inductive invariant.                                                *)

\* Without jobs and with idle threads the invariant holds.
LEMMA InitIInv == Init => IInv
<1> SUFFICES ASSUME Init
             PROVE  IInv
  OBVIOUS
<1>1. TypeOK
  BY InitTypeOK
<1>2. InQueue = {} /\ InPool = {}
  BY DEF Init, InQueue, InPool
<1>3. \A m, n \in 1..Len(queue) : queue[m] = queue[n] => m = n
  BY DEF Init
<1>4. OneExecution
  BY <1>2, <1>3 DEF OneExecution, Init
<1>5. ThreadInv
  BY DEF ThreadInv, Init
<1>6. RecordTellsStage
  BY <1>2 DEF RecordTellsStage, Init, Done
<1>7. RecordAgrees /\ UnfinishedJobsListed
  BY DEF RecordAgrees, UnfinishedJobsListed, Submitted, Init, Done
<1>8. QED
  BY <1>1, <1>4, <1>5, <1>6, <1>7 DEF IInv

\* A new record is queued, idle threads and other records are not concerned.
LEMMA RegisterIInv ==
  ASSUME IInv, TypeOK', NEW j \in Jobs, Register(j)
  PROVE  IInv'
<1> USE DEF IInv, record, pool
<1>1. /\ caller[j] = "idle" /\ status[j] = "absent"
      /\ caller' = [caller EXCEPT ![j] = "registered"]
      /\ status' = [status EXCEPT ![j] = "queued"]
      /\ registry' = Retained(registry \cup {j})
      /\ UNCHANGED <<outcome, started, finished, queue, held, stage, closed>>
  BY DEF Register, ThreadInv
<1>2. InQueue' = InQueue /\ InPool' = InPool
  BY <1>1 DEF InQueue, InPool
<1>3. j \notin InQueue \cup InPool
  BY <1>1 DEF OneExecution
<1>4. \A w \in Workers : held[w] # j
  BY <1>3, JobQueueAssumption DEF InPool
<1>5. OneExecution'
  BY <1>1, <1>2, <1>3 DEF OneExecution, TypeOK
<1>6. ThreadInv'
  BY <1>1, <1>4 DEF ThreadInv, TypeOK
<1>7. Done(j)' = FALSE /\ \A k \in Jobs \ {j} : Done(k)' = Done(k)
  BY <1>1 DEF Done, TypeOK
<1>8. RecordTellsStage'
  BY <1>1, <1>2, <1>3, <1>4, <1>7 DEF RecordTellsStage, TypeOK
<1>9. RecordAgrees'
  BY <1>1, <1>7 DEF RecordAgrees, TypeOK, Done
<1>10. UnfinishedJobsListed'
  BY <1>1, <1>7, RetainedKeeps DEF UnfinishedJobsListed, Submitted, TypeOK, Done
<1>11. QED
  BY <1>5, <1>6, <1>8, <1>9, <1>10

\* The job handed over is queued, held by no thread and not waiting yet.
LEMMA EnqueueIInv ==
  ASSUME IInv, TypeOK', NEW j \in Jobs, Enqueue(j)
  PROVE  IInv'
<1> USE DEF IInv, record, pool
<1>1. /\ caller[j] = "registered"
      /\ caller' = [caller EXCEPT ![j] = "accepted"]
      /\ queue' = Append(queue, j)
      /\ UNCHANGED <<status, outcome, started, finished, registry, held, stage>>
  BY DEF Enqueue
<1>2. j \notin InQueue \cup InPool
  BY <1>1 DEF OneExecution
<1>3. /\ \A m, n \in 1..Len(queue') : queue'[m] = queue'[n] => m = n
      /\ InQueue' = InQueue \cup {j}
      /\ InPool' = InPool
  BY <1>1, <1>2, AppendOnce DEF InQueue, InPool, TypeOK, OneExecution
<1>4. OneExecution'
  BY <1>1, <1>2, <1>3 DEF OneExecution, TypeOK
<1>5. ThreadInv'
  BY <1>1 DEF ThreadInv, TypeOK
<1>6. status[j] = "queued"
  BY <1>1 DEF ThreadInv
<1>7. RecordTellsStage'
  BY <1>1, <1>3, <1>6 DEF RecordTellsStage, Done
<1>8. RecordAgrees' /\ UnfinishedJobsListed'
  BY <1>1 DEF RecordAgrees, UnfinishedJobsListed, Submitted, Done, TypeOK
<1>9. QED
  BY <1>4, <1>5, <1>7, <1>8

\* A refused job stays queued, outside of the executor.
LEMMA RefuseIInv ==
  ASSUME IInv, TypeOK', NEW j \in Jobs, Refuse(j)
  PROVE  IInv'
<1> USE DEF IInv, record, pool
<1>1. /\ caller[j] = "registered"
      /\ caller' = [caller EXCEPT ![j] = "refused"]
      /\ UNCHANGED <<status, outcome, started, finished, registry, queue, held, stage>>
  BY DEF Refuse
<1>2. InQueue' = InQueue /\ InPool' = InPool
  BY <1>1 DEF InQueue, InPool
<1>3. j \notin InQueue \cup InPool
  BY <1>1 DEF OneExecution
<1>4. OneExecution'
  BY <1>1, <1>2, <1>3 DEF OneExecution, TypeOK
<1>5. ThreadInv'
  BY <1>1 DEF ThreadInv, TypeOK
<1>6. RecordTellsStage' /\ RecordAgrees' /\ UnfinishedJobsListed'
  BY <1>1, <1>2
  DEF RecordTellsStage, RecordAgrees, UnfinishedJobsListed, Submitted, Done, TypeOK
<1>7. QED
  BY <1>4, <1>5, <1>6

\* The oldest waiting job moves from the queue to a thread that was idle.
LEMMA TakeIInv ==
  ASSUME IInv, TypeOK', NEW w \in Workers, Take(w)
  PROVE  IInv'
<1> USE DEF IInv, record, pool
<1> DEFINE h == Head(queue)
<1>1. /\ stage[w] = "idle" /\ held[w] = NoJob /\ queue # <<>>
      /\ held' = [held EXCEPT ![w] = h]
      /\ stage' = [stage EXCEPT ![w] = "taken"]
      /\ queue' = Tail(queue)
      /\ UNCHANGED <<caller, status, outcome, started, finished, registry>>
  BY DEF Take, ThreadInv
<1>2. /\ \A m, n \in 1..Len(queue') : queue'[m] = queue'[n] => m = n
      /\ InQueue' = InQueue \ {h}
      /\ h \in InQueue
      /\ h \in Jobs
  <2> DEFINE t == Tail(queue)
  <2>1. queue \in Seq(Jobs) /\ \A m, n \in 1..Len(queue) : queue[m] = queue[n] => m = n
    BY DEF TypeOK, OneExecution
  <2>2. /\ \A m, n \in 1..Len(t) : t[m] = t[n] => m = n
        /\ {t[i] : i \in 1..Len(t)} = {queue[i] : i \in 1..Len(queue)} \ {h}
        /\ h \in {queue[i] : i \in 1..Len(queue)}
        /\ h \in Jobs
    BY <1>1, <2>1, TailOnce
  <2>3. queue' = t
    BY <1>1
  <2> HIDE DEF t, h
  <2>4. QED
    BY <2>2, <2>3 DEF InQueue
<1> HIDE DEF h
<1>3. h # NoJob /\ h \notin InPool /\ status[h] = "queued" /\ caller[h] = "accepted"
  BY <1>2, JobQueueAssumption DEF OneExecution, RecordTellsStage
<1>4. InPool' = InPool \cup {h}
  BY <1>1, <1>3 DEF InPool, TypeOK
<1>5. \A v \in Workers : held[v] # h
  BY <1>3 DEF InPool
<1>6. OneExecution'
  BY <1>1, <1>2, <1>3, <1>4, <1>5 DEF OneExecution, TypeOK
<1>7. ThreadInv'
  BY <1>1, <1>3 DEF ThreadInv, TypeOK
<1>8. RecordTellsStage'
  BY <1>1, <1>2, <1>3, <1>5, JobQueueAssumption DEF RecordTellsStage, TypeOK, Done
<1>9. RecordAgrees' /\ UnfinishedJobsListed'
  BY <1>1 DEF RecordAgrees, UnfinishedJobsListed, Submitted, Done, TypeOK
<1>10. QED
  BY <1>6, <1>7, <1>8, <1>9

\* The job a thread has taken starts to run, in that thread.
LEMMA StartIInv ==
  ASSUME IInv, TypeOK', NEW w \in Workers, Start(w)
  PROVE  IInv'
<1> USE DEF IInv, record, pool
<1> DEFINE h == held[w]
<1>1. h \in Jobs /\ h # NoJob /\ stage[w] = "taken" /\ status[h] = "queued"
  BY JobQueueAssumption DEF Start, ThreadInv, TypeOK, RecordTellsStage
<1>2. h \in InPool /\ h \notin InQueue /\ caller[h] = "accepted"
  BY <1>1 DEF InPool, OneExecution
<1>3. \A v \in Workers \ {w} : held[v] # h
  BY <1>1 DEF OneExecution
<1>4. /\ started' = [started EXCEPT ![h] = TRUE]
      /\ status' = [status EXCEPT ![h] = "running"]
      /\ stage' = [stage EXCEPT ![w] = "computing"]
      /\ UNCHANGED <<caller, outcome, finished, registry, queue, held>>
  BY DEF Start
<1> HIDE DEF h
<1>5. InQueue' = InQueue /\ InPool' = InPool
  BY <1>4 DEF InQueue, InPool
<1>6. OneExecution'
  BY <1>4, <1>5 DEF OneExecution
<1>7. ThreadInv'
  <2>1. \A v \in Workers : stage'[v] = "taken" => status'[held'[v]] = "queued"
    BY <1>1, <1>3, <1>4 DEF ThreadInv, TypeOK
  <2>2. \A v \in Workers : held'[v] = NoJob <=> stage'[v] = "idle"
    BY <1>1, <1>4 DEF ThreadInv, TypeOK, h
  <2>3. \A j \in Jobs : /\ status'[j] = "absent" <=> caller'[j] = "idle"
                        /\ caller'[j] \in {"registered", "refused"} => status'[j] = "queued"
    BY <1>1, <1>2, <1>4 DEF ThreadInv, TypeOK
  <2>4. \A j \in Jobs : status'[j] \in {"absent", "queued"} <=> ~started'[j]
    BY <1>1, <1>4 DEF ThreadInv, TypeOK
  <2>5. QED
    BY <2>1, <2>2, <2>3, <2>4 DEF ThreadInv
<1>8. \A j \in Jobs : Done(j)' <=> Done(j)
  BY <1>1, <1>4 DEF Done, TypeOK
<1>9. RecordTellsStage'
  <2>1. ASSUME NEW j \in Jobs
        PROVE  status'[j] = "running" <=> \E v \in Workers : held'[v] = j /\ stage'[v] = "computing"
    BY <1>1, <1>3, <1>4 DEF RecordTellsStage, TypeOK, h
  <2>2. ASSUME NEW j \in Jobs
        PROVE  (Done(j)' /\ ~finished'[j]) <=> \E v \in Workers : held'[v] = j /\ stage'[v] = "stamping"
    BY <1>1, <1>3, <1>4, <1>8 DEF RecordTellsStage, TypeOK, h
  <2>3. ASSUME NEW j \in Jobs, j \in InQueue'
        PROVE  status'[j] = "queued"
    BY <1>1, <1>2, <1>4, <1>5, <2>3 DEF RecordTellsStage, TypeOK
  <2>4. QED
    BY <2>1, <2>2, <2>3 DEF RecordTellsStage
<1>10. RecordAgrees'
  BY <1>1, <1>4, <1>8 DEF RecordAgrees, TypeOK
<1>11. UnfinishedJobsListed'
  BY <1>4, <1>8 DEF UnfinishedJobsListed, Submitted
<1>12. QED
  BY <1>6, <1>7, <1>9, <1>10, <1>11

\* The job a thread runs is completed with the outcome that goes with its status.
LEMMA SettleIInv ==
  ASSUME IInv, TypeOK', NEW w \in Workers, NEW o, NEW s,
         <<o, s>> \in {<<"result", "succeeded">>, <<"error", "failed">>}, Settle(w, o, s)
  PROVE  IInv'
<1> USE DEF IInv, record, pool
<1> DEFINE h == held[w]
<1>1. h \in Jobs /\ h # NoJob /\ stage[w] = "computing" /\ status[h] = "running"
  BY JobQueueAssumption DEF Settle, ThreadInv, TypeOK, RecordTellsStage
<1>2. h \in InPool /\ h \notin InQueue /\ caller[h] = "accepted"
  BY <1>1 DEF InPool, OneExecution
<1>3. \A v \in Workers \ {w} : held[v] # h
  BY <1>1 DEF OneExecution
<1>4. /\ outcome' = [outcome EXCEPT ![h] = o]
      /\ status' = [status EXCEPT ![h] = s]
      /\ stage' = [stage EXCEPT ![w] = "stamping"]
      /\ UNCHANGED <<caller, started, finished, registry, queue, held>>
  BY DEF Settle
<1>5. \/ o = "result" /\ s = "succeeded"
      \/ o = "error" /\ s = "failed"
  OBVIOUS
<1>6. ~Done(h) /\ ~finished[h] /\ started[h] /\ h \in registry
  BY <1>1, <1>2
  DEF Done, RecordAgrees, ThreadInv, UnfinishedJobsListed, Submitted, TypeOK
<1> HIDE DEF h
<1>7. InQueue' = InQueue /\ InPool' = InPool
  BY <1>4 DEF InQueue, InPool
<1>8. OneExecution'
  BY <1>4, <1>7 DEF OneExecution
<1>9. ThreadInv'
  <2>1. \A v \in Workers : stage'[v] = "taken" => status'[held'[v]] = "queued"
    BY <1>1, <1>3, <1>4 DEF ThreadInv, TypeOK
  <2>2. \A v \in Workers : held'[v] = NoJob <=> stage'[v] = "idle"
    BY <1>1, <1>4 DEF ThreadInv, TypeOK, h
  <2>3. \A j \in Jobs : /\ status'[j] = "absent" <=> caller'[j] = "idle"
                        /\ caller'[j] \in {"registered", "refused"} => status'[j] = "queued"
    BY <1>1, <1>2, <1>4, <1>5 DEF ThreadInv, TypeOK
  <2>4. \A j \in Jobs : status'[j] \in {"absent", "queued"} <=> ~started'[j]
    BY <1>1, <1>4, <1>5, <1>6 DEF ThreadInv, TypeOK
  <2>5. QED
    BY <2>1, <2>2, <2>3, <2>4 DEF ThreadInv
<1>10. \A j \in Jobs : Done(j)' <=> (j = h \/ Done(j))
  BY <1>1, <1>4, <1>5 DEF Done, TypeOK
<1>11. RecordTellsStage'
  <2>1. ASSUME NEW j \in Jobs
        PROVE  status'[j] = "running" <=> \E v \in Workers : held'[v] = j /\ stage'[v] = "computing"
    BY <1>1, <1>3, <1>4, <1>5 DEF RecordTellsStage, TypeOK, h
  <2>2. ASSUME NEW j \in Jobs
        PROVE  (Done(j)' /\ ~finished'[j]) <=> \E v \in Workers : held'[v] = j /\ stage'[v] = "stamping"
    BY <1>1, <1>3, <1>4, <1>6, <1>10 DEF RecordTellsStage, TypeOK, h
  <2>3. ASSUME NEW j \in Jobs, j \in InQueue'
        PROVE  status'[j] = "queued"
    BY <1>1, <1>2, <1>4, <1>7, <2>3 DEF RecordTellsStage, TypeOK
  <2>4. QED
    BY <2>1, <2>2, <2>3 DEF RecordTellsStage
<1>12. RecordAgrees'
  <2>1. \A j \in Jobs : outcome'[j] = "result" <=> status'[j] = "succeeded"
    BY <1>1, <1>4, <1>5 DEF RecordAgrees, TypeOK
  <2>2. \A j \in Jobs : outcome'[j] = "error" <=> status'[j] = "failed"
    BY <1>1, <1>4, <1>5 DEF RecordAgrees, TypeOK
  <2>3. \A j \in Jobs : finished'[j] => Done(j)' /\ started'[j]
    BY <1>4, <1>6, <1>10 DEF RecordAgrees, TypeOK
  <2>4. QED
    BY <2>1, <2>2, <2>3 DEF RecordAgrees
<1>13. UnfinishedJobsListed'
  BY <1>4, <1>6, <1>10 DEF UnfinishedJobsListed, Submitted
<1>14. QED
  BY <1>8, <1>9, <1>11, <1>12, <1>13

\* The thread leaves a completed job behind and is idle.
LEMMA StampIInv ==
  ASSUME IInv, TypeOK', NEW w \in Workers, Stamp(w)
  PROVE  IInv'
<1> USE DEF IInv, record, pool
<1> DEFINE h == held[w]
<1>1. h \in Jobs /\ h # NoJob /\ stage[w] = "stamping" /\ Done(h) /\ ~finished[h]
  BY JobQueueAssumption DEF Stamp, ThreadInv, TypeOK, RecordTellsStage
<1>2. h \in InPool /\ h \notin InQueue
  BY <1>1 DEF InPool, OneExecution
<1>3. \A v \in Workers \ {w} : held[v] # h
  BY <1>1 DEF OneExecution
<1>4. /\ finished' = [finished EXCEPT ![h] = TRUE]
      /\ held' = [held EXCEPT ![w] = NoJob]
      /\ stage' = [stage EXCEPT ![w] = "idle"]
      /\ UNCHANGED <<caller, status, outcome, started, registry, queue>>
  BY DEF Stamp
<1>5. started[h]
  BY <1>1 DEF ThreadInv, Done
<1> HIDE DEF h
<1>6. InQueue' = InQueue /\ InPool' \subseteq InPool
  BY <1>4 DEF InQueue, InPool, TypeOK
<1>7. OneExecution'
  BY <1>4, <1>6 DEF OneExecution, TypeOK
<1>8. ThreadInv'
  BY <1>4 DEF ThreadInv, TypeOK
<1>9. \A j \in Jobs : Done(j)' <=> Done(j)
  BY <1>4 DEF Done
<1>10. RecordTellsStage'
  <2>1. ASSUME NEW j \in Jobs
        PROVE  status'[j] = "running" <=> \E v \in Workers : held'[v] = j /\ stage'[v] = "computing"
    BY <1>1, <1>3, <1>4, JobQueueAssumption DEF RecordTellsStage, TypeOK, h
  <2>2. ASSUME NEW j \in Jobs \ {h}
        PROVE  (Done(j)' /\ ~finished'[j]) <=> \E v \in Workers : held'[v] = j /\ stage'[v] = "stamping"
    BY <1>1, <1>3, <1>4, <1>9, JobQueueAssumption DEF RecordTellsStage, TypeOK, h
  <2>3. finished'[h] /\ ~\E v \in Workers : held'[v] = h /\ stage'[v] = "stamping"
    BY <1>1, <1>3, <1>4 DEF TypeOK
  <2>4. ASSUME NEW j \in Jobs, j \in InQueue'
        PROVE  status'[j] = "queued"
    BY <1>4, <1>6, <2>4 DEF RecordTellsStage
  <2>5. QED
    BY <2>1, <2>2, <2>3, <2>4 DEF RecordTellsStage
<1>11. RecordAgrees'
  <2>1. \A j \in Jobs : /\ outcome'[j] = "result" <=> status'[j] = "succeeded"
                        /\ outcome'[j] = "error" <=> status'[j] = "failed"
    BY <1>4 DEF RecordAgrees
  <2>2. \A j \in Jobs : finished'[j] => Done(j)' /\ started'[j]
    BY <1>1, <1>4, <1>5, <1>9 DEF RecordAgrees, TypeOK
  <2>3. QED
    BY <2>1, <2>2 DEF RecordAgrees
<1>12. UnfinishedJobsListed'
  BY <1>4, <1>9 DEF UnfinishedJobsListed, Submitted
<1>13. QED
  BY <1>7, <1>8, <1>10, <1>11, <1>12

\* Cancelling the waiting work items leaves every record as it is.
LEMMA ShutdownIInv ==
  ASSUME IInv, TypeOK', Shutdown
  PROVE  IInv'
<1> USE DEF IInv, record, pool
<1>1. /\ queue' = <<>>
      /\ UNCHANGED <<caller, status, outcome, started, finished, registry, held, stage>>
  BY DEF Shutdown
<1>2. InQueue' = {} /\ InPool' = InPool
  BY <1>1 DEF InQueue, InPool
<1>3. \A m, n \in 1..Len(queue') : queue'[m] = queue'[n] => m = n
  BY <1>1
<1>4. OneExecution'
  BY <1>1, <1>2, <1>3 DEF OneExecution
<1>5. ThreadInv'
  BY <1>1 DEF ThreadInv
<1>6. RecordTellsStage' /\ RecordAgrees' /\ UnfinishedJobsListed'
  BY <1>1, <1>2
  DEF RecordTellsStage, RecordAgrees, UnfinishedJobsListed, Submitted, Done
<1>7. QED
  BY <1>4, <1>5, <1>6

\* Every step preserves the inductive invariant.
LEMMA StepIInv == IInv /\ [Next]_vars => IInv'
<1> SUFFICES ASSUME IInv, [Next]_vars
             PROVE  IInv'
  OBVIOUS
<1>1. TypeOK'
  BY StepTypeOK DEF IInv
<1>2. ASSUME NEW j \in Jobs, Submit(j)
      PROVE  IInv'
  BY <1>1, <1>2, RegisterIInv, EnqueueIInv, RefuseIInv DEF Submit
<1>3. ASSUME NEW w \in Workers, Run(w)
      PROVE  IInv'
  <2>1. CASE Take(w)
    BY <1>1, <2>1, TakeIInv
  <2>2. CASE Start(w)
    BY <1>1, <2>2, StartIInv
  <2>3. CASE Succeed(w)
    BY <1>1, <2>3, SettleIInv DEF Succeed
  <2>4. CASE Fail(w)
    BY <1>1, <2>4, SettleIInv DEF Fail
  <2>5. CASE Stamp(w)
    BY <1>1, <2>5, StampIInv
  <2>6. QED
    BY <1>3, <2>1, <2>2, <2>3, <2>4, <2>5 DEF Run
<1>4. CASE Shutdown
  BY <1>1, <1>4, ShutdownIInv
<1>5. CASE UNCHANGED vars
  BY <1>1, <1>5
  DEF vars, record, pool, IInv, ThreadInv, OneExecution, RecordTellsStage, RecordAgrees,
      UnfinishedJobsListed, Submitted, Done, InQueue, InPool
<1>6. QED
  BY <1>2, <1>3, <1>4, <1>5 DEF Next

-----------------------------------------------------------------------------
(* The safety theorems.                                                    *)

\* The inductive invariant holds in every reachable state.
THEOREM Invariance == Spec => []IInv
BY InitIInv, StepIInv, PTL DEF Spec

\* Whatever the cap, the pool and the interleaving of submissions, executions
\* and shutdown, trimming never drops a job that is not completed
\* (api_jobs.py:72-120).
THEOREM UnfinishedJobsAreListed == Spec => []UnfinishedJobsListed
<1>1. IInv => UnfinishedJobsListed
  BY DEF IInv
<1>2. QED
  BY <1>1, Invariance, PTL

\* No job is ever executed by two threads, twice, or after it was refused
\* (api_jobs.py:72-102).
THEOREM ExecutedOnce == Spec => []OneExecution
<1>1. IInv => OneExecution
  BY DEF IInv
<1>2. QED
  BY <1>1, Invariance, PTL

\* The record says where its job is, and agrees with itself about how the job
\* ended (api_jobs.py:85-102).
THEOREM RecordsAreRight == Spec => []RecordsRight
<1>1. IInv => RecordsRight
  BY DEF IInv, RecordsRight
<1>2. QED
  BY <1>1, Invariance, PTL

-----------------------------------------------------------------------------
(* Retention is by age.                                                    *)

\* Of two completed jobs in the registry, trimming keeps one and drops the
\* other only if the one it drops was inserted earlier.
LEMMA RetainedNewer ==
  ASSUME TypeOK, NEW reg \in SUBSET Jobs,
         NEW j \in reg \ Retained(reg), NEW k \in Retained(reg), Done(k)
  PROVE  Done(j) /\ arrival[j] < arrival[k]
<1>1. Done(j) /\ k \in reg
  BY DEF Retained
<1>2. IsFiniteSet(reg)
  BY JobQueueAssumption, FS_Subset
<1>3. /\ Cardinality(DoneUpTo(reg, j)) \in Nat
      /\ Cardinality(DoneUpTo(reg, k)) \in Nat
      /\ Cardinality(reg) \in Nat
  BY <1>2, FS_CardinalityType, FS_Subset DEF DoneUpTo
<1>4. /\ ~(Cardinality(DoneUpTo(reg, j)) + MaxJobs > Cardinality(reg))
      /\ Cardinality(DoneUpTo(reg, k)) + MaxJobs > Cardinality(reg)
  BY DEF Retained
<1>5. Cardinality(DoneUpTo(reg, j)) < Cardinality(DoneUpTo(reg, k))
  BY <1>3, <1>4, JobQueueAssumption
<1>6. ASSUME arrival[k] <= arrival[j]
      PROVE  FALSE
  <2>1. arrival[j] \in Nat /\ arrival[k] \in Nat /\ arrival \in [Jobs -> Nat]
    BY <1>1 DEF TypeOK
  <2>2. DoneUpTo(reg, k) \subseteq DoneUpTo(reg, j)
    BY <1>6, <2>1 DEF DoneUpTo
  <2>3. IsFiniteSet(DoneUpTo(reg, j))
    BY <1>2, FS_Subset DEF DoneUpTo
  <2>4. Cardinality(DoneUpTo(reg, k)) <= Cardinality(DoneUpTo(reg, j))
    BY <2>2, <2>3, FS_Subset
  <2>5. QED
    BY <1>3, <1>5, <2>4
<1>7. arrival[j] \in Nat /\ arrival[k] \in Nat
  BY <1>1 DEF TypeOK
<1>8. QED
  BY <1>1, <1>6, <1>7

\* What a step drops from the registry is completed and older than every
\* completed job that stays (api_jobs.py:112-120).
THEOREM EvictionIsByAge == Spec => EvictsOldestDone
<1>1. IInv /\ [Next]_vars =>
        [\A j \in registry \ registry' :
           Done(j) /\ \A k \in registry' : Done(k) => arrival[j] < arrival[k]]_vars
  <2> SUFFICES ASSUME IInv, [Next]_vars, NEW j \in registry \ registry'
               PROVE  Done(j) /\ \A k \in registry' : Done(k) => arrival[j] < arrival[k]
    OBVIOUS
  <2>1. ASSUME NEW i \in Jobs, Register(i)
        PROVE  Done(j) /\ \A k \in registry' : Done(k) => arrival[j] < arrival[k]
    <3>1. /\ TypeOK
          /\ registry \cup {i} \in SUBSET Jobs
          /\ registry' = Retained(registry \cup {i})
      BY <2>1 DEF IInv, TypeOK, Register
    <3>2. Done(j)
      BY <3>1 DEF Retained
    <3>3. QED
      BY <3>1, <3>2, RetainedNewer
  <2>2. CASE UNCHANGED registry
    BY <2>2
  <2>3. QED
    BY <2>1, <2>2
    DEF Next, Submit, Enqueue, Refuse, Run, Take, Start, Succeed, Fail, Settle, Stamp,
        Shutdown, vars
<1>2. QED
  BY <1>1, Invariance, PTL DEF Spec, EvictsOldestDone

-----------------------------------------------------------------------------
(* Trimming stops at the cap.                                              *)

\* Among some subsets of a finite set one has none of the others inside.
LEMMA SmallestSubset ==
  ASSUME NEW S, IsFiniteSet(S), NEW T \in SUBSET SUBSET S, T # {}
  PROVE  \E x \in T : \A y \in T : y \subseteq x => y = x
<1>1. IsWellFoundedOn(StrictSubsetOrdering(S), SUBSET S)
  BY FS_StrictSubsetOrderingWellFounded, FS_FiniteSubsetsOfFinite
<1>2. PICK x \in T : \A y \in T : ~(<<y, x>> \in StrictSubsetOrdering(S))
  BY <1>1, WFMin
<1>3. ASSUME NEW y \in T, y \subseteq x
      PROVE  y = x
  <2>1. <<y, x>> \in (SUBSET S) \X (SUBSET S)
    OBVIOUS
  <2> QED
    BY <1>2, <1>3, <2>1 DEF StrictSubsetOrdering
<1> QED
  BY <1>3

\* A set of jobs has one that was inserted before no other of them, and one
\* that was inserted after none.
LEMMA OldestAndNewest ==
  ASSUME TypeOK, NEW some \in SUBSET Jobs, some # {}
  PROVE  /\ \E m \in some : \A k \in some : arrival[m] <= arrival[k]
         /\ \E m \in some : \A k \in some : arrival[k] <= arrival[m]
<1> DEFINE Older(m) == {k \in some : arrival[k] <= arrival[m]}
           Newer(m) == {k \in some : arrival[m] <= arrival[k]}
<1>1. IsFiniteSet(some)
  BY JobQueueAssumption, FS_Subset
<1>2. \A m \in some : arrival[m] \in Nat
  BY DEF TypeOK
<1>3. PICK m \in some : \A k \in some : Older(k) \subseteq Older(m) => Older(k) = Older(m)
  <2> DEFINE older == {Older(k) : k \in some}
  <2>1. older \in SUBSET SUBSET some /\ older # {}
    OBVIOUS
  <2> HIDE DEF older
  <2>2. \E x \in older : \A y \in older : y \subseteq x => y = x
    BY <1>1, <2>1, SmallestSubset
  <2> HIDE DEF Older
  <2> QED
    BY <2>2 DEF older
<1>4. PICK n \in some : \A k \in some : Newer(k) \subseteq Newer(n) => Newer(k) = Newer(n)
  <2> DEFINE newer == {Newer(k) : k \in some}
  <2>1. newer \in SUBSET SUBSET some /\ newer # {}
    OBVIOUS
  <2> HIDE DEF newer
  <2>2. \E x \in newer : \A y \in newer : y \subseteq x => y = x
    BY <1>1, <2>1, SmallestSubset
  <2> HIDE DEF Newer
  <2> QED
    BY <2>2 DEF newer
<1>5. ASSUME NEW k \in some
      PROVE  arrival[m] <= arrival[k]
  BY <1>2, <1>3
<1>6. ASSUME NEW k \in some
      PROVE  arrival[k] <= arrival[n]
  BY <1>2, <1>4
<1> QED
  BY <1>5, <1>6

\* No two submitted jobs have one place in the order of insertion, and only
\* submitted jobs are in the registry.
ArrivalInv ==
  /\ registry \subseteq Submitted
  /\ \A j \in Submitted : arrival[j] <= Cardinality(Submitted)
  /\ \A j, k \in Submitted : arrival[j] = arrival[k] => j = k

LEMMA StepArrivalInv == TypeOK /\ ArrivalInv /\ [Next]_vars => ArrivalInv'
<1> SUFFICES ASSUME TypeOK, ArrivalInv, [Next]_vars
             PROVE  ArrivalInv'
  OBVIOUS
<1>1. ASSUME NEW j \in Jobs, Register(j)
      PROVE  ArrivalInv'
  <2> DEFINE n == Cardinality(Submitted)
  <2>1. IsFiniteSet(Submitted) /\ n \in Nat
    BY JobQueueAssumption, FS_Subset, FS_CardinalityType DEF Submitted
  <2>2. j \notin Submitted /\ Submitted' = Submitted \cup {j}
    BY <1>1 DEF Register, Submitted, TypeOK
  <2>3. Cardinality(Submitted') = n + 1
    BY <2>1, <2>2, FS_AddElement
  <2>4. /\ arrival'[j] = n + 1
        /\ \A k \in Submitted : arrival'[k] = arrival[k] /\ arrival[k] \in Nat
    BY <1>1, <2>2 DEF Register, TypeOK, Submitted
  <2>5. registry' \subseteq registry \cup {j}
    BY <1>1, RetainedKeeps DEF Register
  <2> HIDE DEF n
  <2>6. registry' \subseteq Submitted'
    BY <2>2, <2>5 DEF ArrivalInv
  <2>7. \A k \in Submitted : arrival[k] <= n
    BY DEF ArrivalInv, n
  <2>8. \A k \in Submitted' : arrival'[k] <= Cardinality(Submitted')
    BY <2>1, <2>2, <2>3, <2>4, <2>7
  <2>9. \A k, l \in Submitted' : arrival'[k] = arrival'[l] => k = l
    BY <2>1, <2>2, <2>4, <2>7 DEF ArrivalInv
  <2> QED
    BY <2>6, <2>8, <2>9 DEF ArrivalInv
<1>2. CASE UNCHANGED <<registry, arrival>> /\ Submitted' = Submitted
  BY <1>2 DEF ArrivalInv
<1>3. ASSUME NEW j \in Jobs, Enqueue(j) \/ Refuse(j)
      PROVE  Submitted' = Submitted /\ UNCHANGED <<registry, arrival>>
  BY <1>3 DEF Enqueue, Refuse, Submitted, TypeOK
<1>4. CASE UNCHANGED <<registry, arrival, caller>>
  BY <1>2, <1>4 DEF Submitted
<1> QED
  BY <1>1, <1>2, <1>3, <1>4
  DEF Next, Submit, Run, Take, Start, Succeed, Fail, Settle, Stamp, Shutdown, vars

LEMMA AlwaysArrivalInv == Spec => []ArrivalInv
<1>1. Init => ArrivalInv
  BY DEF Init, ArrivalInv, Submitted
<1> QED
  BY <1>1, TypeCorrect, StepArrivalInv, PTL DEF Spec

\* Trimming a registry whose completed jobs were inserted one after the other:
\* it takes none if the cap is met, and else as many as are over it, unless
\* there are fewer completed ones.
LEMMA RetainedAtCap ==
  ASSUME TypeOK, NEW reg \in SUBSET Jobs,
         \A j, k \in reg : Done(j) /\ Done(k) /\ arrival[j] = arrival[k] => j = k
  PROVE  /\ Cardinality(Retained(reg)) > MaxJobs => \A j \in Retained(reg) : ~Done(j)
         /\ reg \ Retained(reg) # {} => Cardinality(Retained(reg)) >= MaxJobs
<1> DEFINE n == Cardinality(reg)
           kept == Retained(reg)
           dropped == reg \ kept
           rank(j) == Cardinality(DoneUpTo(reg, j))
<1>1. IsFiniteSet(reg) /\ n \in Nat /\ MaxJobs \in Nat
  BY JobQueueAssumption, FS_Subset, FS_CardinalityType
<1>2. kept \subseteq reg /\ IsFiniteSet(kept) /\ IsFiniteSet(dropped)
  BY <1>1, RetainedKeeps, FS_Subset, FS_Difference
<1>3. /\ Cardinality(kept) \in Nat /\ Cardinality(dropped) \in Nat
      /\ Cardinality(dropped) = n - Cardinality(kept)
  <2>1. reg \cap kept = kept
    BY <1>2
  <2> QED
    BY <1>1, <1>2, <2>1, FS_Difference, FS_CardinalityType
<1>4. \A j \in reg : IsFiniteSet(DoneUpTo(reg, j)) /\ rank(j) \in Nat
  BY <1>1, FS_Subset, FS_CardinalityType DEF DoneUpTo
<1>5. \A j \in dropped : Done(j) /\ rank(j) + MaxJobs <= n
  BY <1>1, <1>4 DEF Retained
<1>6. \A j \in kept : Done(j) => rank(j) + MaxJobs > n
  BY DEF Retained
<1>7. \A j \in reg : arrival[j] \in Nat
  BY DEF TypeOK
<1> HIDE DEF kept
<1>8. ASSUME dropped # {}
      PROVE  Cardinality(kept) >= MaxJobs
  <2>1. dropped \in SUBSET Jobs
    OBVIOUS
  <2>2. PICK m \in dropped : \A k \in dropped : arrival[k] <= arrival[m]
    BY <1>8, <2>1, OldestAndNewest
  <2>3. dropped \subseteq DoneUpTo(reg, m)
    BY <1>5, <2>2 DEF DoneUpTo
  <2>4. Cardinality(dropped) <= rank(m)
    BY <1>4, <2>2, <2>3, FS_Subset
  <2> HIDE DEF n, rank, dropped
  <2> QED
    BY <1>1, <1>3, <1>4, <1>5, <2>2, <2>4 DEF dropped
<1>9. ASSUME NEW j \in kept, Done(j)
      PROVE  Cardinality(kept) <= MaxJobs
  <2> DEFINE ended == {k \in kept : Done(k)}
  <2>1. ended \in SUBSET Jobs /\ ended # {}
    BY <1>2, <1>9
  <2>2. PICK m \in ended : \A k \in ended : arrival[m] <= arrival[k]
    BY <2>1, OldestAndNewest
  <2>3. DoneUpTo(reg, m) \subseteq dropped \cup {m}
    <3>1. ASSUME NEW k \in DoneUpTo(reg, m), k \in kept
          PROVE  k = m
      <4>1. k \in ended /\ k \in reg /\ m \in reg /\ arrival[k] <= arrival[m]
        BY <1>2, <2>2, <3>1 DEF DoneUpTo
      <4>2. arrival[m] <= arrival[k]
        BY <2>2, <4>1
      <4>3. arrival[k] = arrival[m]
        BY <1>7, <4>1, <4>2
      <4> QED
        BY <4>1, <4>3
    <3> QED
      BY <3>1 DEF DoneUpTo
  <2>4. /\ IsFiniteSet(dropped \cup {m})
        /\ Cardinality(dropped \cup {m}) <= Cardinality(dropped) + 1
    <3> HIDE DEF dropped
    <3>1. /\ IsFiniteSet(dropped \cup {m})
          /\ Cardinality(dropped \cup {m}) =
               IF m \in dropped THEN Cardinality(dropped) ELSE Cardinality(dropped) + 1
      BY <1>2, FS_AddElement
    <3> QED
      BY <1>3, <3>1
  <2>5. rank(m) <= Cardinality(dropped \cup {m})
    BY <2>3, <2>4, FS_Subset
  <2>6. rank(m) + MaxJobs > n
    BY <1>6, <2>2
  <2>7. rank(m) \in Nat /\ Cardinality(dropped \cup {m}) \in Nat
    BY <1>2, <1>4, <2>2, <2>4, FS_CardinalityType
  <2> HIDE DEF n, rank, dropped
  <2> QED
    BY <1>1, <1>3, <2>4, <2>5, <2>6, <2>7
<1> QED
  BY <1>1, <1>3, <1>8, <1>9 DEF kept

\* For any number of submissions, any pool and any cap: a submission leaves
\* the registry at the cap where completed jobs allow it, and never takes more
\* than it must (api_jobs.py:114-120).
THEOREM TrimmingStopsAtCap == Spec => TrimsToCap
<1>1. IInv /\ ArrivalInv /\ [Next]_vars =>
        [/\ registry' # registry /\ Cardinality(registry') > MaxJobs
              => \A j \in registry' : ~Done(j)
         /\ registry \ registry' # {} => Cardinality(registry') >= MaxJobs]_vars
  <2> SUFFICES ASSUME IInv, ArrivalInv, [Next]_vars, registry' # registry
               PROVE  /\ Cardinality(registry') > MaxJobs => \A j \in registry' : ~Done(j)
                      /\ registry \ registry' # {} => Cardinality(registry') >= MaxJobs
    OBVIOUS
  <2>1. PICK i \in Jobs : Register(i)
    BY DEF Next, Submit, Enqueue, Refuse, Run, Take, Start, Succeed, Fail, Settle, Stamp,
           Shutdown, vars
  <2> DEFINE reg == registry \cup {i}
  <2>2. reg \in SUBSET Jobs /\ registry' = Retained(reg)
    BY <2>1 DEF Register, IInv, TypeOK
  <2>3. \A j, k \in reg : Done(j) /\ Done(k) /\ arrival[j] = arrival[k] => j = k
    <3>1. ASSUME NEW j \in reg, Done(j)
          PROVE  j \in Submitted
      <4>1. ~Done(i)
        BY <2>1 DEF Register, IInv, ThreadInv, Done
      <4> QED
        BY <3>1, <4>1 DEF ArrivalInv
    <3> QED
      BY <3>1 DEF ArrivalInv
  <2> HIDE DEF reg
  <2>4. /\ Cardinality(Retained(reg)) > MaxJobs => \A j \in Retained(reg) : ~Done(j)
        /\ reg \ Retained(reg) # {} => Cardinality(Retained(reg)) >= MaxJobs
    BY <2>2, <2>3, RetainedAtCap DEF IInv
  <2> QED
    BY <2>2, <2>4 DEF reg
<1> QED
  BY <1>1, Invariance, AlwaysArrivalInv, PTL DEF Spec, TrimsToCap

-----------------------------------------------------------------------------
(* The queue implements the life cycle (its safety part).                  *)

\* While a thread has taken a job and not started it, another job can run in
\* each of the other threads only.
LEMMA SlotFree ==
  ASSUME IInv, NEW w \in Workers, stage[w] = "taken"
  PROVE  Cardinality(Lifecycle!Running) < Cardinality(Workers)
<1> DEFINE Busy == {v \in Workers : stage[v] = "computing"}
           Others == Workers \ {w}
<1>1. Lifecycle!Running \subseteq {held[v] : v \in Busy}
  BY DEF IInv, RecordTellsStage, Lifecycle!Running
<1>2. Busy \subseteq Others
  OBVIOUS
<1>3. /\ IsFiniteSet(Others)
      /\ Cardinality(Others) = Cardinality(Workers) - 1
      /\ Cardinality(Workers) \in Nat
  BY JobQueueAssumption, FS_RemoveElement, FS_CardinalityType
<1>4. IsFiniteSet(Busy) /\ Cardinality(Busy) <= Cardinality(Others)
  BY <1>2, <1>3, FS_Subset
<1> HIDE DEF Busy
<1>5. /\ IsFiniteSet({held[v] : v \in Busy})
      /\ Cardinality({held[v] : v \in Busy}) <= Cardinality(Busy)
  <2> DEFINE img == [v \in Busy |-> held[v]]
             T == {held[v] : v \in Busy}
  <2>1. img \in [Busy -> T] /\ \A t \in T : \E v \in Busy : img[v] = t
    OBVIOUS
  <2>2. img \in Surjection(Busy, T)
    BY <2>1 DEF Surjection
  <2>3. QED
    BY <1>4, <2>2, FS_Surjection DEF ExistsSurjection
<1>6. /\ IsFiniteSet(Lifecycle!Running)
      /\ Cardinality(Lifecycle!Running) <= Cardinality({held[v] : v \in Busy})
  BY <1>1, <1>5, FS_Subset
<1>7. /\ Cardinality(Lifecycle!Running) \in Nat
      /\ Cardinality({held[v] : v \in Busy}) \in Nat
      /\ Cardinality(Busy) \in Nat
  BY <1>4, <1>5, <1>6, FS_CardinalityType
<1>8. QED
  BY <1>3, <1>4, <1>5, <1>6, <1>7

\* The instance has a Cardinality of its own, with the same definition.
LEMMA SameCardinality ==
  Lifecycle!Cardinality(Lifecycle!Running) = Cardinality(Lifecycle!Running)
BY DEF Cardinality, Lifecycle!Cardinality

\* Each step of the queue is a step of the life cycle, or one clients cannot see.
LEMMA StepFollows == IInv /\ [Next]_vars => [Lifecycle!Next]_(Lifecycle!view)
<1> SUFFICES ASSUME IInv, [Next]_vars
             PROVE  [Lifecycle!Next]_(Lifecycle!view)
  OBVIOUS
<1> USE DEF record, pool
<1>1. ASSUME NEW j \in Jobs, Register(j)
      PROVE  Lifecycle!Next
  <2>1. /\ status[j] = "absent"
        /\ status' = [status EXCEPT ![j] = "queued"]
        /\ registry' = Retained(registry \cup {j})
        /\ closed' = closed
    BY <1>1 DEF Register, IInv, ThreadInv
  <2>2. registry \cup {j} \in SUBSET Jobs
    BY DEF IInv, TypeOK
  <2>3. (registry \cup {j}) \ registry' \subseteq Lifecycle!Completed
    <3>1. ASSUME NEW k \in (registry \cup {j}) \ registry'
          PROVE  Done(k) /\ k \in Jobs
      BY <2>1, <2>2, RetainedKeeps
    <3>2. QED
      BY <3>1 DEF Lifecycle!Completed, Done
  <2>4. registry' \subseteq registry \cup {j}
    BY <2>1, RetainedKeeps
  <2>5. Lifecycle!Accept(j)
    BY <2>1, <2>3, <2>4 DEF Lifecycle!Accept
  <2>6. QED
    BY <2>5 DEF Lifecycle!Next
<1>2. ASSUME NEW w \in Workers, Start(w)
      PROVE  Lifecycle!Next
  <2>1. /\ held[w] \in Jobs
        /\ status[held[w]] = "queued"
        /\ status' = [status EXCEPT ![held[w]] = "running"]
        /\ UNCHANGED <<registry, closed>>
    BY <1>2, JobQueueAssumption DEF Start, IInv, ThreadInv, TypeOK
  <2>2. Cardinality(Lifecycle!Running) < Cardinality(Workers)
    BY <1>2, SlotFree DEF Start
  <2>3. Lifecycle!Begin(held[w])
    BY <2>1, <2>2, SameCardinality DEF Lifecycle!Begin
  <2>4. QED
    BY <2>1, <2>3 DEF Lifecycle!Next
<1>3. ASSUME NEW w \in Workers, Succeed(w) \/ Fail(w)
      PROVE  Lifecycle!Next
  <2>1. /\ held[w] \in Jobs
        /\ status[held[w]] = "running"
        /\ \E p \in {"succeeded", "failed"} : status' = [status EXCEPT ![held[w]] = p]
        /\ UNCHANGED <<registry, closed>>
    BY <1>3, JobQueueAssumption
    DEF Succeed, Fail, Settle, IInv, ThreadInv, TypeOK, RecordTellsStage
  <2>2. Lifecycle!End(held[w])
    BY <2>1 DEF Lifecycle!End
  <2>3. QED
    BY <2>1, <2>2 DEF Lifecycle!Next
<1>4. CASE Shutdown
  BY <1>4 DEF Shutdown, Lifecycle!Next, Lifecycle!Close
<1>5. ASSUME NEW j \in Jobs, Enqueue(j) \/ Refuse(j)
      PROVE  UNCHANGED Lifecycle!view
  BY <1>5 DEF Enqueue, Refuse, Lifecycle!view
<1>6. ASSUME NEW w \in Workers, Take(w) \/ Stamp(w)
      PROVE  UNCHANGED Lifecycle!view
  BY <1>6 DEF Take, Stamp, Lifecycle!view
<1>7. CASE UNCHANGED vars
  BY <1>7 DEF vars, Lifecycle!view
<1>8. QED
  BY <1>1, <1>2, <1>3, <1>4, <1>5, <1>6, <1>7 DEF Next, Submit, Run

\* What clients see of the queue is a life cycle: every job is listed from its
\* submission until it is retired completed, goes once through "queued" and
\* "running" to one outcome, and no more jobs run than the pool has threads
\* (api_jobs.py:72-120).
THEOREM ClientsSeeLifecycle == Spec => FollowsLifecycle
<1>1. Init => Lifecycle!Init
  BY DEF Init, Lifecycle!Init
<1>2. QED
  BY <1>1, StepFollows, Invariance, PTL DEF Spec, FollowsLifecycle, Lifecycle!Safety

-------------------------------------------------------------------------------
\* The service over the queue.

\* Statuses that a job has from its start on.
Begun == {"running", "succeeded", "failed"}

Answers == [result : BOOLEAN, status : Statuses \cup {"missing"},
            started : BOOLEAN, finished : BOOLEAN, error : BOOLEAN]

\* What a poll has read so far: of the facts that last, those still hold, and
\* the fields read later agree with them.
DraftOk(j) ==
  LET d == draft[j]
  IN /\ d.result => status[j] = "succeeded"
     /\ d.status = "failed" => status[j] = "failed"
     /\ d.status \in Begun => started[j]
     /\ reading[j] > 2 /\ d.result => d.status = "succeeded"
     /\ reading[j] > 3 /\ d.status \in Begun => d.started
     /\ d.result => ~d.error
     /\ reading[j] > 5 /\ d.status = "failed" => d.error
     /\ reading[j] < 6 => ~d.error
     /\ reading[j] < 3 => d.status = "absent"

PollInv ==
  /\ reading \in [Jobs -> 0..6]
  /\ draft \in [Jobs -> Answers]
  /\ answer \in [Jobs -> Answers]
  /\ \A j \in Jobs : DraftOk(j)
  /\ AnswersCohere

-----------------------------------------------------------------------------
(* The endpoints and the queue.                                            *)

\* An endpoint takes a step of the queue or none.
LEMMA ApiStep == [ApiNext]_apiVars => [Next]_vars
<1> SUFFICES ASSUME ApiNext
             PROVE  [Next]_vars
  BY DEF apiVars
<1>1. CASE \E j \in Jobs : Post(j)
  BY <1>1 DEF Post
<1>2. CASE \E j \in Jobs : SubmitPosted(j)
  BY <1>2 DEF SubmitPosted, Next
<1>3. CASE \E j \in Jobs : Client(j)
  BY <1>3 DEF Client, Poll, ReadField, Respond
<1>4. CASE PoolStep
  BY <1>4 DEF PoolStep, Next
<1>5. CASE ResetJobs
  BY <1>5 DEF ResetJobs, Next
<1> QED
  BY <1>1, <1>2, <1>3, <1>4, <1>5 DEF ApiNext

\* Whatever clients do and whenever the manager is reset, the queue behaves as
\* JobQueue says, so that its theorems hold of the service.
THEOREM ApiRunsQueue == ApiSpec => Spec
<1>1. ApiInit => Init
  BY DEF ApiInit
<1> QED
  BY <1>1, ApiStep, PTL DEF ApiSpec, Spec

\* How a job ended, and that it began, is never taken back.
LEMMA RecordsLast ==
  ASSUME IInv, [Next]_vars, NEW j \in Jobs
  PROVE  /\ Done(j) => status'[j] = status[j]
         /\ started[j] => started'[j]
<1> USE DEF IInv, TypeOK, Done, record, pool
<1>1. CASE \E k \in Jobs : Submit(k)
  BY <1>1 DEF Submit, Register, Enqueue, Refuse, ThreadInv
<1>2. ASSUME NEW w \in Workers, Run(w)
      PROVE  /\ Done(j) => status'[j] = status[j]
             /\ started[j] => started'[j]
  <2>1. CASE Take(w) \/ Stamp(w)
    BY <2>1 DEF Take, Stamp
  <2>2. CASE Start(w)
    BY <2>2 DEF Start, ThreadInv
  <2>3. CASE Succeed(w) \/ Fail(w)
    <3>1. /\ stage[w] = "computing" /\ started' = started
          /\ \E s \in Statuses : status' = [status EXCEPT ![held[w]] = s]
      BY <2>3 DEF Succeed, Fail, Settle, Statuses
    <3>2. Done(j) => held[w] # j
      BY <3>1 DEF RecordTellsStage
    <3> QED
      BY <3>1, <3>2
  <2> QED
    BY <1>2, <2>1, <2>2, <2>3 DEF Run
<1>3. CASE Shutdown
  BY <1>3 DEF Shutdown
<1>4. CASE UNCHANGED vars
  BY <1>4 DEF vars
<1> QED
  BY <1>1, <1>2, <1>3, <1>4 DEF Next

-----------------------------------------------------------------------------
(* Polls.                                                                  *)

\* A step that leaves a poll as it is keeps what it has read right.
LEMMA DraftKept ==
  ASSUME IInv, [Next]_vars, NEW j \in Jobs, DraftOk(j),
         draft'[j] = draft[j], reading'[j] = reading[j]
  PROVE  DraftOk(j)'
<1>1. /\ status[j] \in {"succeeded", "failed"} => status'[j] = status[j]
      /\ started[j] => started'[j]
  BY RecordsLast DEF Done
<1> QED
  BY <1>1 DEF DraftOk, Begun

LEMMA InitPollInv == ApiInit => PollInv
BY DEF ApiInit, PollInv, DraftOk, AnswersCohere, Answers, Statuses, Blank, Begun

\* Reading the field whose turn it is.
LEMMA ReadKeeps ==
  ASSUME IInv, PollInv, NEW j \in Jobs, ReadField(j)
  PROVE  PollInv'
<1> DEFINE d == draft[j]
           i == reading[j]
<1>1. /\ i \in 1..5 /\ reading' = [reading EXCEPT ![j] = i + 1]
      /\ draft' = [draft EXCEPT ![j] = [d EXCEPT ![ReadOrder[i]] = Field(j, ReadOrder[i])]]
      /\ UNCHANGED <<vars, current, posting, answer>>
  BY DEF ReadField, ReadOrder, PollInv
<1>2. d \in Answers /\ DraftOk(j) /\ status[j] \in Statuses /\ started[j] \in BOOLEAN
      /\ finished[j] \in BOOLEAN
  BY DEF PollInv, IInv, TypeOK
<1>3. UNCHANGED <<status, outcome, started, finished>>
  BY <1>1 DEF vars, record
<1> DEFINE e == draft'[j]
<1>4. e = [d EXCEPT ![ReadOrder[i]] = Field(j, ReadOrder[i])]
  BY <1>1 DEF PollInv
<1>5. reading'[j] = i + 1
  BY <1>1 DEF PollInv
<1>6. e \in Answers /\ DraftOk(j)'
  <2>1. CASE i = 1
    <3>1. e = [d EXCEPT !.result = Field(j, "result")]
      BY <1>4, <2>1 DEF ReadOrder
    <3>2. /\ e \in Answers
          /\ e.result => status[j] = "succeeded"
          /\ e.status = d.status /\ e.error = d.error
      BY <1>2, <3>1, Zenon DEF Answers, Field
    <3> QED
      BY <1>2, <1>3, <1>5, <2>1, <3>2 DEF DraftOk, Begun
  <2>2. CASE i = 2
    <3>1. e = [d EXCEPT !.status = status[j]]
      BY <1>4, <2>2 DEF ReadOrder, Field
    <3>2. status[j] \in Begun => started[j]
      BY DEF IInv, ThreadInv, Begun
    <3> QED
      BY <1>2, <1>3, <1>5, <2>2, <3>1, <3>2 DEF Answers, DraftOk, Begun
  <2>3. CASE i = 3
    <3>1. e = [d EXCEPT !.started = started[j]]
      BY <1>4, <2>3 DEF ReadOrder, Field
    <3> QED
      BY <1>2, <1>3, <1>5, <2>3, <3>1 DEF Answers, DraftOk, Begun
  <2>4. CASE i = 4
    <3>1. e = [d EXCEPT !.finished = finished[j]]
      BY <1>4, <2>4 DEF ReadOrder, Field
    <3> QED
      BY <1>2, <1>3, <1>5, <2>4, <3>1 DEF Answers, DraftOk, Begun
  <2>5. CASE i = 5
    <3>1. e = [d EXCEPT !.error = (outcome[j] = "error")]
      BY <1>4, <2>5 DEF ReadOrder, Field
    <3>2. outcome[j] = "error" <=> status[j] = "failed"
      BY DEF IInv, RecordAgrees
    <3>3. /\ e \in Answers
          /\ e.error <=> status[j] = "failed"
          /\ e.result = d.result /\ e.status = d.status /\ e.started = d.started
      BY <1>2, <3>1, <3>2 DEF Answers
    <3> QED
      BY <1>2, <1>3, <1>5, <2>5, <3>3 DEF DraftOk, Begun
  <2> QED
    BY <1>1, <2>1, <2>2, <2>3, <2>4, <2>5
<1>7. ASSUME NEW k \in Jobs, k # j
      PROVE  DraftOk(k)'
  <2>1. draft'[k] = draft[k] /\ reading'[k] = reading[k]
    BY <1>1, <1>7 DEF PollInv
  <2> QED
    BY <1>3, <2>1, Zenon DEF DraftOk, PollInv
<1>8. draft' \in [Jobs -> Answers]
  BY <1>1, <1>4, <1>6 DEF PollInv
<1>9. reading' \in [Jobs -> 0..6]
  BY <1>1 DEF PollInv
<1> QED
  BY <1>1, <1>6, <1>7, <1>8, <1>9 DEF PollInv, AnswersCohere

\* The answer goes out.
LEMMA RespondKeeps ==
  ASSUME PollInv, NEW j \in Jobs, Respond(j)
  PROVE  PollInv'
<1>1. /\ reading[j] = 6 /\ reading' = [reading EXCEPT ![j] = 0]
      /\ answer' = [answer EXCEPT ![j] = draft[j]]
      /\ draft' = [draft EXCEPT ![j] = Blank]
      /\ UNCHANGED <<status, outcome, started, finished>>
  BY DEF Respond, ReadOrder, vars, record
<1>2. draft[j] \in Answers /\ DraftOk(j)
  BY DEF PollInv
<1>3. AnswersCohere'
  <2> SUFFICES ASSUME NEW k \in Jobs
               PROVE  LET a == answer'[k]
                      IN /\ a.result => a.status = "succeeded" /\ ~a.error
                         /\ a.status = "failed" => a.error
                         /\ a.status \in {"running", "succeeded", "failed"} => a.started
    BY DEF AnswersCohere
  <2>1. CASE k = j
    BY <1>1, <1>2, <2>1 DEF DraftOk, Begun, PollInv
  <2>2. CASE k # j
    BY <1>1, <2>2 DEF PollInv, AnswersCohere
  <2> QED
    BY <2>1, <2>2
<1>4. ASSUME NEW k \in Jobs
      PROVE  DraftOk(k)'
  <2>1. CASE k = j
    BY <1>1, <2>1 DEF DraftOk, Begun, PollInv, Blank
  <2>2. CASE k # j
    <3>1. draft'[k] = draft[k] /\ reading'[k] = reading[k]
      BY <1>1, <2>2 DEF PollInv
    <3> QED
      BY <1>1, <3>1, Zenon DEF DraftOk, PollInv
  <2> QED
    BY <2>1, <2>2
<1>5. /\ reading' \in [Jobs -> 0..6] /\ draft' \in [Jobs -> Answers]
      /\ answer' \in [Jobs -> Answers]
  BY <1>1, <1>2 DEF PollInv, Blank, Answers, Statuses
<1> QED
  BY <1>3, <1>4, <1>5 DEF PollInv

\* A poll begins, or is answered at once.
LEMMA PollKeeps ==
  ASSUME PollInv, NEW j \in Jobs, Poll(j)
  PROVE  PollInv'
<1>1. /\ reading[j] = 0 /\ UNCHANGED <<draft, status, outcome, started, finished>>
      /\ \/ reading' = [reading EXCEPT ![j] = 1] /\ UNCHANGED answer
         \/ answer' = [answer EXCEPT ![j] = NotFound] /\ UNCHANGED reading
  BY DEF Poll, vars, record
<1>2. NotFound \in Answers /\ ~NotFound.result /\ NotFound.status = "missing"
  BY DEF NotFound, Blank, Answers, Statuses
<1>3. AnswersCohere'
  BY <1>1, <1>2 DEF AnswersCohere, PollInv
<1>4. ASSUME NEW k \in Jobs
      PROVE  DraftOk(k)'
  BY <1>1, <1>4 DEF DraftOk, PollInv
<1>5. reading' \in [Jobs -> 0..6] /\ answer' \in [Jobs -> Answers]
  BY <1>1, <1>2 DEF PollInv
<1> QED
  BY <1>1, <1>3, <1>4, <1>5 DEF PollInv

\* A step of any other kind leaves the polls alone.
LEMMA OthersKeep ==
  ASSUME IInv, PollInv, [Next]_vars, UNCHANGED polls
  PROVE  PollInv'
<1>1. UNCHANGED <<reading, draft, answer>>
  BY DEF polls
<1>2. ASSUME NEW j \in Jobs
      PROVE  DraftOk(j)'
  BY <1>1, <1>2, DraftKept DEF PollInv
<1> QED
  BY <1>1, <1>2 DEF PollInv, AnswersCohere

LEMMA StepPollInv == IInv /\ PollInv /\ [ApiNext]_apiVars => PollInv'
<1> SUFFICES ASSUME IInv, PollInv, [ApiNext]_apiVars
             PROVE  PollInv'
  OBVIOUS
<1>1. [Next]_vars
  BY ApiStep
<1>2. CASE \E j \in Jobs : Client(j)
  BY <1>2, ReadKeeps, RespondKeeps, PollKeeps DEF Client
<1>3. CASE UNCHANGED polls
  BY <1>1, <1>3, OthersKeep
<1>4. (\E j \in Jobs : Client(j)) \/ UNCHANGED polls
  BY DEF ApiNext, apiVars, Post, SubmitPosted, PoolStep, ResetJobs
<1> QED
  BY <1>2, <1>3, <1>4

\* For any number of jobs, threads and clients: no mix of reads, evictions and
\* resets makes an answer whose result, status, error and start time contradict
\* each other.
THEOREM AnswersAreCoherent == ApiSpec => []AnswersCohere
<1>1. ApiSpec => []IInv
  BY ApiRunsQueue, Invariance, PTL
<1>2. ApiSpec => []PollInv
  BY <1>1, InitPollInv, StepPollInv, PTL DEF ApiSpec
<1>3. PollInv => AnswersCohere
  BY DEF PollInv
<1> QED
  BY <1>2, <1>3, PTL

-----------------------------------------------------------------------------
(* Jobs and their evidence.                                                *)

\* The theorems about the store, for jobs and requests with a spec of their own.
Kept == INSTANCE EvidenceStoreProofs
  WITH Saves <- Jobs \cup Requests,  Api <- Jobs \cup Requests,
       Specs <- Jobs \cup Requests,
       SpecOf <- [s \in Jobs \cup Requests |-> s]

\* They may be cited: their assumption holds, and every spec is solved once.
LEMMA KeptAssumptions ==
  Kept!EvidenceStoreAssumption /\ \A s \in Jobs \cup Requests : Kept!SolvedOnce(s)
<1>1. IsFiniteSet(Jobs \cup Requests)
  BY JobQueueAssumption, JobEvidenceAssumption, FS_Union
<1>2. Kept!EvidenceStoreAssumption
  BY <1>1, JobEvidenceAssumption, Zenon DEF IsFiniteSet, Kept!IsFiniteSet
<1>3. \A s \in Jobs \cup Requests : Kept!SolvedOnce(s)
  BY DEF Kept!SolvedOnce
<1> QED
  BY <1>2, <1>3

\* The store of JobEvidence is the one of the theorems.
LEMMA SameStore ==
  /\ Store!StoreInit => Kept!StoreInit
  /\ \A s : Store!Solve(s) => Kept!Solve(s)
  /\ \A s : Store!Save(s) => Kept!Save(s)
  /\ Store!CrashApi => Kept!CrashApi
  /\ Store!Listed = Kept!Listed /\ Store!FileNames = Kept!FileNames
<1>1. Store!StoreInit => Kept!StoreInit
  BY DEF Store!StoreInit, Kept!StoreInit, Store!Runs, Kept!Runs, Store!FileNames,
         Kept!FileNames, Store!Files, Kept!Files
<1>2. ASSUME NEW s, Store!Solve(s)
      PROVE  Kept!Solve(s)
  BY <1>2 DEF Store!Solve, Kept!Solve, Store!RunId, Kept!RunId, Store!files, Kept!files, Store!reader, Kept!reader
<1>3. ASSUME NEW s, Store!Save(s)
      PROVE  Kept!Save(s)
  BY <1>3 DEF Store!Save, Kept!Save, Store!BeginSave, Kept!BeginSave, Store!Write,
              Kept!Write, Store!FailWrite, Kept!FailWrite, Store!WriteFile, Kept!WriteFile,
              Store!AppendLine, Kept!AppendLine, Store!EndSave, Kept!EndSave,
              Store!IndexStep, Kept!IndexStep, Store!files, Kept!files, Store!reader,
              Kept!reader, Store!Files, Kept!Files
<1>4. Store!CrashApi => Kept!CrashApi
  BY DEF Store!CrashApi, Kept!CrashApi, Store!Busy, Kept!Busy, Store!files, Kept!files,
         Store!reader, Kept!reader
<1>5. Store!Listed = Kept!Listed /\ Store!FileNames = Kept!FileNames
  BY DEF Store!Listed, Kept!Listed, Store!FileNames, Kept!FileNames, Store!Files, Kept!Files
<1> QED
  BY <1>1, <1>2, <1>3, <1>4, <1>5

\* A step of the service is a step of the queue or leaves it alone.
LEMMA ServiceQueueStep == [ServiceNext]_serviceVars => [Next]_vars
<1> SUFFICES ASSUME ServiceNext
             PROVE  [Next]_vars
  BY DEF serviceVars
<1>1. ASSUME NEW w \in Workers, Work(w) \/ SolveRaised(w)
      PROVE  [Next]_vars
  BY <1>1 DEF Work, Compute, Deliver, SaveRaised, SolveRaised, Next, Run
<1>2. CASE Queueing
  BY <1>2 DEF Queueing, Next
<1>3. CASE (\E s \in Requests : Elsewhere(s)) \/ (\E j \in Jobs : Tell(j)) \/ Die
  BY <1>3 DEF Elsewhere, Tell, Die
<1> QED
  BY <1>1, <1>2, <1>3 DEF ServiceNext

\* What the functions of the jobs and the requests do to the store are solves
\* and saves of its own; when the process dies, so do those.
LEMMA ServiceStoreStep ==
  IInv /\ [ServiceNext]_serviceVars => [Kept!StoreNext]_(Kept!evidence)
<1> SUFFICES ASSUME IInv, [ServiceNext]_serviceVars
             PROVE  [Kept!StoreNext]_(Kept!evidence)
  OBVIOUS
<1>1. CASE UNCHANGED evidence
  BY <1>1 DEF evidence, Kept!evidence, Kept!files, Kept!reader
<1>2. ASSUME NEW s \in Jobs \cup Requests, Store!Solve(s) \/ Store!Save(s)
      PROVE  Kept!StoreNext
  BY <1>2, SameStore DEF Kept!StoreNext
<1>3. ASSUME NEW w \in Workers, Compute(w)
      PROVE  Kept!StoreNext
  <2>1. held[w] \in Jobs
    BY <1>3, JobQueueAssumption DEF Compute, IInv, ThreadInv, TypeOK
  <2> QED
    BY <1>2, <1>3, <2>1 DEF Compute
<1>4. ASSUME NEW s \in Requests, Elsewhere(s)
      PROVE  Kept!StoreNext
  BY <1>2, <1>4 DEF Elsewhere
<1>5. CASE Die
  BY <1>1, <1>5, SameStore DEF Die, Kept!StoreNext
<1> QED
  BY <1>1, <1>3, <1>4, <1>5
  DEF ServiceNext, serviceVars, Work, Deliver, SaveRaised, SolveRaised, Tell, Queueing

\* The service runs the queue and the store, each as its module says: their
\* theorems hold of it.
THEOREM ServiceRunsQueue == ServiceSpec => Spec
<1>1. ServiceInit => Init
  BY DEF ServiceInit
<1> QED
  BY <1>1, ServiceQueueStep, PTL DEF ServiceSpec, Spec

THEOREM ServiceRunsStore == ServiceSpec => Kept!StoreSpec
<1>1. ServiceInit => Kept!StoreInit
  BY SameStore DEF ServiceInit
<1>2. ServiceSpec => []IInv
  BY ServiceRunsQueue, Invariance, PTL
<1> QED
  BY <1>1, <1>2, ServiceStoreStep, PTL DEF ServiceSpec, Kept!StoreSpec

\* What the proofs about the store have: who has saved made all three files and
\* a line of the index, and what is listed was saved.
LEMMA ServiceKeeps == ServiceSpec => [](Kept!StoreInv /\ Kept!SavedIsListed)
<1>1. ServiceSpec => []Kept!StoreInv
  BY KeptAssumptions, Kept!StoreInvariance, ServiceRunsStore, PTL
<1>2. ServiceSpec => []Kept!SavedIsListed
  BY KeptAssumptions, Kept!SavesAreKept, ServiceRunsStore, PTL
<1> QED
  BY <1>1, <1>2, PTL

\* How a record says its job ended agrees with how far its save is, and clients
\* were told of successes only.
LinkInv ==
  \A j \in Jobs :
    /\ j \in told => status[j] = "succeeded"
    /\ status[j] = "succeeded" /\ j \in Persisting => phase[j] = "saved"
    /\ status[j] = "failed" => phase[j] # "saved"

\* A step of a save changes how far this save is and no other, and none that is
\* saved starts anew.
LEMMA SavesOwnPhase ==
  ASSUME Kept!StoreTypeOK, NEW s \in Jobs \cup Requests, Kept!Solve(s) \/ Kept!Save(s)
  PROVE  \A t \in Jobs \cup Requests : t # s => phase'[t] = phase[t]
BY DEF Kept!StoreTypeOK, Kept!Solve, Kept!Save, Kept!BeginSave, Kept!Write, Kept!WriteFile,
       Kept!AppendLine, Kept!FailWrite, Kept!EndSave

\* A job's own function is at its save, and no other step touches it, but the end
\* of the process, which undoes no save.
LEMMA StepPhase ==
  ASSUME IInv, Kept!StoreTypeOK, [ServiceNext]_serviceVars, NEW j \in Jobs,
         phase'[j] # phase[j]
  PROVE  /\ told' = told /\ status' = status
         /\ ~Done(j) \/ (phase[j] # "saved" /\ phase'[j] = "dead")
<1>1. CASE \E w \in Workers : Compute(w) /\ told' = told
  <2>1. PICK w \in Workers : Compute(w) /\ told' = told
    BY <1>1
  <2>2. held[w] \in Jobs /\ stage[w] = "computing" /\ status' = status
    BY <2>1, JobQueueAssumption DEF Compute, vars, record, IInv, ThreadInv, TypeOK
  <2>3. held[w] = j
    BY <2>1, <2>2, SameStore, SavesOwnPhase DEF Compute
  <2>4. status[j] = "running"
    BY <2>2, <2>3 DEF IInv, RecordTellsStage
  <2> QED
    BY <2>1, <2>2, <2>4 DEF Done
<1>2. ASSUME NEW s \in Requests, Elsewhere(s)
      PROVE  phase'[j] = phase[j]
  BY <1>2, SameStore, SavesOwnPhase, JobEvidenceAssumption DEF Elsewhere
<1>3. CASE Die
  <2>1. Kept!CrashApi /\ told' = told /\ status' = status
    BY <1>3, SameStore DEF Die, vars, record, evidence
  <2>2. phase' = [s \in Jobs \cup Requests |->
                    IF s \in Kept!Busy \cap (Jobs \cup Requests) THEN "dead" ELSE phase[s]]
    BY <2>1 DEF Kept!CrashApi
  <2>3. j \in Kept!Busy /\ phase'[j] = "dead"
    BY <2>2
  <2> QED
    BY <2>1, <2>3 DEF Kept!Busy
<1>4. UNCHANGED evidence => phase' = phase
  BY DEF evidence
<1> QED
  BY <1>1, <1>2, <1>3, <1>4
  DEF ServiceNext, serviceVars, Work, Deliver, SaveRaised, SolveRaised, Tell, Queueing

\* A thread that stores how its job ended knows how far the save is.
LEMMA StepEnding ==
  ASSUME IInv, [ServiceNext]_serviceVars, NEW j \in Jobs, status'[j] # status[j]
  PROVE  /\ told' = told /\ phase' = phase /\ ~Done(j)
         /\ status'[j] = "succeeded" /\ j \in Persisting => phase[j] = "saved"
         /\ status'[j] = "failed" => phase[j] # "saved"
<1>1. ~Done(j)
  BY ServiceQueueStep, RecordsLast
<1>2. ASSUME NEW w \in Workers, Deliver(w) \/ SaveRaised(w) \/ SolveRaised(w)
      PROVE  /\ phase' = phase
             /\ status'[j] = "succeeded" /\ j \in Persisting => phase[j] = "saved"
             /\ status'[j] = "failed" => phase[j] # "saved"
  <2>1. /\ \/ Deliver(w) /\ status' = [status EXCEPT ![held[w]] = "succeeded"]
           \/ /\ phase[held[w]] # "saved"
              /\ status' = [status EXCEPT ![held[w]] = "failed"]
        /\ phase' = phase
    BY <1>2 DEF Deliver, SaveRaised, SolveRaised, Succeed, Fail, Settle, evidence
  <2>2. held[w] = j
    BY <2>1 DEF IInv, TypeOK
  <2>3. status'[j] \in {"succeeded", "failed"}
    BY <2>1, <2>2 DEF IInv, TypeOK
  <2>4. status'[j] = "succeeded" => Deliver(w)
    BY <2>1, <2>2 DEF IInv, TypeOK
  <2>5. status'[j] = "failed" => phase[j] # "saved"
    BY <2>1, <2>2 DEF IInv, TypeOK
  <2> QED
    BY <2>1, <2>2, <2>4, <2>5 DEF Deliver, Answerable
<1>3. ASSUME NEW w \in Workers, Take(w) \/ Start(w) \/ Stamp(w)
      PROVE  status'[j] \notin {"succeeded", "failed"}
  BY <1>3 DEF Take, Start, Stamp, record, IInv, TypeOK
<1>4. ASSUME Queueing
      PROVE  status'[j] \notin {"succeeded", "failed"}
  BY <1>4 DEF Queueing, Submit, Register, Enqueue, Refuse, Shutdown, record, IInv, TypeOK
<1>5. ASSUME UNCHANGED vars
      PROVE  FALSE
  BY <1>5 DEF vars, record
<1>6. \/ \E w \in Workers : Deliver(w) \/ SaveRaised(w) \/ SolveRaised(w)
      \/ /\ UNCHANGED evidence
         /\ Queueing \/ \E w \in Workers : Take(w) \/ Start(w) \/ Stamp(w)
  BY <1>5 DEF ServiceNext, serviceVars, Work, Compute, Elsewhere, Tell, Die, Queueing
<1>7. told' = told
  BY <1>5 DEF ServiceNext, serviceVars, Work, Tell, Elsewhere, Die, Queueing
<1>8. UNCHANGED evidence => phase' = phase
  BY DEF evidence
<1> QED
  BY <1>1, <1>2, <1>3, <1>4, <1>6, <1>7, <1>8

LEMMA StepLinkInv ==
  ASSUME IInv, Kept!StoreTypeOK, LinkInv, [ServiceNext]_serviceVars
  PROVE  LinkInv'
<1> SUFFICES ASSUME NEW j \in Jobs
             PROVE  /\ j \in told' => status'[j] = "succeeded"
                    /\ status'[j] = "succeeded" /\ j \in Persisting => phase'[j] = "saved"
                    /\ status'[j] = "failed" => phase'[j] # "saved"
  BY DEF LinkInv
<1>1. CASE phase'[j] # phase[j]
  BY <1>1, StepPhase DEF LinkInv, Done
<1>2. CASE status'[j] # status[j]
  BY <1>2, StepEnding DEF LinkInv, Done
<1>3. CASE phase'[j] = phase[j] /\ status'[j] = status[j]
  <2>1. j \in told' => j \in told \/ status[j] = "succeeded"
    BY DEF ServiceNext, serviceVars, Work, Tell, Elsewhere, Die, Queueing
  <2> QED
    BY <1>3, <2>1 DEF LinkInv
<1> QED
  BY <1>1, <1>2, <1>3

\* For any number of jobs, threads, requests and saves, whichever writes fail
\* and whenever the process dies: who was told of a success finds the job's own
\* and whole evidence and its line in the index, and no run of a job that failed
\* is listed (api.py:256-282, 296-301, store.py:52-71).
THEOREM ToldAreStored == ServiceSpec => []ToldIsStored
<1>1. ServiceSpec => []IInv
  BY ServiceRunsQueue, Invariance, PTL
<1>2. Kept!StoreInv => Kept!StoreTypeOK
  BY DEF Kept!StoreInv
<1>3. ServiceInit => LinkInv
  BY DEF ServiceInit, Init, LinkInv
<1>4. ServiceSpec => []LinkInv
  BY <1>1, <1>2, <1>3, StepLinkInv, ServiceKeeps, PTL DEF ServiceSpec
<1>5. ASSUME Kept!StoreInv, Kept!SavedIsListed, LinkInv
      PROVE  ToldIsStored
  <2>1. ASSUME NEW j \in told \cap Persisting
        PROVE  /\ \A r \in run[j], f \in Store!FileNames : file[r][f] = j
               /\ \E i \in 1..Len(lines) :
                    lines[i].record = [run |-> CHOOSE r \in run[j] : TRUE, save |-> j]
    <3>1. j \in Jobs \cup Requests /\ phase[j] = "saved"
      BY <1>5, <2>1, JobEvidenceAssumption DEF LinkInv
    <3>2. PICK i \in 1..Len(lines) :
            lines[i].record.save = j /\ lines[i].record.run \in run[j]
      BY <1>5, <3>1 DEF Kept!SavedIsListed
    <3>3. lines[i].record \in Kept!Records
      BY <1>5, KeptAssumptions, Kept!LineTyped DEF Kept!StoreInv
    <3>4. \A r \in run[j] : r = lines[i].record.run
      BY <1>5, <3>1, <3>2 DEF Kept!StoreInv, Kept!NamesInv
    <3>5. (CHOOSE r \in run[j] : TRUE) = lines[i].record.run
      BY <3>2, <3>4
    <3>6. lines[i].record = [run |-> lines[i].record.run, save |-> lines[i].record.save]
      BY <3>3 DEF Kept!Records
    <3>7. \A r \in run[j], f \in Store!FileNames : file[r][f] = j
      BY <1>5, <3>1, SameStore, KeptAssumptions, Kept!NoNamesakes DEF Kept!SavedIsListed
    <3> QED
      BY <3>2, <3>5, <3>6, <3>7
  <2>2. ASSUME NEW j \in Jobs, status[j] = "failed", NEW rec \in Store!Listed
        PROVE  rec.save # j
    <3>1. phase[rec.save] = "saved"
      BY <1>5, <2>2, KeptAssumptions, SameStore, Kept!ListedRecord
    <3> QED
      BY <1>5, <2>2, <3>1 DEF LinkInv
  <2> QED
    BY <2>1, <2>2 DEF ToldIsStored
<1> QED
  BY <1>4, <1>5, ServiceKeeps, PTL

-----------------------------------------------------------------------------
(* The rate limit.                                                         *)

(* The initial state is well typed.                                        *)
LEMMA InitLimiterTypeOK == LimiterInit => LimiterTypeOK
  BY RateLimiterAssumption DEF LimiterInit, LimiterTypeOK

(* Every step of the threads and of the clock keeps the types.             *)
LEMMA StepLimiterTypeOK ==
  LimiterTypeOK /\ [LimiterNext]_limiterVars => LimiterTypeOK'
<1> SUFFICES ASSUME LimiterTypeOK, [LimiterNext]_limiterVars
             PROVE  LimiterTypeOK'
  OBVIOUS
<1>1. CASE Tick
  BY <1>1, RateLimiterAssumption DEF Tick, LimiterTypeOK
<1>2. ASSUME NEW t \in Threads, Arrive(t)
      PROVE  LimiterTypeOK'
  BY <1>2, RateLimiterAssumption DEF Arrive, LimiterTypeOK, Goto
<1>3. ASSUME NEW t \in Threads, Drain(t)
      PROVE  LimiterTypeOK'
  BY <1>3, RateLimiterAssumption DEF Drain, LimiterTypeOK, Goto
<1>4. ASSUME NEW t \in Threads, Peek(t)
      PROVE  LimiterTypeOK'
  BY <1>4, RateLimiterAssumption DEF Peek, LimiterTypeOK, Goto
<1>5. ASSUME NEW t \in Threads, Pop(t)
      PROVE  LimiterTypeOK'
  <2>1. window # <<>> => Tail(window) \in Seq(0..LastTime)
    BY HeadTailProperties DEF LimiterTypeOK
  <2>2. window' \in Seq(0..LastTime)
    BY <1>5, <2>1 DEF Pop, LimiterTypeOK
  <2> QED
    BY <1>5, <2>2 DEF Pop, LimiterTypeOK, Goto
<1>6. ASSUME NEW t \in Threads, Count(t)
      PROVE  LimiterTypeOK'
  BY <1>6, RateLimiterAssumption DEF Count, LimiterTypeOK, Goto
<1>7. ASSUME NEW t \in Threads, Admit(t)
      PROVE  LimiterTypeOK'
  BY <1>7, RateLimiterAssumption DEF Admit, LimiterTypeOK, Goto
<1>8. ASSUME NEW t \in Threads, Answer(t)
      PROVE  LimiterTypeOK'
  BY <1>8, RateLimiterAssumption DEF Answer, LimiterTypeOK, Goto
<1>9. CASE UNCHANGED limiterVars
  BY <1>9 DEF limiterVars, LimiterTypeOK
<1> QED
  BY <1>1, <1>2, <1>3, <1>4, <1>5, <1>6, <1>7, <1>8, <1>9 DEF LimiterNext, Serve

(* Every reading, timestamp and counter stays in its range, and every       *)
(* thread at an operation of the limiter.                                  *)
THEOREM LimiterTypeCorrect == LimiterSpec => []LimiterTypeOK
<1> QED
  BY InitLimiterTypeOK, StepLimiterTypeOK, PTL DEF LimiterSpec

(* The threads about to append are finitely many, no more than there are.  *)
LEMMA AppendingIsFinite ==
  /\ IsFiniteSet(Appending) /\ Cardinality(Appending) \in Nat
  /\ Cardinality(Threads) \in Nat
  /\ Cardinality(Appending) <= Cardinality(Threads)
<1>1. IsFiniteSet(Threads) /\ Appending \subseteq Threads
  BY RateLimiterAssumption DEF Appending
<1> QED
  BY <1>1, FS_Subset, FS_CardinalityType

(* A step that takes thread t to an operation other than append leaves no   *)
(* thread about to append that was not before.                             *)
LEMMA NobodyJoins ==
  ASSUME LimiterTypeOK, NEW t \in Threads, NEW where, where # "append", Goto(t, where)
  PROVE  Cardinality(Appending') <= Cardinality(Appending)
<1>1. Appending' \subseteq Appending
  BY DEF Appending, Goto, LimiterTypeOK
<1> QED
  BY <1>1, AppendingIsFinite, FS_Subset

(* A thread that finds the window below the limit joins those about to      *)
(* append, and these are never more than the threads.                      *)
LEMMA CountKeepsBound ==
  ASSUME LimiterTypeOK, OvershootBounded, NEW t \in Threads, Count(t)
  PROVE  OvershootBounded'
<1>1. window' = window /\ Len(window) \in Nat /\ Limit \in Nat
  BY RateLimiterAssumption DEF Count, LimiterTypeOK
<1>2. /\ Cardinality(Threads) \in Nat
      /\ Cardinality(Appending) \in Nat /\ Cardinality(Appending') \in Nat
      /\ Cardinality(Appending') <= Cardinality(Threads)
  <2>1. IsFiniteSet(Threads) /\ Appending' \subseteq Threads
    BY RateLimiterAssumption DEF Appending
  <2> QED
    BY <2>1, AppendingIsFinite, FS_Subset, FS_CardinalityType
<1>3. CASE Len(window) >= Limit
  <2>1. Goto(t, "refused")
    BY <1>3 DEF Count
  <2>2. Cardinality(Appending') <= Cardinality(Appending)
    BY <2>1, NobodyJoins
  <2> QED
    BY <1>1, <1>2, <2>2 DEF OvershootBounded
<1>4. CASE ~(Len(window) >= Limit)
  BY <1>1, <1>2, <1>4 DEF OvershootBounded
<1> QED
  BY <1>3, <1>4

(* A thread that appends leaves those about to do so.                      *)
LEMMA AdmitKeepsBound ==
  ASSUME LimiterTypeOK, OvershootBounded, NEW t \in Threads, Admit(t)
  PROVE  OvershootBounded'
<1>1. Appending' = Appending \ {t} /\ t \in Appending
  BY DEF Admit, Goto, Appending, LimiterTypeOK
<1>2. Cardinality(Appending') = Cardinality(Appending) - 1
  BY <1>1, AppendingIsFinite, FS_RemoveElement
<1>3. Len(window') = Len(window) + 1 /\ Len(window) \in Nat
  BY DEF Admit, LimiterTypeOK
<1> QED
  BY <1>2, <1>3, AppendingIsFinite, RateLimiterAssumption DEF OvershootBounded

(* A step that neither grows the window nor sends a thread to append keeps  *)
(* the bound.                                                              *)
LEMMA ShrinkKeepsBound ==
  ASSUME LimiterTypeOK, OvershootBounded,
         Len(window') \in Nat, Len(window') <= Len(window),
         Cardinality(Appending') \in Nat, Cardinality(Appending') <= Cardinality(Appending)
  PROVE  OvershootBounded'
<1>1. Len(window) \in Nat
  BY DEF LimiterTypeOK
<1> QED
  BY <1>1, AppendingIsFinite, RateLimiterAssumption DEF OvershootBounded

(* Every step keeps the bound: the count is taken from the window as it is, *)
(* so that only threads that passed it together can overshoot.             *)
LEMMA StepOvershoot ==
  LimiterTypeOK /\ OvershootBounded /\ [LimiterNext]_limiterVars => OvershootBounded'
<1> SUFFICES ASSUME LimiterTypeOK, OvershootBounded, [LimiterNext]_limiterVars
             PROVE  OvershootBounded'
  OBVIOUS
<1>1. Len(window) \in Nat
  BY DEF LimiterTypeOK
<1>2. Cardinality(Appending') \in Nat
  <2>1. IsFiniteSet(Threads) /\ Appending' \subseteq Threads
    BY RateLimiterAssumption DEF Appending
  <2> QED
    BY <2>1, FS_Subset, FS_CardinalityType
<1>3. CASE Tick \/ UNCHANGED limiterVars
  BY <1>3 DEF Tick, limiterVars, OvershootBounded, Appending
<1>4. ASSUME NEW t \in Threads, Arrive(t) \/ Drain(t) \/ Peek(t) \/ Answer(t)
      PROVE  OvershootBounded'
  <2>1. window' = window /\ \E where : where # "append" /\ Goto(t, where)
    BY <1>4 DEF Arrive, Drain, Peek, Answer
  <2>2. Cardinality(Appending') <= Cardinality(Appending)
    BY <2>1, NobodyJoins
  <2> QED
    BY <1>1, <1>2, <2>1, <2>2, ShrinkKeepsBound
<1>5. ASSUME NEW t \in Threads, Pop(t)
      PROVE  OvershootBounded'
  <2>1. \E where : where # "append" /\ Goto(t, where)
    BY <1>5 DEF Pop
  <2>2. Cardinality(Appending') <= Cardinality(Appending)
    BY <2>1, NobodyJoins
  <2>3. Len(window') \in Nat /\ Len(window') <= Len(window)
    BY <1>5 DEF Pop, LimiterTypeOK
  <2> QED
    BY <1>2, <2>2, <2>3, ShrinkKeepsBound
<1>6. ASSUME NEW t \in Threads, Count(t)
      PROVE  OvershootBounded'
  BY <1>6, CountKeepsBound
<1>7. ASSUME NEW t \in Threads, Admit(t)
      PROVE  OvershootBounded'
  BY <1>7, AdmitKeepsBound
<1> QED
  BY <1>3, <1>4, <1>5, <1>6, <1>7 DEF LimiterNext, Serve

(* At first the deque is empty and no thread is about to append.           *)
LEMMA InitOvershoot == LimiterInit => OvershootBounded
<1> SUFFICES ASSUME LimiterInit
             PROVE  OvershootBounded
  OBVIOUS
<1>1. Appending = {} /\ Len(window) = 0
  BY DEF LimiterInit, Appending
<1>2. Cardinality(Appending) = 0
  BY <1>1, FS_EmptySet
<1> QED
  BY <1>1, <1>2, AppendingIsFinite, RateLimiterAssumption DEF OvershootBounded

(* The deque of a client never holds more than one timestamp beyond the     *)
(* limit for every further thread, however the threads interleave.         *)
THEOREM DequeIsBounded == LimiterSpec => []OvershootBounded
<1>1. LimiterSpec => [](LimiterTypeOK /\ OvershootBounded)
  BY InitLimiterTypeOK, StepLimiterTypeOK, InitOvershoot, StepOvershoot, PTL DEF LimiterSpec
<1> QED
  BY <1>1, PTL

(* As long as requests do not overlap.                                      *)
Sequential == Cardinality({t \in Threads : at[t] # "idle"}) <= 1

(* What the limiter then promises.                                         *)
Exact ==
  /\ \A u \in 0..LastTime : AdmittedIn(u) <= Limit
  /\ \A t \in Threads : at[t] = "refused" => AdmittedIn(now[t]) >= Limit

(* What thread t knows of the deque while it serves a request: what was     *)
(* dropped is out of its window, and once it has stopped dropping, what is  *)
(* left is in it.                                                          *)
Serving(t) ==
  /\ now[t] <= time
  /\ \A i \in 1..Len(admitted) : admitted[i] <= now[t]
  /\ \A i \in 1..Len(admitted) - Len(window) : admitted[i] + Period < now[t]
  /\ at[t] # "error"
  /\ at[t] \in {"peek", "pop"} => window # <<>>
  /\ at[t] = "pop" => now[t] - window[1] > Period
  /\ at[t] \in {"count", "append", "refused"} /\ window # <<>> => now[t] - window[1] <= Period
  /\ at[t] = "append" => Len(window) < Limit
  /\ at[t] = "refused" => Len(window) >= Limit

(* The deque holds the last of the admitted timestamps, which grow, and     *)
(* those that were dropped are older than the window.                      *)
DequeInv ==
  /\ Len(window) <= Len(admitted)
  /\ \A i \in 1..Len(window) : window[i] = admitted[(Len(admitted) - Len(window)) + i]
  /\ \A i \in 1..Len(admitted) : admitted[i] <= time
  /\ \A i, j \in 1..Len(admitted) : i <= j => admitted[i] <= admitted[j]
  /\ \A i \in 1..Len(admitted) - Len(window) : admitted[i] + Period < time
  /\ \A u \in 0..LastTime : AdmittedIn(u) <= Limit

SequentialInv == DequeInv /\ \A t \in Threads : at[t] # "idle" => Serving(t)

(* A set that has at most one element has no other.                        *)
LEMMA OnlyOne ==
  ASSUME NEW S, IsFiniteSet(S), Cardinality(S) <= 1, NEW x \in S, NEW y \in S
  PROVE  x = y
<1>1. /\ Cardinality(S) \in Nat /\ IsFiniteSet(S \ {x})
      /\ Cardinality(S \ {x}) = Cardinality(S) - 1 /\ Cardinality(S \ {x}) \in Nat
  BY FS_RemoveElement, FS_CardinalityType, FS_Subset
<1>2. Cardinality(S \ {x}) = 0
  BY <1>1
<1>3. S \ {x} = {}
  BY <1>1, <1>2, FS_EmptySet
<1> QED
  BY <1>3

(* The thread that serves is the only one.                                 *)
LEMMA AloneIs ==
  ASSUME Sequential, NEW t \in Threads, at[t] # "idle"
  PROVE  \A s \in Threads : s # t => at[s] = "idle"
<1> DEFINE S == {s \in Threads : at[s] # "idle"}
<1>1. IsFiniteSet(S) /\ Cardinality(S) <= 1
  BY RateLimiterAssumption, FS_Subset DEF Sequential
<1>2. \A s \in Threads : at[s] # "idle" => s \in S
  OBVIOUS
<1> HIDE DEF S
<1>3. \A s \in S : s = t
  BY <1>1, <1>2, OnlyOne
<1> QED
  BY <1>2, <1>3

(* The same after a step.                                                  *)
LEMMA AloneAfter ==
  ASSUME Sequential', NEW t \in Threads, at'[t] # "idle"
  PROVE  \A s \in Threads : s # t => at'[s] = "idle"
<1> DEFINE S == {s \in Threads : at'[s] # "idle"}
<1>1. IsFiniteSet(S) /\ Cardinality(S) <= 1
  BY RateLimiterAssumption, FS_Subset DEF Sequential
<1>2. \A s \in Threads : at'[s] # "idle" => s \in S
  OBVIOUS
<1> HIDE DEF S
<1>3. \A s \in S : s = t
  BY <1>1, <1>2, OnlyOne
<1> QED
  BY <1>2, <1>3

(* A step of the only thread that leaves the deque and the clock.           *)
LEMMA QuietKeeps ==
  ASSUME LimiterTypeOK, SequentialInv, NEW t \in Threads,
         UNCHANGED <<time, window, admitted>>,
         \A s \in Threads : s # t => at'[s] = "idle",
         at'[t] # "idle" => Serving(t)'
  PROVE  SequentialInv'
<1>1. DequeInv'
  BY DEF SequentialInv, DequeInv, AdmittedIn
<1>2. \A s \in Threads : at'[s] # "idle" => Serving(s)'
  OBVIOUS
<1> QED
  BY <1>1, <1>2 DEF SequentialInv

(* Timestamps and readings are numbers.                                    *)
LEMMA LimiterNumbers ==
  ASSUME LimiterTypeOK
  PROVE  /\ Len(window) \in Nat /\ Len(admitted) \in Nat /\ time \in Int /\ Period \in Nat
         /\ Period > 0 /\ Limit \in Nat /\ Limit > 0 /\ LastTime \in Nat
         /\ \A t \in Threads : now[t] \in Int /\ now[t] \in 0..LastTime
         /\ \A i \in 1..Len(window) : window[i] \in Int
         /\ \A i \in 1..Len(admitted) : admitted[i] \in Int
         /\ window # <<>> <=> Len(window) > 0
<1>1. window \in Seq(0..LastTime) /\ admitted \in Seq(0..LastTime)
  BY DEF LimiterTypeOK
<1>2. /\ \A i \in 1..Len(window) : window[i] \in 0..LastTime
      /\ \A i \in 1..Len(admitted) : admitted[i] \in 0..LastTime
      /\ Len(window) \in Nat /\ Len(admitted) \in Nat
      /\ window # <<>> <=> Len(window) > 0
  <2>1. Len(window) \in Nat /\ Len(admitted) \in Nat
    BY <1>1, LenProperties
  <2>2. \A i \in 1..Len(window) : window[i] \in 0..LastTime
    BY <1>1, ElementOfSeq
  <2>3. \A i \in 1..Len(admitted) : admitted[i] \in 0..LastTime
    BY <1>1, ElementOfSeq
  <2>4. window # <<>> <=> Len(window) > 0
    BY <1>1, <2>1, EmptySeq
  <2> QED
    BY <2>1, <2>2, <2>3, <2>4
<1> QED
  BY <1>2, RateLimiterAssumption DEF LimiterTypeOK

(* A request reads the clock after everything that was admitted.           *)
LEMMA ArriveKeeps ==
  ASSUME LimiterTypeOK, SequentialInv, Sequential', NEW t \in Threads, Arrive(t)
  PROVE  SequentialInv'
<1>1. at'[t] = "drain" /\ now'[t] = time /\ UNCHANGED <<time, window, admitted>>
  BY DEF Arrive, Goto, LimiterTypeOK
<1>2. \A s \in Threads : s # t => at'[s] = "idle"
  BY <1>1, AloneAfter
<1>3. Serving(t)'
  BY <1>1, LimiterNumbers DEF SequentialInv, DequeInv, Serving
<1> QED
  BY <1>1, <1>2, <1>3, QuietKeeps

(* The thread looks at the deque.                                          *)
LEMMA LookKeeps ==
  ASSUME LimiterTypeOK, SequentialInv, Sequential, NEW t \in Threads,
         Drain(t) \/ Peek(t) \/ Count(t) \/ Answer(t)
  PROVE  SequentialInv'
<1>1. at[t] # "idle" /\ UNCHANGED <<time, now, window, admitted>>
  BY DEF Drain, Peek, Count, Answer
<1>2. \A s \in Threads : s # t => at'[s] = "idle"
  <2>1. \A s \in Threads : s # t => at[s] = "idle"
    BY <1>1, AloneIs
  <2>2. \A s \in Threads : s # t => at'[s] = at[s]
    BY DEF Drain, Peek, Count, Answer, Goto, LimiterTypeOK
  <2> QED
    BY <2>1, <2>2
<1>3. Serving(t)
  BY <1>1 DEF SequentialInv
<1>4. CASE Drain(t)
  <2>1. at'[t] = IF window = <<>> THEN "count" ELSE "peek"
    BY <1>4 DEF Drain, Goto, LimiterTypeOK
  <2>2. Serving(t)'
    BY <1>1, <1>3, <2>1 DEF Serving
  <2> QED
    BY <1>1, <1>2, <2>2, QuietKeeps
<1>5. CASE Peek(t)
  <2>1. at[t] = "peek" /\ window # <<>> /\ Head(window) = window[1]
    BY <1>3, <1>5 DEF Peek, Serving
  <2>2. at'[t] = IF now[t] - window[1] > Period THEN "pop" ELSE "count"
    BY <1>5, <2>1 DEF Peek, Goto, LimiterTypeOK
  <2>3. now[t] \in Int /\ window[1] \in Int /\ Period \in Int
    <3>1. 1 \in 1..Len(window)
      BY <2>1, LimiterNumbers
    <3> QED
      BY <3>1, LimiterNumbers
  <2>4. Serving(t)'
    BY <1>1, <1>3, <2>1, <2>2, <2>3 DEF Serving
  <2> QED
    BY <1>1, <1>2, <2>4, QuietKeeps
<1>6. CASE Count(t)
  <2>1. at[t] = "count" /\ at'[t] = IF Len(window) >= Limit THEN "refused" ELSE "append"
    BY <1>6 DEF Count, Goto, LimiterTypeOK
  <2>2. Serving(t)'
    BY <1>1, <1>3, <2>1, LimiterNumbers DEF Serving
  <2> QED
    BY <1>1, <1>2, <2>2, QuietKeeps
<1>7. CASE Answer(t)
  <2>1. at'[t] = "idle"
    BY <1>7 DEF Answer, Goto, LimiterTypeOK
  <2> QED
    BY <1>1, <1>2, <2>1, QuietKeeps
<1> QED
  BY <1>4, <1>5, <1>6, <1>7

(* The clock goes on.                                                      *)
LEMMA TickKeeps ==
  ASSUME LimiterTypeOK, SequentialInv, Tick
  PROVE  SequentialInv'
<1>1. time' = time + 1 /\ UNCHANGED <<at, now, window, admitted>>
  BY DEF Tick
<1>2. DequeInv'
  <2>1. \A i \in 1..Len(admitted) : admitted[i] <= time' /\ admitted[i] <= time
    BY <1>1, LimiterNumbers DEF SequentialInv, DequeInv
  <2>2. \A i \in 1..Len(admitted) - Len(window) : admitted[i] + Period < time'
    <3> TAKE i \in 1..Len(admitted) - Len(window)
    <3>1. i \in 1..Len(admitted) /\ admitted[i] + Period < time
      BY LimiterNumbers DEF SequentialInv, DequeInv
    <3> QED
      BY <1>1, <3>1, LimiterNumbers
  <2>3. \A u \in 0..LastTime : AdmittedIn(u)' <= Limit
    BY <1>1 DEF SequentialInv, DequeInv, AdmittedIn
  <2> QED
    BY <1>1, <2>1, <2>2, <2>3 DEF SequentialInv, DequeInv
<1>3. ASSUME NEW t \in Threads, at'[t] # "idle"
      PROVE  Serving(t)'
  <2>1. Serving(t)
    BY <1>1, <1>3 DEF SequentialInv
  <2> QED
    BY <1>1, <2>1, LimiterNumbers DEF Serving
<1> QED
  BY <1>2, <1>3 DEF SequentialInv

(* The thread drops the oldest timestamp, which its window does not reach.  *)
LEMMA PopKeeps ==
  ASSUME LimiterTypeOK, SequentialInv, Sequential, NEW t \in Threads, Pop(t)
  PROVE  SequentialInv'
<1>1. /\ at[t] = "pop" /\ Serving(t) /\ window # <<>> /\ UNCHANGED <<time, now, admitted>>
      /\ DequeInv
  BY DEF Pop, SequentialInv, Serving
<1>2. window' = Tail(window) /\ at'[t] = "drain" /\ \A s \in Threads : s # t => at'[s] = at[s]
  BY <1>1 DEF Pop, Goto, LimiterTypeOK
<1>3. \A s \in Threads : s # t => at'[s] = "idle"
  BY <1>1, <1>2, AloneIs
<1>4. PICK L \in Nat, M \in Nat : L = Len(admitted) /\ M = Len(window) /\ M > 0 /\ M <= L
  BY <1>1, LimiterNumbers DEF DequeInv
<1>5. Len(window') = M - 1 /\ \A i \in 1..M - 1 : window'[i] = window[i + 1]
  <2>1. window \in Seq(0..LastTime)
    BY DEF LimiterTypeOK
  <2>2. Len(Tail(window)) = M - 1 /\ \A i \in 1..M - 1 : Tail(window)[i] = window[i + 1]
    BY <1>1, <1>4, <2>1, HeadTailProperties
  <2> QED
    BY <1>2, <2>2
<1>6. window[1] = admitted[(L - M) + 1]
  BY <1>1, <1>4 DEF DequeInv
<1>7. admitted[(L - M) + 1] + Period < now[t] /\ now[t] <= time
  <2>1. (L - M) + 1 \in 1..L /\ now[t] - window[1] > Period
    BY <1>1, <1>4 DEF Serving
  <2>2. admitted[(L - M) + 1] \in Int /\ now[t] \in Int /\ Period \in Int
    BY <1>4, <2>1, LimiterNumbers
  <2> QED
    BY <1>1, <1>6, <2>1, <2>2 DEF Serving
<1>8. \A i \in 1..L - (M - 1) : admitted[i] + Period < now[t] /\ admitted[i] + Period < time
  <2> TAKE i \in 1..L - (M - 1)
  <2>1. i \in 1..L /\ (i = (L - M) + 1 \/ i \in 1..L - M)
    BY <1>4
  <2>2. admitted[i] + Period < now[t]
    BY <1>1, <1>4, <1>7, <2>1 DEF Serving
  <2>3. admitted[i] \in Int /\ now[t] \in Int /\ time \in Int /\ Period \in Int
    BY <1>4, <2>1, LimiterNumbers
  <2> QED
    BY <1>7, <2>2, <2>3
<1>9. \A i \in 1..M - 1 : window'[i] = admitted[(L - (M - 1)) + i]
  <2> TAKE i \in 1..M - 1
  <2>1. i + 1 \in 1..M /\ (L - M) + (i + 1) = (L - (M - 1)) + i
    BY <1>4
  <2>2. window[i + 1] = admitted[(L - M) + (i + 1)]
    BY <1>1, <1>4, <2>1 DEF DequeInv
  <2> QED
    BY <1>5, <2>1, <2>2
<1>10. DequeInv'
  <2>1. M - 1 <= L /\ Len(window') = M - 1 /\ Len(admitted') = L
    BY <1>1, <1>4, <1>5
  <2>2. \A u \in 0..LastTime : AdmittedIn(u)' <= Limit
    BY <1>1 DEF DequeInv, AdmittedIn
  <2> QED
    BY <1>1, <1>4, <1>8, <1>9, <2>1, <2>2 DEF DequeInv
<1>11. Serving(t)'
  BY <1>1, <1>2, <1>4, <1>5, <1>8 DEF Serving
<1> QED
  BY <1>3, <1>10, <1>11 DEF SequentialInv

(* A request is admitted while less than the limit is in its window.        *)
LEMMA AdmitKeeps ==
  ASSUME LimiterTypeOK, SequentialInv, Sequential, NEW t \in Threads, Admit(t)
  PROVE  SequentialInv'
<1>1. /\ at[t] = "append" /\ Serving(t) /\ UNCHANGED <<time, now>> /\ DequeInv
      /\ window' = Append(window, now[t]) /\ admitted' = Append(admitted, now[t])
  BY DEF Admit, SequentialInv
<1>2. at'[t] = "idle" /\ \A s \in Threads : s # t => at'[s] = at[s]
  BY DEF Admit, Goto, LimiterTypeOK
<1>3. \A s \in Threads : at'[s] = "idle"
  BY <1>1, <1>2, AloneIs
<1>4. PICK L \in Nat, M \in Nat, e \in Int :
        /\ L = Len(admitted) /\ M = Len(window) /\ e = now[t] /\ M <= L /\ M < Limit /\ e <= time
  BY <1>1, LimiterNumbers DEF DequeInv, Serving
<1>5. /\ Len(admitted') = L + 1 /\ admitted'[L + 1] = e
      /\ \A i \in 1..L : admitted'[i] = admitted[i]
      /\ Len(window') = M + 1 /\ window'[M + 1] = e
      /\ \A i \in 1..M : window'[i] = window[i]
  <2>1. window \in Seq(0..LastTime) /\ admitted \in Seq(0..LastTime) /\ now[t] \in 0..LastTime
    BY DEF LimiterTypeOK
  <2> QED
    BY <1>1, <1>4, <2>1, AppendProperties
<1>6. /\ \A i \in 1..L : admitted[i] \in Int /\ admitted[i] <= e
      /\ \A i \in 1..L - M : admitted[i] + Period < e
  BY <1>1, <1>4, LimiterNumbers DEF Serving
<1>7. \A i \in 1..L + 1 : i = L + 1 \/ i \in 1..L
  OBVIOUS
<1>8. \A i, j \in 1..L + 1 : i <= j => admitted'[i] <= admitted'[j]
  <2> SUFFICES ASSUME NEW i \in 1..L + 1, NEW j \in 1..L + 1, i <= j
               PROVE  admitted'[i] <= admitted'[j]
    OBVIOUS
  <2>1. CASE j = L + 1
    BY <1>5, <1>6, <1>7, <2>1
  <2>2. CASE j # L + 1
    <3>1. i \in 1..L /\ j \in 1..L
      BY <2>2
    <3>2. admitted[i] <= admitted[j]
      BY <1>1, <1>4, <3>1 DEF DequeInv
    <3> QED
      BY <1>5, <3>1, <3>2
  <2> QED
    BY <2>1, <2>2
<1>9. \A i \in 1..M + 1 : window'[i] = admitted'[((L + 1) - (M + 1)) + i]
  <2> TAKE i \in 1..M + 1
  <2>1. CASE i = M + 1
    <3>1. ((L + 1) - (M + 1)) + i = L + 1
      BY <2>1
    <3> QED
      BY <1>5, <2>1, <3>1
  <2>2. CASE i # M + 1
    <3>1. i \in 1..M /\ (L - M) + i \in 1..L /\ ((L + 1) - (M + 1)) + i = (L - M) + i
      BY <1>4, <2>2
    <3>2. window[i] = admitted[(L - M) + i]
      BY <1>1, <1>4, <3>1 DEF DequeInv
    <3> QED
      BY <1>5, <3>1, <3>2
  <2> QED
    BY <2>1, <2>2
<1>10. ASSUME NEW u \in 0..LastTime
       PROVE  AdmittedIn(u)' <= Limit
  <2> DEFINE in == {i \in 1..L : admitted[i] \in u - Period..u}
             inNow == {i \in 1..L + 1 : admitted'[i] \in u - Period..u}
  <2>1. AdmittedIn(u) = Cardinality(in) /\ AdmittedIn(u)' = Cardinality(inNow)
    BY <1>4, <1>5 DEF AdmittedIn
  <2>2. u \in Int /\ Period \in Int
    BY LimiterNumbers
  <2>3. CASE u < e
    <3>1. inNow = in
      BY <1>5, <1>7, <2>2, <2>3
    <3> QED
      BY <1>1, <2>1, <3>1 DEF DequeInv
  <2>4. CASE ~(u < e)
    <3> DEFINE last == (L - M) + 1..L + 1
    <3>1. inNow \subseteq last
      <4>1. ASSUME NEW i \in 1..L - M PROVE i \notin inNow
        <5>1. i \in 1..L /\ admitted'[i] = admitted[i]
          BY <1>4, <1>5
        <5>2. admitted[i] \in Int /\ admitted[i] + Period < e
          BY <1>6, <5>1
        <5>3. ~(u - Period <= admitted[i])
          BY <2>2, <2>4, <5>2
        <5> QED
          BY <5>1, <5>3
      <4>2. \A i \in inNow : i \in 1..L + 1
        OBVIOUS
      <4> HIDE DEF inNow
      <4>3. \A i \in 1..L + 1 : i \notin 1..L - M => i \in last
        BY <1>4
      <4> QED
        BY <4>1, <4>2, <4>3
    <3>2. IsFiniteSet(last) /\ Cardinality(last) = M + 1
      BY <1>4, FS_Interval
    <3> HIDE DEF inNow, last
    <3>3. Cardinality(inNow) <= M + 1 /\ Cardinality(inNow) \in Nat
      BY <3>1, <3>2, FS_Subset, FS_CardinalityType
    <3>4. Limit \in Nat
      BY LimiterNumbers
    <3> QED
      BY <1>4, <2>1, <3>3, <3>4
  <2> QED
    BY <2>3, <2>4
<1>11. DequeInv'
  <2>1. /\ Len(window') <= Len(admitted')
        /\ \A i \in 1..Len(window') :
             window'[i] = admitted'[(Len(admitted') - Len(window')) + i]
    BY <1>4, <1>5, <1>9
  <2>2. \A i \in 1..L + 1 : admitted'[i] <= time'
    BY <1>1, <1>4, <1>5, <1>7 DEF DequeInv
  <2>3. \A i \in 1..(L + 1) - (M + 1) : admitted'[i] + Period < time'
    <3> TAKE i \in 1..(L + 1) - (M + 1)
    <3>1. i \in 1..L /\ i \in 1..L - M
      BY <1>4
    <3> QED
      BY <1>1, <1>4, <1>5, <3>1 DEF DequeInv
  <2> QED
    BY <1>5, <1>8, <1>10, <2>1, <2>2, <2>3 DEF DequeInv
<1> QED
  BY <1>3, <1>11 DEF SequentialInv

(* Nothing was admitted at first.                                          *)
LEMMA InitSequential == LimiterInit => SequentialInv
<1> SUFFICES ASSUME LimiterInit
             PROVE  SequentialInv
  OBVIOUS
<1>1. /\ time = 0 /\ window = <<>> /\ admitted = <<>> /\ Len(window) = 0 /\ Len(admitted) = 0
      /\ \A t \in Threads : at[t] = "idle"
  BY DEF LimiterInit
<1>2. \A u \in 0..LastTime : AdmittedIn(u) <= Limit
  <2> TAKE u \in 0..LastTime
  <2>1. {i \in 1..Len(admitted) : admitted[i] \in u - Period..u} = {}
    BY <1>1
  <2>2. AdmittedIn(u) = 0
    BY <2>1, FS_EmptySet DEF AdmittedIn
  <2> QED
    BY <2>2, RateLimiterAssumption
<1> QED
  BY <1>1, <1>2 DEF SequentialInv, DequeInv

(* Every step after which there is still one thread.                       *)
LEMMA StepSequential ==
  LimiterTypeOK /\ SequentialInv /\ Sequential /\ Sequential' /\ [LimiterNext]_limiterVars
    => SequentialInv'
<1> SUFFICES ASSUME LimiterTypeOK, SequentialInv, Sequential, Sequential',
                    [LimiterNext]_limiterVars
             PROVE  SequentialInv'
  OBVIOUS
<1>1. ASSUME NEW t \in Threads, Arrive(t) \/ Serve(t)
      PROVE  SequentialInv'
  BY <1>1, ArriveKeeps, LookKeeps, PopKeeps, AdmitKeeps DEF Serve
<1>2. CASE UNCHANGED limiterVars
  BY <1>2 DEF limiterVars, SequentialInv, DequeInv, Serving, AdmittedIn
<1> QED
  BY <1>1, <1>2, TickKeeps DEF LimiterNext

(* The limit is exact then: what is refused finds the limit in its window.  *)
LEMMA SequentialIsExact == LimiterTypeOK /\ SequentialInv => Exact
<1> SUFFICES ASSUME LimiterTypeOK, SequentialInv, NEW t \in Threads, at[t] = "refused"
             PROVE  AdmittedIn(now[t]) >= Limit
  BY DEF Exact, SequentialInv, DequeInv
<1>1. Serving(t) /\ DequeInv
  BY DEF SequentialInv
<1>2. PICK L \in Nat, M \in Nat, e \in Int :
        L = Len(admitted) /\ M = Len(window) /\ e = now[t] /\ M <= L /\ M >= Limit /\ M > 0
  BY <1>1, LimiterNumbers DEF DequeInv, Serving
<1> DEFINE in == {i \in 1..L : admitted[i] \in e - Period..e}
           last == (L - M) + 1..L
<1>3. AdmittedIn(now[t]) = Cardinality(in)
  BY <1>2 DEF AdmittedIn
<1>4. last \subseteq in
  <2> SUFFICES ASSUME NEW i \in last PROVE i \in in
    OBVIOUS
  <2>1. i \in 1..L /\ (L - M) + 1 \in 1..L /\ (L - M) + 1 <= i /\ 1 \in 1..M
    BY <1>2
  <2>2. admitted[(L - M) + 1] <= admitted[i] /\ window[1] = admitted[(L - M) + 1]
    BY <1>1, <1>2, <2>1 DEF DequeInv
  <2>3. e - window[1] <= Period /\ admitted[i] <= e
    BY <1>1, <1>2, <2>1, LimiterNumbers DEF Serving
  <2>4. window[1] \in Int /\ admitted[i] \in Int /\ Period \in Int
    BY <1>2, <2>1, LimiterNumbers
  <2>5. admitted[i] \in e - Period..e
    BY <2>2, <2>3, <2>4
  <2> QED
    BY <2>1, <2>5
<1>5. IsFiniteSet(last) /\ Cardinality(last) = M /\ IsFiniteSet(in)
  <2>1. IsFiniteSet(last) /\ Cardinality(last) = M
    <3>1. PICK a \in Int : a = (L - M) + 1
      OBVIOUS
    <3>2. IsFiniteSet(a..L) /\ Cardinality(a..L) = IF a > L THEN 0 ELSE L - a + 1
      BY FS_Interval
    <3> QED
      BY <1>2, <3>1, <3>2
  <2>2. IsFiniteSet(1..L) /\ in \in SUBSET (1..L)
    BY <1>2, FS_Interval
  <2> HIDE DEF in, last
  <2>3. IsFiniteSet(in)
    BY <2>2, FS_Subset
  <2> QED
    BY <2>1, <2>3
<1> HIDE DEF in, last
<1>6. M <= Cardinality(in) /\ Cardinality(in) \in Nat
  BY <1>4, <1>5, FS_Subset, FS_CardinalityType
<1>7. Limit \in Nat
  BY LimiterNumbers
<1> QED
  BY <1>2, <1>3, <1>6, <1>7

(* As long as no two requests of a client overlap, no window of the period  *)
(* has more admitted requests than the limit, and none is refused without   *)
(* that many (api.py:133-139).                                              *)
THEOREM LimitIsExact == LimiterSpec => ExactWhenSequential
<1>1. LimiterSpec => []LimiterTypeOK
  BY LimiterTypeCorrect
<1>2. LimiterSpec /\ []Sequential => []SequentialInv
  BY <1>1, InitSequential, StepSequential, PTL DEF LimiterSpec
<1>3. LimiterSpec /\ []Sequential => []Exact
  BY <1>1, <1>2, SequentialIsExact, PTL
<1> QED
  BY <1>3, PTL DEF ExactWhenSequential, Sequential, Exact

===============================================================================
