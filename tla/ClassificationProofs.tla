-------------------------- MODULE ClassificationProofs --------------------------
(***************************************************************************)
(* Proofs about Workflow, for every list of differently named steps,       *)
(* whichever of them raise and with a callback or without; and about       *)
(* Classification, for every set of policies and data sets, every size of  *)
(* the test set, every training error, whatever the significance test      *)
(* finds, and whichever agents raise.                                      *)
(***************************************************************************)
EXTENDS Classification, SequenceTheorems, FiniteSetTheorems, TLAPS

-------------------------------------------------------------------------------
\* The runner.

\* A step has one place in the list.
LEMMA PlaceInList ==
  ASSUME NEW i \in 1..Len(Steps)
  PROVE  Place(Steps[i]) = i /\ Steps[i] \in StepNames
BY WorkflowAssumption DEF Place, StepNames

\* The step whose turn it is.
LEMMA StepAtTurn ==
  ASSUME RunTypeOK, NEW s, At(s)
  PROVE  /\ turn \in 1..Len(Steps) /\ s = Steps[turn] /\ s \in StepNames /\ Place(s) = turn
         /\ Ok(s) \in Events /\ Failed(s) \in Events
         /\ Len(Steps) \in Nat
<1>1. Len(Steps) \in Nat
  BY WorkflowAssumption, LenProperties
<1>2. turn \in 1..Len(Steps) /\ s = Steps[turn]
  BY <1>1 DEF At, RunTypeOK
<1>3. s \in StepNames /\ Place(s) = turn
  BY <1>2, PlaceInList
<1> QED
  BY <1>1, <1>2, <1>3 DEF Ok, Failed, Events

\* What a step adds to the trace names it, and says at most that it failed.
LEMMA EventsAdded ==
  ASSUME RunTypeOK, NEW s, At(s),
         NEW events \in {<<Ok(s)>>, <<Failed(s)>>, <<Ok(s), Failed(s)>>},
         trace' = trace \o events
  PROVE  /\ trace' \in Seq(Events)
         /\ Len(trace) \in Nat /\ Len(trace') \in Nat /\ Len(trace) < Len(trace')
         /\ \A m \in 1..Len(trace) : trace'[m] = trace[m]
         /\ \A m \in 1..Len(trace') : m > Len(trace) => trace'[m] \in {Ok(s), Failed(s)}
         /\ events # <<Ok(s)>> => trace'[Len(trace')] = Failed(s)
         /\ events = <<Ok(s)>> => \A m \in 1..Len(trace') : m > Len(trace) => trace'[m] = Ok(s)
<1>1. trace \in Seq(Events) /\ Ok(s) \in Events /\ Failed(s) \in Events
  BY StepAtTurn DEF RunTypeOK
<1>2. CASE events = <<Ok(s)>>
  BY <1>1, <1>2
<1>3. CASE events = <<Failed(s)>>
  BY <1>1, <1>3
<1>4. CASE events = <<Ok(s), Failed(s)>>
  <2>1. /\ Len(events) = 2 /\ events[1] = Ok(s) /\ events[2] = Failed(s)
        /\ events \in Seq(Events)
    BY <1>1, <1>4
  <2>2. /\ trace \o events \in Seq(Events)
        /\ Len(trace \o events) = Len(trace) + Len(events)
        /\ \A m \in 1..Len(trace) + Len(events) :
             (trace \o events)[m] =
               IF m <= Len(trace) THEN trace[m] ELSE events[m - Len(trace)]
    BY <1>1, <2>1, ConcatProperties
  <2>3. /\ trace' \in Seq(Events) /\ Len(trace) \in Nat /\ Len(trace') = Len(trace) + 2
        /\ \A m \in 1..Len(trace) : trace'[m] = trace[m]
        /\ trace'[Len(trace) + 1] = Ok(s) /\ trace'[Len(trace) + 2] = Failed(s)
    <3>1. Len(trace) \in Nat
      BY <1>1, LenProperties
    <3>2. (Len(trace) + 1) - Len(trace) = 1 /\ (Len(trace) + 2) - Len(trace) = 2
      BY <3>1
    <3> QED
      BY <2>1, <2>2, <3>1, <3>2
  <2>4. \A m \in 1..Len(trace') : m > Len(trace) => m = Len(trace) + 1 \/ m = Len(trace) + 2
    BY <2>3
  <2>5. Len(trace') \in Nat /\ Len(trace) < Len(trace')
    BY <2>3
  <2>6. \A m \in 1..Len(trace') : m > Len(trace) => trace'[m] \in {Ok(s), Failed(s)}
    BY <2>3, <2>4
  <2>7. events # <<Ok(s)>>
    BY <1>4
  <2> QED
    BY <2>3, <2>5, <2>6, <2>7
<1> QED
  BY <1>2, <1>3, <1>4

\* After a step the run goes on with the next one, or has ended.
LEMMA TurnMoves ==
  ASSUME RunTypeOK, NEW s, At(s), Continue \/ Abort
  PROVE  /\ turn' \in 1..Len(Steps) + 1
         /\ ending' \in {"none", "finished", "aborted"}
         /\ ending' = "aborted" => turn' = turn
         /\ ending' # "aborted" => turn' = turn + 1
         /\ ending' = "finished" => turn = Len(Steps)
BY StepAtTurn DEF Continue, Abort

\* A step that is recorded keeps the record.  Failed steps are among the errors.
LEMMA RecordKeeps ==
  ASSUME RunIInv, NEW s, At(s), Continue \/ Abort, sink' = sink,
         NEW events \in {<<Ok(s)>>, <<Failed(s)>>, <<Ok(s), Failed(s)>>},
         trace' = trace \o events,
         ending' = "aborted" => events # <<Ok(s)>>,
         errors' = IF events = <<Ok(s)>> THEN errors ELSE Append(errors, s)
  PROVE  RunIInv'
<1> DEFINE failed == events # <<Ok(s)>>
<1>1. RunTypeOK /\ TurnsInv /\ RunOnRecord /\ ending = "none"
  BY DEF RunIInv, At
<1>2. /\ turn \in 1..Len(Steps) /\ s = Steps[turn] /\ s \in StepNames /\ Place(s) = turn
      /\ Len(Steps) \in Nat
  BY <1>1, StepAtTurn
<1>3. /\ trace' \in Seq(Events)
      /\ Len(trace) \in Nat /\ Len(trace') \in Nat /\ Len(trace) < Len(trace')
      /\ \A m \in 1..Len(trace) : trace'[m] = trace[m]
      /\ \A m \in 1..Len(trace') : m > Len(trace) => trace'[m] \in {Ok(s), Failed(s)}
      /\ failed => trace'[Len(trace')] = Failed(s)
      /\ ~failed => \A m \in 1..Len(trace') : m > Len(trace) => trace'[m] = Ok(s)
  BY <1>1, EventsAdded
<1>4. /\ errors' \in Seq(StepNames) /\ Len(errors) \in Nat
      /\ \A k \in 1..Len(errors) : errors'[k] = errors[k]
      /\ Len(errors') = IF failed THEN Len(errors) + 1 ELSE Len(errors)
      /\ failed => errors'[Len(errors) + 1] = s
  BY <1>1, <1>2 DEF RunTypeOK
<1>5. /\ turn' \in 1..Len(Steps) + 1
      /\ ending' \in {"none", "finished", "aborted"}
      /\ ending' = "aborted" => turn' = turn
      /\ ending' # "aborted" => turn' = turn + 1
      /\ ending' = "finished" => turn = Len(Steps)
  BY <1>1, TurnMoves
<1>6. /\ \A m \in 1..Len(trace) : Place(trace[m].step) < turn
      /\ \A k \in 1..Len(errors) : Place(errors[k]) < turn
  BY <1>1 DEF TurnsInv
<1>7. \A m \in 1..Len(trace) : trace[m].step \in StepNames /\ Place(trace[m].step) \in Int
  <2> SUFFICES ASSUME NEW m \in 1..Len(trace)
               PROVE  trace[m].step \in StepNames /\ Place(trace[m].step) \in Int
    OBVIOUS
  <2>1. trace[m] \in Events
    BY <1>1, <1>3 DEF RunTypeOK
  <2>2. trace[m].step \in StepNames
    BY <2>1 DEF Events
  <2>3. PICK i \in 1..Len(Steps) : trace[m].step = Steps[i]
    BY <2>2 DEF StepNames
  <2> QED
    BY <1>2, <2>2, <2>3, PlaceInList
<1>8. /\ Ok(s).step = s /\ Failed(s).step = s /\ Ok(s) # Failed(s)
      /\ \A t : Failed(t) = Failed(s) => t = s
      /\ \A t : Failed(t) # Ok(s)
  BY DEF Ok, Failed
<1> HIDE DEF failed
<1>9. \A m \in 1..Len(trace') :
        \/ m \in 1..Len(trace) /\ trace'[m] = trace[m]
        \/ m > Len(trace) /\ trace'[m].step = s
  BY <1>3, <1>8
<1>10. Len(trace') \in 1..Len(trace') /\ trace'[Len(trace')].step = s
  BY <1>3, <1>9
<1>11. RunTypeOK'
  BY <1>1, <1>3, <1>4, <1>5 DEF RunTypeOK
<1>12. \A i \in 1..Len(Steps) : i <= turn => \E m \in 1..Len(trace') : trace'[m].step = Steps[i]
  <2> SUFFICES ASSUME NEW i \in 1..Len(Steps), i <= turn
               PROVE  \E m \in 1..Len(trace') : trace'[m].step = Steps[i]
    OBVIOUS
  <2>1. CASE i = turn
    BY <2>1, <1>2, <1>10
  <2>2. CASE i < turn
    <3>1. PICK m \in 1..Len(trace) : trace[m].step = Steps[i]
      BY <2>2, <1>1 DEF TurnsInv
    <3> QED
      BY <3>1, <1>3
  <2>3. i = turn \/ i < turn
    BY <1>2
  <2> QED
    BY <2>1, <2>2, <2>3
<1>13. TurnsInv'
  <2>1. \A k \in 1..Len(errors) : Place(errors[k]) \in Int
    <3> SUFFICES ASSUME NEW k \in 1..Len(errors)
                 PROVE  Place(errors[k]) \in Int
      OBVIOUS
    <3>1. errors[k] \in StepNames
      BY <1>1, <1>4 DEF RunTypeOK
    <3>2. PICK i \in 1..Len(Steps) : errors[k] = Steps[i]
      BY <3>1 DEF StepNames
    <3> QED
      BY <1>2, <3>2, PlaceInList
  <2>2. \A m \in 1..Len(trace') : Place(trace'[m].step) <= turn
    BY <1>2, <1>6, <1>7, <1>9
  <2>3. \A k \in 1..Len(errors') : Place(errors'[k]) <= turn
    BY <1>2, <1>4, <1>6, <2>1
  <2>4. ending' = "none" => /\ \A m \in 1..Len(trace') : Place(trace'[m].step) < turn'
                            /\ \A k \in 1..Len(errors') : Place(errors'[k]) < turn'
    <3>1. \A m \in 1..Len(trace') : Place(trace'[m].step) \in Int
      BY <1>2, <1>7, <1>9
    <3>2. \A k \in 1..Len(errors') : Place(errors'[k]) \in Int
      BY <1>2, <1>4, <2>1
    <3> QED
      BY <1>2, <1>5, <2>2, <2>3, <3>1, <3>2
  <2>5. \A i \in 1..Len(Steps) : i < turn' => \E m \in 1..Len(trace') : trace'[m].step = Steps[i]
    <3>1. \A i \in 1..Len(Steps) : i < turn' => i <= turn
      BY <1>2, <1>5
    <3> QED
      BY <1>12, <3>1
  <2>6. ending' = "finished" => turn' = Len(Steps) + 1
    BY <1>5
  <2> QED
    BY <2>4, <2>5, <2>6 DEF TurnsInv, Place
<1>14. ending' = "finished" =>
         \A t \in StepNames : \E m \in 1..Len(trace') : trace'[m].step = t
  <2> SUFFICES ASSUME ending' = "finished", NEW t \in StepNames
               PROVE  \E m \in 1..Len(trace') : trace'[m].step = t
    OBVIOUS
  <2>1. PICK i \in 1..Len(Steps) : t = Steps[i]
    BY DEF StepNames
  <2>2. i <= turn
    BY <1>2, <1>5
  <2> QED
    BY <1>12, <2>1, <2>2
<1>15. \A m, n \in 1..Len(trace') : m < n => Place(trace'[m].step) <= Place(trace'[n].step)
  <2> SUFFICES ASSUME NEW m \in 1..Len(trace'), NEW n \in 1..Len(trace'), m < n
               PROVE  Place(trace'[m].step) <= Place(trace'[n].step)
    OBVIOUS
  <2>1. CASE n \in 1..Len(trace)
    <3>1. m \in 1..Len(trace)
      BY <2>1, <1>3
    <3>2. trace'[m] = trace[m] /\ trace'[n] = trace[n]
      BY <2>1, <3>1, <1>3
    <3> QED
      BY <2>1, <3>1, <3>2, <1>1 DEF RunOnRecord
  <2>2. CASE n > Len(trace) /\ trace'[n].step = s
    <3>1. Place(trace'[m].step) <= turn
      BY <1>2, <1>6, <1>7, <1>9
    <3> QED
      BY <2>2, <3>1, <1>2
  <2> QED
    BY <1>9, <2>1, <2>2
<1>16. \A k, l \in 1..Len(errors') : k < l => Place(errors'[k]) < Place(errors'[l])
  <2> SUFFICES ASSUME NEW k \in 1..Len(errors'), NEW l \in 1..Len(errors'), k < l
               PROVE  Place(errors'[k]) < Place(errors'[l])
    OBVIOUS
  <2>1. k \in 1..Len(errors) /\ errors'[k] = errors[k] /\ k < Len(errors')
    BY <1>4
  <2>2. CASE l \in 1..Len(errors)
    <3>1. errors'[l] = errors[l]
      BY <2>2, <1>4
    <3> QED
      BY <2>1, <2>2, <3>1, <1>1 DEF RunOnRecord
  <2>3. CASE l = Len(errors) + 1 /\ failed
    <3>1. errors'[l] = s
      BY <2>3, <1>4
    <3> QED
      BY <2>1, <3>1, <1>2, <1>6
  <2> QED
    BY <2>2, <2>3, <1>4
<1>17. \A t \in StepNames :
         (\E k \in 1..Len(errors') : errors'[k] = t)
           <=> (\E m \in 1..Len(trace') : trace'[m] = Failed(t))
  <2> SUFFICES ASSUME NEW t \in StepNames
               PROVE  (\E k \in 1..Len(errors') : errors'[k] = t)
                        <=> (\E m \in 1..Len(trace') : trace'[m] = Failed(t))
    OBVIOUS
  <2>1. (\E k \in 1..Len(errors) : errors[k] = t)
          <=> (\E m \in 1..Len(trace) : trace[m] = Failed(t))
    BY <1>1 DEF RunOnRecord
  <2>2. (\E k \in 1..Len(errors') : errors'[k] = t)
          <=> (\E k \in 1..Len(errors) : errors[k] = t) \/ (failed /\ t = s)
    BY <1>4
  <2>3. (\E m \in 1..Len(trace') : trace'[m] = Failed(t))
          <=> (\E m \in 1..Len(trace) : trace[m] = Failed(t)) \/ (failed /\ t = s)
    BY <1>3, <1>8, <1>10
  <2> QED
    BY <2>1, <2>2, <2>3
<1>18. RunOnRecord'
  BY <1>14, <1>15, <1>16, <1>17 DEF RunOnRecord, Place, StepNames, Failed
<1> QED
  BY <1>11, <1>13, <1>18 DEF RunIInv

\* A run starts with nothing on record.
LEMMA InitRunIInv == RunInit => RunIInv
<1> SUFFICES ASSUME RunInit
             PROVE  RunIInv
  OBVIOUS
<1>1. Len(Steps) \in Nat /\ Len(Steps) >= 1
  BY WorkflowAssumption, LenProperties, EmptySeq
<1>2. trace = <<>> /\ errors = <<>> /\ turn = 1 /\ ending = "none" /\ sink \in Sinks
  BY DEF RunInit
<1>3. RunTypeOK
  BY <1>1, <1>2, EmptySeq DEF RunTypeOK
<1>4. TurnsInv /\ RunOnRecord
  BY <1>1, <1>2 DEF TurnsInv, RunOnRecord
<1> QED
  BY <1>3, <1>4 DEF RunIInv

\* Every step that returns or raises, with its callback, keeps the record.
LEMMA StepRunIInv == RunIInv /\ [RunNext]_runVars => RunIInv'
<1> SUFFICES ASSUME RunIInv, [RunNext]_runVars
             PROVE  RunIInv'
  OBVIOUS
<1>1. CASE UNCHANGED runVars
  BY <1>1 DEF runVars, RunIInv, RunTypeOK, TurnsInv, RunOnRecord
<1>2. ASSUME NEW s \in StepNames, Returned(s)
      PROVE  RunIInv'
  <2> DEFINE events == <<Ok(s)>>
  <2>1. /\ At(s) /\ Continue /\ sink' = sink /\ errors' = errors
        /\ events \in {<<Ok(s)>>, <<Failed(s)>>, <<Ok(s), Failed(s)>>}
        /\ ending' # "aborted"
    BY <1>2 DEF Returned, Continue
  <2>2. trace' = trace \o events
    <3>1. trace \in Seq(Events) /\ Ok(s) \in Events
      BY <2>1, StepAtTurn DEF RunIInv, RunTypeOK
    <3> QED
      BY <1>2, <3>1 DEF Returned
  <2> QED
    BY <2>1, <2>2, RecordKeeps
<1>3. ASSUME NEW s \in StepNames, EmitRaised(s) \/ Raise(s)
      PROVE  RunIInv'
  <2>1. PICK events \in {<<Failed(s)>>, <<Ok(s), Failed(s)>>} : At(s) /\ Record(s, events)
    BY <1>3 DEF EmitRaised, Raise
  <2>2. events # <<Ok(s)>>
    BY DEF Ok, Failed
  <2> QED
    BY <2>1, <2>2, RecordKeeps DEF Record
<1> QED
  BY <1>1, <1>2, <1>3 DEF RunNext, Return

THEOREM RunInvariant == RunSpec => []RunIInv
BY InitRunIInv, StepRunIInv, PTL DEF RunSpec

\* Failures are isolated and none is forgotten: every step of a run that came to
\* its end was executed, and its errors are the failures its trace shows
\* (workflow.py:74-106).
THEOREM RunsOnRecord == RunSpec => []RunOnRecord
BY RunInvariant, PTL DEF RunIInv

-------------------------------------------------------------------------------
\* The classification pipeline.

\* A run of the pipeline is a run of the workflow: what is proved of every list
\* of steps holds of these agents.
THEOREM ClassRunsWorkflow == ClassSpec => RunSpec
<1>1. ClassInit => RunInit
  BY DEF ClassInit
<1>2. [ClassNext]_classVars => [RunNext]_runVars
  <2> SUFFICES ASSUME [ClassNext]_classVars
               PROVE  [RunNext]_runVars
    OBVIOUS
  <2>1. {"requirements", "formulation", "classical_baseline", "quantum_planner",
         "execution", "verification", "auditor", "governance"} \subseteq StepNames
    <3>1. Steps = Agents /\ Len(Steps) = 8
      BY ClassificationAssumption DEF Agents
    <3>2. /\ Steps[1] = "requirements" /\ Steps[2] = "formulation"
          /\ Steps[3] = "classical_baseline" /\ Steps[4] = "quantum_planner"
          /\ Steps[5] = "execution" /\ Steps[6] = "verification"
          /\ Steps[7] = "auditor" /\ Steps[8] = "governance"
      BY <3>1 DEF Agents
    <3>3. {1, 2, 3, 4, 5, 6, 7, 8} \subseteq 1..Len(Steps)
      BY <3>1
    <3> QED
      BY <3>2, <3>3 DEF StepNames
  <2>2. CASE UNCHANGED classVars
    BY <2>2 DEF classVars
  <2>3. CASE ClassNext
    BY <2>1, <2>3 DEF ClassNext, RunNext, Understand, Baseline, Planner, SkipKernel,
                      TrainKernel, Verify, Audit, Govern
  <2> QED
    BY <2>2, <2>3
<1> QED
  BY <1>1, <1>2, PTL DEF ClassSpec, RunSpec

\* What the runner has on record of such a run.
LEMMA ClassRunIInv == ClassSpec => []RunIInv
BY ClassRunsWorkflow, RunInvariant, PTL

\* The turn of every agent, and what the runner makes of a step that returned
\* or raised: it goes on by one or stops, forgets no failure and adds no other.
LEMMA StepMoves ==
  ASSUME RunIInv, NEW s, Return(s) \/ Raise(s)
  PROVE  /\ turn \in 1..8 /\ turn' \in {turn, turn + 1} /\ s = Agents[turn]
         /\ Failures \subseteq Failures' /\ Failures' \subseteq Failures \cup {s}
         /\ Raise(s) => s \in Failures'
<1>1. At(s) /\ turn \in 1..8 /\ s = Agents[turn] /\ s \in StepNames
  <2>1. At(s) /\ Len(Steps) = 8 /\ Steps = Agents
    BY ClassificationAssumption DEF Agents, Return, Raise, Returned, EmitRaised
  <2> QED
    BY <2>1 DEF At, StepNames, RunIInv, RunTypeOK
<1>2. turn' \in {turn, turn + 1} /\ errors' \in {errors, Append(errors, s)}
  BY DEF Return, Raise, Returned, EmitRaised, Record, Continue, Abort
<1>3. Raise(s) => errors' = Append(errors, s)
  BY DEF Raise, Record
<1>4. errors \in Seq(StepNames)
  BY DEF RunIInv, RunTypeOK
<1>5. /\ Len(Append(errors, s)) = Len(errors) + 1
      /\ \A n \in 1..Len(errors) : Append(errors, s)[n] = errors[n]
      /\ Append(errors, s)[Len(errors) + 1] = s
      /\ Len(errors) \in Nat
  BY <1>1, <1>4
<1>6. Failures' = {errors'[n] : n \in 1..Len(errors')}
  BY DEF Failures
<1>7. errors' = Append(errors, s) => Failures' = Failures \cup {s}
  <2> SUFFICES ASSUME errors' = Append(errors, s)
               PROVE  Failures' = Failures \cup {s}
    OBVIOUS
  <2>1. 1..Len(errors') = 1..Len(errors) \cup {Len(errors) + 1}
    BY <1>5
  <2> QED
    BY <1>5, <1>6, <2>1 DEF Failures
<1>8. errors' = errors => Failures' = Failures
  BY <1>6 DEF Failures
<1> QED
  BY <1>1, <1>2, <1>3, <1>7, <1>8

\* Which agent has which turn.
LEMMA TurnOf ==
  ASSUME RunIInv, NEW s, Return(s) \/ Raise(s)
  PROVE  /\ turn = 3 <=> s = "classical_baseline"
         /\ turn = 4 <=> s = "quantum_planner"
         /\ turn = 5 <=> s = "execution"
         /\ turn = 6 <=> s = "verification"
         /\ turn = 7 <=> s = "auditor"
         /\ turn = 8 <=> s = "governance"
BY StepMoves DEF Agents
-----------------------------------------------------------------------------
(* The split.                                                              *)

\* An order of n samples has a sample in each of its n places, so that the k
\* latest are not none.
LEMMA RankingIsOnto ==
  ASSUME NEW times \in Seq(Nat), NEW r \in Rankings(times), NEW p \in 1..Len(times)
  PROVE  \E i \in 1..Len(times) : r[i] = p
<1> DEFINE places == 1..Len(times)
<1>1. Len(times) \in Nat
  OBVIOUS
<1>2. IsFiniteSet(places)
  BY <1>1, FS_Interval
<1>3. r \in Injection(places, places)
  BY DEF Rankings, Injection, IsInjective
<1>4. r \in Surjection(places, places)
  BY <1>2, <1>3, FS_Injection
<1> QED
  BY <1>4 DEF Surjection

\* Whatever the times, the order equal ones are ranked in and the size of the
\* test set: the two sides are disjoint, cover the data, the test set is not
\* empty, and nothing trained on is later than anything tested on.
LEMMA SplitIsTemporal ==
  ASSUME NEW times \in Times, NEW k \in TestSizes, NEW r \in Rankings(times)
  PROVE  LET s == TemporalSplit(r, k)
         IN /\ s.train \cup s.test = 1..Len(times)
            /\ s.test # {} /\ Valid(s)
            /\ \A i \in s.train, j \in s.test : times[i] <= times[j]
<1> DEFINE n == Len(times)
           s == TemporalSplit(r, k)
<1>1. times \in Seq(Nat) /\ n \in Nat /\ k \in 1..n
  BY ClassificationAssumption
<1>2. DOMAIN r = 1..n /\ \A i \in 1..n : r[i] \in 1..n
  BY DEF Rankings
<1>3. Cardinality(DOMAIN r) = n
  <2>1. Cardinality(1..n) = IF 1 > n THEN 0 ELSE n - 1 + 1
    <3>1. 1 \in Int /\ n \in Int
      BY <1>1
    <3> HIDE DEF n
    <3> QED
      BY <3>1, FS_Interval
  <2> QED
    BY <1>1, <1>2, <2>1
<1>4. /\ s.rank = r
      /\ s.test = {i \in 1..n : r[i] > n - k}
      /\ s.train = 1..n \ s.test
  BY <1>2, <1>3 DEF TemporalSplit
<1>5. s.test # {}
  <2>1. n \in 1..n
    BY <1>1
  <2>2. PICK i \in 1..n : r[i] = n
    BY <1>1, <2>1, RankingIsOnto
  <2> QED
    BY <1>1, <1>4, <2>2
<1>6. ASSUME NEW i \in s.train, NEW j \in s.test
      PROVE  r[i] < r[j] /\ times[i] <= times[j]
  <2>1. i \in 1..n /\ j \in 1..n /\ r[i] < r[j]
    BY <1>1, <1>2, <1>4, <1>6
  <2>2. ~(times[j] < times[i])
    BY <1>2, <2>1 DEF Rankings
  <2>3. times[i] \in Nat /\ times[j] \in Nat
    BY <1>1, <2>1, ElementOfSeq
  <2> QED
    BY <2>1, <2>2, <2>3
<1>7. s.train \cap s.test = {} /\ s.train \cup s.test = 1..n
  BY <1>4
<1> HIDE DEF s
<1> QED
  BY <1>4, <1>5, <1>6, <1>7 DEF Valid, s

LEMMA DataIsHeldOut ==
  ASSUME DataInv
  PROVE  HoldoutIsLatest
BY SplitIsTemporal DEF DataInv, HoldoutIsLatest

LEMMA SplitsAreValid ==
  ASSUME DataInv, NEW s \in split
  PROVE  Valid(s)
BY SplitIsTemporal DEF DataInv
-----------------------------------------------------------------------------
(* The inductive invariant.                                                *)

LEMMA InitClassInv ==
  ASSUME ClassInit
  PROVE  ClassInv
<1>1. turn = 1 /\ DOMAIN models = {} /\ DOMAIN reports = {} /\ dataset = {} /\ split = {}
      /\ plan = {} /\ audit = {}
  BY DEF ClassInit, RunInit, None
<1> QED
  BY <1>1 DEF ClassInv, DataInv, ModelsInv, ReportsInv, AccountInv, ModelNames, Baselines

\* The names of a dict that was updated, and what it holds.
LEMMA UpdateAdds ==
  ASSUME NEW d, NEW f
  PROVE  /\ DOMAIN Update(d, f) = DOMAIN d \cup DOMAIN f
         /\ \A m \in DOMAIN f : Update(d, f)[m] = f[m]
         /\ \A m \in DOMAIN d \ DOMAIN f : Update(d, f)[m] = d[m]
BY DEF Update

\* A step that leaves the data, the models and the reports alone accounts for
\* its turn if the turn is none of those that do.
LEMMA StateKept ==
  ASSUME RunIInv, ClassInv, NEW s, Return(s) \/ Raise(s),
         UNCHANGED <<request, dataset, split, models, reports>>,
         "simulate" \in plan' => request.gate /\ request.sim,
         audit' = audit \/ turn = 7,
         turn \in {3, 6} => Raise(s)
  PROVE  ClassInv'
<1>1. /\ turn \in 1..8 /\ turn' \in {turn, turn + 1} /\ s = Agents[turn]
      /\ Failures \subseteq Failures'
      /\ Raise(s) => s \in Failures'
  BY StepMoves
<1>2. DataInv'
  BY DEF ClassInv, DataInv
<1>3. ModelsInv'
  BY DEF ClassInv, ModelsInv
<1>4. ReportsInv'
  BY <1>1 DEF ClassInv, ReportsInv, Findings, Comparators
<1>5. AccountInv'
  <2>1. turn' > 3 => Baselines \subseteq DOMAIN models \/ "classical_baseline" \in Failures'
    BY <1>1, TurnOf DEF ClassInv, AccountInv
  <2>2. turn' > 6 => DOMAIN reports = DOMAIN models \/ "verification" \in Failures'
    BY <1>1, TurnOf DEF ClassInv, AccountInv
  <2> QED
    BY <1>1, <2>1, <2>2 DEF ClassInv, AccountInv
<1> QED
  BY <1>2, <1>3, <1>4, <1>5 DEF ClassInv

\* Before the verification there are no reports.
LEMMA BaselineClassInv ==
  ASSUME RunIInv, ClassInv, Baseline
  PROVE  ClassInv'
<1>1. turn = 3 /\ turn' \in {turn, turn + 1} /\ Failures \subseteq Failures'
  BY StepMoves, TurnOf DEF Baseline
<1>2. DOMAIN reports = {} /\ UNCHANGED <<request, plan, reports, audit>>
  BY <1>1 DEF ClassInv, ReportsInv, Baseline
<1>3. DataInv'
  <2>1. CASE Load
    BY <2>1 DEF Load, DataInv
  <2>2. CASE UNCHANGED <<dataset, split>>
    BY <2>2 DEF ClassInv, DataInv
  <2> QED
    BY <2>1, <2>2 DEF Baseline
<1>4. CASE Raise("classical_baseline") /\ models' = models
  <2>1. "classical_baseline" \in Failures'
    BY <1>4, StepMoves
  <2> QED
    BY <1>1, <1>2, <1>3, <1>4, <2>1 DEF ClassInv, ModelsInv, ReportsInv, AccountInv
<1>5. CASE \E e \in [Baselines -> TrainingErrors] : models' = Update(models, e)
  <2>1. PICK e \in [Baselines -> TrainingErrors] : models' = Update(models, e)
    BY <1>5
  <2>2. /\ DOMAIN models' = DOMAIN models \cup Baselines
        /\ \A m \in Baselines : models'[m] = e[m]
        /\ \A m \in DOMAIN models \ Baselines : models'[m] = models[m]
    <3>1. DOMAIN e = Baselines
      OBVIOUS
    <3>2. /\ DOMAIN Update(models, e) = DOMAIN models \cup DOMAIN e
          /\ \A m \in DOMAIN e : Update(models, e)[m] = e[m]
          /\ \A m \in DOMAIN models \ DOMAIN e : Update(models, e)[m] = models[m]
      BY UpdateAdds
    <3> QED
      BY <2>1, <3>1, <3>2
  <2>3. ModelsInv'
    BY <1>2, <2>2 DEF ClassInv, ModelsInv, ModelNames, Baselines, Quantum
  <2> QED
    BY <1>1, <1>2, <1>3, <2>2, <2>3 DEF ClassInv, ReportsInv, AccountInv
<1> QED
  BY <1>4, <1>5 DEF Baseline

LEMMA PlannerClassInv ==
  ASSUME RunIInv, ClassInv, Planner
  PROVE  ClassInv'
<1>1. turn = 4 /\ (Return("quantum_planner") \/ Raise("quantum_planner"))
  BY TurnOf DEF Planner
<1>2. UNCHANGED <<request, dataset, split, models, reports, audit>>
  BY DEF Planner, state
<1>3. "simulate" \in plan' => request.gate /\ request.sim
  BY DEF Planner, state, ClassInv, ModelsInv
<1> QED
  BY <1>1, <1>2, <1>3, StateKept

\* The kernel is trained after the baselines, where the plan and the policy
\* allow it.
LEMMA TrainClassInv ==
  ASSUME RunIInv, ClassInv, TrainKernel
  PROVE  ClassInv'
<1>1. /\ turn = 5 /\ (Return("execution") \/ Raise("execution"))
      /\ turn' \in {turn, turn + 1} /\ Failures \subseteq Failures'
  BY StepMoves, TurnOf DEF TrainKernel
<1>2. UNCHANGED <<request, dataset, split, plan, reports, audit>>
  BY DEF TrainKernel
<1>3. DOMAIN reports = {}
  BY <1>1 DEF ClassInv, ReportsInv
<1>4. CASE models' = models
  BY <1>1, <1>2, <1>4, StateKept DEF ClassInv, ModelsInv
<1>5. CASE \E e \in TrainingErrors : models' = Update(models, [m \in {Quantum} |-> e])
  <2>1. PICK e \in TrainingErrors : models' = Update(models, [m \in {Quantum} |-> e])
    BY <1>5
  <2>2. /\ DOMAIN models' = DOMAIN models \cup {Quantum}
        /\ models'[Quantum] = e
        /\ \A m \in DOMAIN models \ {Quantum} : models'[m] = models[m]
    BY <2>1, UpdateAdds
  <2>3. request.level >= 2 /\ request.gate /\ request.sim
    BY DEF TrainKernel, MayExecute, Allowed, MinLevel, Actions, ClassInv, ModelsInv
  <2>4. ModelsInv'
    BY <1>2, <2>2, <2>3 DEF ClassInv, ModelsInv, ModelNames, Baselines, Quantum
  <2>5. DataInv'
    BY <1>2 DEF ClassInv, DataInv
  <2> QED
    BY <1>1, <1>2, <1>3, <2>2, <2>4, <2>5 DEF ClassInv, ReportsInv, AccountInv
<1> QED
  BY <1>4, <1>5 DEF TrainKernel

\* Every report verify gives is on one of the models, and says that the split
\* is valid, which it is.
LEMMA VerifyClassInv ==
  ASSUME RunIInv, ClassInv, Verify
  PROVE  ClassInv'
<1>1. turn = 6 /\ turn' \in {turn, turn + 1} /\ Failures \subseteq Failures'
  BY StepMoves, TurnOf DEF Verify
<1>2. CASE Raise("verification") /\ UNCHANGED state
  BY <1>1, <1>2, StateKept DEF state, ClassInv, ModelsInv
<1>3. CASE /\ \E s \in split : reports' \in ReportsOn(s)
           /\ UNCHANGED <<request, dataset, split, plan, models, warned, audit, bundle>>
  <2>1. PICK s \in split : reports' \in ReportsOn(s)
    BY <1>3
  <2>2. PICK found \in Findings :
          reports' = [m \in DOMAIN models |->
                        [feasible |-> Valid(s),
                         contribution |-> IF m = Quantum THEN found ELSE {}]]
    BY <2>1 DEF ReportsOn
  <2>3. Valid(s)
    BY SplitsAreValid DEF ClassInv
  <2>4. /\ DOMAIN reports' = DOMAIN models
        /\ \A m \in DOMAIN models : reports'[m].feasible
        /\ Quantum \in DOMAIN models => reports'[Quantum].contribution = found
    BY <2>2, <2>3
  <2>5. ReportsInv'
    BY <1>1, <1>3, <2>4 DEF ReportsInv, Findings, Comparators
  <2>6. DataInv' /\ ModelsInv'
    BY <1>3 DEF ClassInv, DataInv, ModelsInv
  <2>7. AccountInv'
    BY <1>1, <1>3, <2>4 DEF ClassInv, AccountInv
  <2> QED
    BY <2>5, <2>6, <2>7 DEF ClassInv
<1> QED
  BY <1>2, <1>3 DEF Verify

\* Every agent keeps the invariant.
LEMMA StepClassInv ==
  ASSUME RunIInv, ClassInv, [ClassNext]_classVars
  PROVE  ClassInv'
<1>0. "simulate" \in plan => request.gate /\ request.sim
  BY DEF ClassInv, ModelsInv
<1>1. CASE UNCHANGED classVars
  BY <1>1 DEF classVars, runVars, state, ClassInv, DataInv, ModelsInv, ReportsInv,
              AccountInv, Findings, Comparators, Failures
<1>2. CASE \E s \in StepNames : Understand(s)
  BY <1>0, <1>2, TurnOf, StateKept DEF Understand, state
<1>3. CASE Baseline
  BY <1>3, BaselineClassInv
<1>4. CASE Planner
  BY <1>4, PlannerClassInv
<1>5. CASE SkipKernel
  BY <1>0, <1>5, TurnOf, StateKept DEF SkipKernel
<1>6. CASE TrainKernel
  BY <1>6, TrainClassInv
<1>7. CASE Verify
  BY <1>7, VerifyClassInv
<1>8. CASE Audit
  BY <1>0, <1>8, TurnOf, StateKept DEF Audit, state
<1>9. CASE Govern
  BY <1>0, <1>9, TurnOf, StateKept DEF Govern, state
<1> QED
  BY <1>1, <1>2, <1>3, <1>4, <1>5, <1>6, <1>7, <1>8, <1>9 DEF ClassNext

LEMMA AlwaysClassInv == ClassSpec => []ClassInv
BY InitClassInv, StepClassInv, ClassRunIInv, PTL DEF ClassSpec

\* No look-ahead: of every data set, for every size of the test set and every
\* order of equal timestamps, what is held out is the latest.
THEOREM HoldoutsAreLatest == ClassSpec => []HoldoutIsLatest
<1>1. ClassInv => HoldoutIsLatest
  BY DataIsHeldOut DEF ClassInv
<1> QED
  BY <1>1, AlwaysClassInv, PTL
-----------------------------------------------------------------------------
(* The decision.                                                           *)

\* Once the decision is taken nothing it rests on changes.
LEMMA DecisionStays ==
  ASSUME FavourIsTested, RecommendationStands,
         UNCHANGED <<request, split, models, reports, audit>>,
         Failures \subseteq Failures',
         \A s \in {"classical_baseline", "verification"} : s \in Failures' => s \in Failures
  PROVE  FavourIsTested' /\ RecommendationStands'
<1>1. FavourIsTested'
  BY DEF FavourIsTested, Valid
<1>2. Failures' \cap {"classical_baseline", "verification"}
        = Failures \cap {"classical_baseline", "verification"}
  OBVIOUS
<1>3. ASSUME NEW m
      PROVE  Feasible(m) => Feasible(m)'
  BY DEF Feasible
<1>4. RecommendationStands'
  BY <1>2, <1>3 DEF RecommendationStands
<1> QED
  BY <1>1, <1>4

\* Where the invariant holds: the baselines that were verified are both or
\* none, and the champion is the best of them, or there is none.
LEMMA ChampionIsBest ==
  ASSUME ClassInv
  PROVE  /\ Champion \in Baselines \cup {"none"}
         /\ Champion = "none" <=> DOMAIN reports \cap Baselines = {}
         /\ Champion \in Baselines =>
              /\ Feasible(Champion)
              /\ Baselines \subseteq DOMAIN models
              /\ \A m \in Baselines \cap DOMAIN models : models[Champion] <= models[m]
<1>1. Champion # "none" <=> Champions # {}
  BY DEF Champion
<1>2. \A m \in Baselines : Feasible(m) <=> m \in DOMAIN reports
  BY DEF Feasible, ClassInv, ReportsInv
<1>3. CASE DOMAIN reports \cap Baselines = {}
  <2>1. Champions = {}
    BY <1>2, <1>3 DEF Champions
  <2> QED
    BY <1>3, <2>1 DEF Champion, Baselines
<1>4. CASE DOMAIN reports \cap Baselines # {}
  <2>1. DOMAIN reports = DOMAIN models /\ Baselines \subseteq DOMAIN models
    BY <1>4 DEF ClassInv, ReportsInv, ModelsInv
  <2>2. \A m \in Baselines : Feasible(m) /\ models[m] \in Nat
    BY <1>2, <2>1, ClassificationAssumption DEF ClassInv, ModelsInv
  <2>3. Champions = {m \in Baselines : \A n \in Baselines : models[m] <= models[n]}
    BY <2>1, <2>2 DEF Champions
  <2>4. Champions # {}
    BY <2>2, <2>3 DEF Baselines
  <2>5. Champion \in Champions
    BY <2>3, <2>4 DEF Champion, Baselines
  <2> QED
    BY <1>4, <2>1, <2>2, <2>3, <2>5 DEF Baselines
<1> QED
  BY <1>3, <1>4

\* The category in favour of the kernel, or even with it, and what it rests on.
LEMMA CategoryIsTested ==
  ASSUME ClassInv, ~AssertionFails,
         Category \in {"QUANTUM_PARITY", "QUANTUM_IMPROVEMENT_OBSERVED"}
  PROVE  /\ request.level >= 2 /\ request.gate /\ request.sim
         /\ {Quantum, "rbf_kernel_ridge"} \subseteq DOMAIN models \cap DOMAIN reports
         /\ Category = "QUANTUM_IMPROVEMENT_OBSERVED" =>
              \E c \in reports[Quantum].contribution :
                c.against = "rbf_kernel_ridge" /\ c.significant /\ c.diff > 0
<1>1. Champion # "none" /\ ~Skipped /\ Feasible(Quantum)
  BY DEF Category
<1>2. Quantum \in DOMAIN models /\ Quantum \in DOMAIN reports
  BY <1>1 DEF Skipped, Feasible
<1>3. Baselines \subseteq DOMAIN models /\ DOMAIN reports = DOMAIN models
  BY <1>1, <1>2, ChampionIsBest DEF ClassInv, ReportsInv
<1>4. reports[Quantum].contribution # {} /\ reports[Quantum].contribution \in Findings
  BY <1>1, <1>2 DEF AssertionFails, Judged, ClassInv, ReportsInv
<1>5. Comparators = {"rbf_kernel_ridge"}
  BY <1>3 DEF Comparators, Baselines
<1>6. PICK c \in [against : Comparators, significant : BOOLEAN, diff : {-1, 0, 1}] :
        reports[Quantum].contribution = {c}
  BY <1>4, <1>5 DEF Findings
<1>7. (CHOOSE d \in reports[Quantum].contribution : TRUE) = c
  BY <1>6
<1>8. Category = "QUANTUM_IMPROVEMENT_OBSERVED" => c.significant /\ c.diff > 0
  BY <1>1, <1>7 DEF Category
<1>9. request.level >= 2 /\ request.gate /\ request.sim
  BY <1>2 DEF ClassInv, ModelsInv
<1> QED
  BY <1>2, <1>3, <1>5, <1>6, <1>8, <1>9 DEF Baselines

\* The decision the auditor takes.
LEMMA DecisionFounded ==
  ASSUME RunIInv, ClassInv, Audit, audit' # audit
  PROVE  FavourIsTested' /\ RecommendationStands'
<1>1. /\ turn = 7 /\ Return("auditor") /\ ~AssertionFails
      /\ UNCHANGED <<request, dataset, split, models, reports>>
      /\ audit' = {[category |-> Category, recommended |-> Recommended, gap |-> Judged,
                    signed |-> Allowed(request, "recommend_production", 0)]}
  BY TurnOf DEF Audit, state
<1>2. \A d \in audit' : d.category = Category /\ d.recommended = Recommended
  BY <1>1
<1>3. /\ Failures \subseteq Failures'
      /\ \A s \in {"classical_baseline", "verification"} : s \in Failures' => s \in Failures
  BY <1>1, StepMoves
<1>4. Recommended = Quantum => Category = "QUANTUM_IMPROVEMENT_OBSERVED"
  BY ChampionIsBest DEF Recommended, Quantum, Baselines
<1>5. FavourIsTested'
  <2>1. \A s \in split' : Valid(s)
    BY <1>1, SplitsAreValid DEF ClassInv
  <2> QED
    BY <1>1, <1>2, <1>4, <2>1, CategoryIsTested DEF FavourIsTested
<1>6. Recommended = "none" <=> Champion = "none"
  BY DEF Recommended, Category, Quantum
<1>7. Recommended # "none" => Feasible(Recommended)
  <2>1. CASE Category = "QUANTUM_IMPROVEMENT_OBSERVED"
    BY <2>1 DEF Recommended, Category
  <2>2. CASE Category # "QUANTUM_IMPROVEMENT_OBSERVED"
    BY <2>2, ChampionIsBest DEF Recommended
  <2> QED
    BY <2>1, <2>2
<1>8. Recommended \in Baselines => Recommended = Champion
  BY DEF Recommended, Baselines, Quantum
<1>9. DOMAIN reports \cap Baselines = {} =>
        Failures \cap {"classical_baseline", "verification"} # {}
  <2>1. \/ Baselines \subseteq DOMAIN models
        \/ "classical_baseline" \in Failures
    BY <1>1 DEF ClassInv, AccountInv
  <2>2. \/ DOMAIN reports = DOMAIN models
        \/ "verification" \in Failures
    BY <1>1 DEF ClassInv, AccountInv
  <2> QED
    BY <2>1, <2>2 DEF Baselines
<1>10. RecommendationStands'
  <2>1. ASSUME NEW m
        PROVE  Feasible(m)' <=> Feasible(m)
    BY <1>1 DEF Feasible
  <2> QED
    BY <1>1, <1>2, <1>3, <1>6, <1>7, <1>8, <1>9, <2>1, ChampionIsBest DEF RecommendationStands
<1> QED
  BY <1>5, <1>10

\* Before the auditor's turn there is no decision, and afterwards it stands.
LEMMA StepDecision ==
  ASSUME RunIInv, ClassInv, FavourIsTested, RecommendationStands, [ClassNext]_classVars
  PROVE  FavourIsTested' /\ RecommendationStands'
<1>1. CASE UNCHANGED classVars
  BY <1>1, DecisionStays DEF classVars, runVars, state, Failures
<1>2. ASSUME NEW s, Return(s) \/ Raise(s), audit' = audit, turn < 7
      PROVE  FavourIsTested' /\ RecommendationStands'
  <2>1. audit = {}
    BY <1>2, StepMoves DEF ClassInv, AccountInv
  <2> QED
    BY <1>2, <2>1 DEF FavourIsTested, RecommendationStands
<1>3. ASSUME NEW s, Return(s) \/ Raise(s), s \in {"auditor", "governance"},
             UNCHANGED <<request, split, models, reports, audit>>
      PROVE  FavourIsTested' /\ RecommendationStands'
  BY <1>3, StepMoves, DecisionStays
<1>4. CASE \E s \in StepNames : Understand(s)
  <2>1. PICK s \in {"requirements", "formulation"} :
          (Return(s) \/ Raise(s)) /\ audit' = audit
    BY <1>4 DEF Understand, state
  <2>2. turn < 7
    BY <2>1, StepMoves, TurnOf
  <2> QED
    BY <1>2, <2>1, <2>2
<1>5. CASE Baseline
  BY <1>2, <1>5, TurnOf DEF Baseline
<1>6. CASE Planner
  BY <1>2, <1>6, TurnOf DEF Planner, state
<1>7. CASE SkipKernel
  BY <1>2, <1>7, TurnOf DEF SkipKernel
<1>8. CASE TrainKernel
  BY <1>2, <1>8, TurnOf DEF TrainKernel
<1>9. CASE Verify
  BY <1>2, <1>9, TurnOf DEF Verify, state
<1>10. CASE Audit
  <2>1. CASE audit' = audit
    BY <1>3, <1>10, <2>1 DEF Audit, state
  <2> QED
    BY <1>10, <2>1, DecisionFounded
<1>11. CASE Govern
  BY <1>3, <1>11 DEF Govern, state
<1> QED
  BY <1>1, <1>4, <1>5, <1>6, <1>7, <1>8, <1>9, <1>10, <1>11 DEF ClassNext

LEMMA DecisionsFounded == ClassSpec => [](FavourIsTested /\ RecommendationStands)
<1>1. ClassInit => FavourIsTested /\ RecommendationStands
  BY DEF ClassInit, FavourIsTested, RecommendationStands
<1> QED
  BY <1>1, StepDecision, ClassRunIInv, AlwaysClassInv, PTL DEF ClassSpec

\* For every policy, every data set and whichever steps failed: the kernel is
\* favoured only where it ran within the policy and was compared with the same
\* learner on a valid split, and wins only on a significant difference.
THEOREM FavoursAreTested == ClassSpec => []FavourIsTested
BY DecisionsFounded, PTL

\* What is recommended was verified and is the best of its kind, and where
\* nothing is, the baselines or the verification failed.
THEOREM RecommendationsStand == ClassSpec => []RecommendationStands
BY DecisionsFounded, PTL

===============================================================================
