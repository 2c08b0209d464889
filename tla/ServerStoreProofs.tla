--------------------------- MODULE ServerStoreProofs ---------------------------
(***************************************************************************)
(* Proofs about the two stores on a server, PostgresStore and MLflowStore, *)
(* for every finite set of saves, whichever runs they save, whichever      *)
(* processes execute them, and whichever statements and requests fail,     *)
(* unheard or not.                                                         *)
(***************************************************************************)
EXTENDS PostgresStore, MLflowStore, FiniteSetTheorems, SequenceTheorems, WellFoundedInduction, TLAPS

(* PostgresStore: the invariant of the transactions.                       *)

\* An empty database without saves under way is in order.
LEMMA InitPgIInv == PgInit => PgIInv
BY SavesAssumption
DEF PgInit, PgIInv, PgTypeOK, TransactionInv, OneInside, SeenInv, TookInv, KeyInv, SavesSerialise,
    PgInside, Open, Ended, Row

\* The row of a run is one of its committed saves.
LEMMA RowOfRun ==
  ASSUME PgIInv, NEW r
  PROVE  \A t \in Row(r) : t \in Saves /\ t \in effective /\ RunOf[t] = r
BY DEF PgIInv, PgTypeOK, SavesSerialise, Row

\* Nothing of the rows is touched before the DELETE has ended.
LEMMA BeforeDelete ==
  ASSUME PgIInv, NEW s \in Saves, PgEnter(s) \/ Inspect(s) \/ CreateTable(s) \/ BeginDelete(s)
  PROVE  PgIInv'
<1> USE SavesAssumption DEF PgIInv, TransactionInv
<1>0. \A t \in Row(RunOf[s]) : t \in Saves /\ t \in effective /\ RunOf[t] = RunOf[s]
  BY RowOfRun
<1>1. PgTypeOK'
  <2>1. phase' \in [Saves -> {"idle"} \cup PgInside \cup Ended]
    BY DEF PgTypeOK, PgEnter, EnterLock, Inspect, CreateTable, BeginDelete, PgInside, Open,
           Ended
  <2>2. seen' \in [Saves -> SUBSET Saves]
    BY <1>0 DEF PgTypeOK, PgEnter, EnterLock, Inspect, CreateTable, BeginDelete, database
  <2>3. table' \in BOOLEAN /\ UNCHANGED <<rows, took, effective>>
    BY DEF PgTypeOK, PgEnter, EnterLock, Inspect, CreateTable, BeginDelete, database
  <2> QED
    BY <2>1, <2>2, <2>3 DEF PgTypeOK
<1>2. OneInside'
  BY <1>0
  DEF PgTypeOK, OneInside, PgEnter, EnterLock, Inspect, CreateTable, BeginDelete, database,
      PgInside, Open, Ended
<1>3. SeenInv'
  BY <1>0
  DEF PgTypeOK, SeenInv, TookInv, PgEnter, EnterLock, Inspect, CreateTable, BeginDelete,
      database, PgInside, Open, Ended
<1>4. TookInv'
  BY <1>0
  DEF PgTypeOK, SeenInv, TookInv, KeyInv, PgEnter, EnterLock, Inspect, CreateTable,
      BeginDelete, database, PgInside, Open, Ended, Row
<1>5. KeyInv'
  BY <1>0
  DEF PgTypeOK, SeenInv, TookInv, KeyInv, PgEnter, EnterLock, Inspect, CreateTable,
      BeginDelete, database, PgInside, Open, Ended, Row
<1>6. SavesSerialise'
  BY <1>0
  DEF PgTypeOK, SeenInv, TookInv, KeyInv, SavesSerialise, PgEnter, EnterLock, Inspect,
      CreateTable, BeginDelete, database, PgInside, Open, Ended, Row
<1> QED
  BY <1>1, <1>2, <1>3, <1>4, <1>5, <1>6

\* The DELETE removes the row of its run that no other open transaction removed.
LEMMA DeleteEnds ==
  ASSUME PgIInv, NEW s \in Saves, EndDelete(s)
  PROVE  PgIInv'
<1> USE SavesAssumption DEF PgIInv, TransactionInv
<1>1. PgTypeOK'
  BY DEF PgTypeOK, EndDelete, Locked, PgInside, Open, Ended
<1>2. OneInside'
  BY DEF PgTypeOK, OneInside, EndDelete, Locked, PgInside, Open, Ended
<1>3. SeenInv'
  BY DEF PgTypeOK, SeenInv, TookInv, EndDelete, Locked, PgInside, Open, Ended
<1>4. TookInv'
  BY DEF PgTypeOK, SeenInv, TookInv, KeyInv, EndDelete, Locked, PgInside, Open, Ended, Row
<1>5. KeyInv'
  BY DEF PgTypeOK, SeenInv, TookInv, KeyInv, EndDelete, Locked, PgInside, Open, Ended, Row
<1>6. SavesSerialise'
  BY DEF PgTypeOK, SeenInv, TookInv, KeyInv, SavesSerialise, EndDelete, Locked, PgInside, Open,
         Ended, Row
<1> QED
  BY <1>1, <1>2, <1>3, <1>4, <1>5, <1>6

\* The INSERT takes the key from all others.
LEMMA InsertTakesKey ==
  ASSUME PgIInv, NEW s \in Saves, Insert(s)
  PROVE  PgIInv'
<1> USE SavesAssumption DEF PgIInv, TransactionInv
<1>1. PgTypeOK'
  BY DEF PgTypeOK, Insert, Contended, database, PgInside, Open, Ended
<1>2. OneInside'
  BY DEF PgTypeOK, OneInside, Insert, Contended, database, PgInside, Open, Ended
<1>3. SeenInv'
  BY DEF PgTypeOK, SeenInv, TookInv, Insert, Contended, database, PgInside, Open, Ended
<1>4. TookInv'
  BY DEF PgTypeOK, SeenInv, TookInv, KeyInv, Insert, Contended, database, PgInside, Open,
         Ended, Row
<1>5. KeyInv'
  BY DEF PgTypeOK, SeenInv, TookInv, KeyInv, Insert, Contended, database, PgInside, Open,
         Ended, Row
<1>6. SavesSerialise'
  BY DEF PgTypeOK, SeenInv, TookInv, KeyInv, SavesSerialise, Insert, Contended, database,
         PgInside, Open, Ended, Row
<1> QED
  BY <1>1, <1>2, <1>3, <1>4, <1>5, <1>6

\* Transactions that are rolled back leave nothing.
LEMMA RolledBack ==
  ASSUME PgIInv, NEW gone \in SUBSET Saves, NEW how \in Ended,
         \A s \in gone : phase[s] \notin Ended,
         phase' = [s \in Saves |-> IF s \in gone THEN how ELSE phase[s]],
         took' = [s \in Saves |-> IF s \in gone THEN {} ELSE took[s]],
         UNCHANGED <<table, rows, seen, effective>>
  PROVE  PgIInv'
<1> USE SavesAssumption DEF PgIInv, TransactionInv
<1>1. PgTypeOK'
  BY DEF PgTypeOK, Ended, PgInside, Open, Ended
<1>2. OneInside'
  BY DEF PgTypeOK, OneInside, Ended, PgInside, Open, Ended
<1>3. SeenInv'
  BY DEF PgTypeOK, SeenInv, TookInv, Ended, PgInside, Open, Ended
<1>4. TookInv'
  BY DEF PgTypeOK, SeenInv, TookInv, KeyInv, Ended, PgInside, Open, Ended, Row
<1>5. KeyInv'
  BY DEF PgTypeOK, SeenInv, TookInv, KeyInv, Ended, PgInside, Open, Ended, Row
<1>6. SavesSerialise'
  BY DEF PgTypeOK, SeenInv, TookInv, KeyInv, SavesSerialise, Ended, PgInside, Open, Ended, Row
<1> QED
  BY <1>1, <1>2, <1>3, <1>4, <1>5, <1>6

\* The commit replaces the row that was removed, and that one only; of the other
\* saves some may die before they have begun.
LEMMA Committed ==
  ASSUME PgIInv, NEW s \in Saves, phase[s] = "inserted", Replace(s),
         phase' \in [Saves -> {"idle"} \cup PgInside \cup Ended], phase'[s] \in Ended,
         \A t \in Saves \ {s} :
           phase'[t] = phase[t] \/ (phase[t] = "idle" /\ phase'[t] \in Ended)
  PROVE  PgIInv'
<1> USE SavesAssumption DEF PgIInv, TransactionInv
<1>0. /\ rows' = [r \in DOMAIN rows \cup {RunOf[s]} |-> IF r = RunOf[s] THEN s ELSE rows[r]]
      /\ effective' = effective \cup {s}
      /\ UNCHANGED <<table, seen, took>>
      /\ Row(RunOf[s])' = {s} /\ \A r : r # RunOf[s] => Row(r)' = Row(r)
  BY DEF Replace, Row
<1>1. PgTypeOK'
  BY <1>0 DEF PgTypeOK, Replace, PgInside, Open, Ended
<1>2. OneInside'
  BY <1>0 DEF PgTypeOK, OneInside, Replace, PgInside, Open, Ended
<1>3. SeenInv'
  BY <1>0 DEF PgTypeOK, SeenInv, TookInv, Replace, PgInside, Open, Ended
<1>4. TookInv'
  BY <1>0 DEF PgTypeOK, SeenInv, TookInv, KeyInv, Replace, PgInside, Open, Ended, Row
<1>5. KeyInv'
  <2>1. \A t \in Saves : phase'[t] \in Open => t # s /\ phase'[t] = phase[t]
    BY DEF Open, Ended
  <2>2. \A t, u \in Saves :
          phase'[t] \in Open /\ phase'[u] \in Open /\ took'[t] \cap took'[u] # {} => t = u
    BY <1>0, <2>1 DEF KeyInv
  <2>3. \A t \in Saves :
          phase'[t] = "inserted" => RunOf[t] # RunOf[s] /\ Row(RunOf[t]) \subseteq took[t]
    BY <2>1 DEF KeyInv, Open
  <2>4. \A t, u \in Saves :
          phase'[t] = "inserted" /\ phase'[u] = "inserted" /\ RunOf[t] = RunOf[u] => t = u
    BY <2>1 DEF KeyInv, Open
  <2> QED
    BY <1>0, <2>2, <2>3, <2>4 DEF KeyInv
<1>6. SavesSerialise'
  BY <1>0
  DEF PgTypeOK, SeenInv, TookInv, KeyInv, SavesSerialise, Replace, PgInside, Open, Ended, Row
<1> QED
  BY <1>1, <1>2, <1>3, <1>4, <1>5, <1>6

\* Nothing of a process that dies is left, but for a commit under way.
LEMMA Died ==
  ASSUME PgIInv, NEW p \in Processes, PgCrash(p)
  PROVE  PgIInv'
<1> DEFINE gone == Dying(p)
<1>1. /\ gone \in SUBSET Saves
      /\ \A s \in gone : phase[s] \notin Ended /\ ProcessOf[s] = p
      /\ phase' = [s \in Saves |-> IF s \in gone THEN "dead" ELSE phase[s]]
  BY DEF PgCrash, Die, Dying
<1>2. CASE /\ took' = [s \in Saves |-> IF s \in gone THEN {} ELSE took[s]]
           /\ UNCHANGED <<table, rows, seen, effective>>
  <2>1. "dead" \in Ended
    BY DEF Ended
  <2> HIDE DEF gone
  <2> QED
    BY <1>1, <1>2, <2>1, RolledBack
<1>3. ASSUME NEW s \in gone, phase[s] = "inserted", Replace(s)
      PROVE  PgIInv'
  <2> HIDE DEF gone
  <2>1. \A t \in gone \ {s} : phase[t] = "idle"
    BY <1>1, <1>3 DEF PgIInv, PgTypeOK, TransactionInv, OneInside, PgInside, Open
  <2>2. phase' \in [Saves -> {"idle"} \cup PgInside \cup Ended]
    BY <1>1 DEF PgIInv, PgTypeOK, Ended
  <2>3. /\ "dead" \in Ended
        /\ \A t \in Saves : phase'[t] = IF t \in gone THEN "dead" ELSE phase[t]
    BY <1>1 DEF Ended
  <2>4. /\ s \in Saves /\ phase'[s] \in Ended
        /\ \A t \in Saves \ {s} :
             phase'[t] = phase[t] \/ (phase[t] = "idle" /\ phase'[t] \in Ended)
    BY <1>1, <2>1, <2>3
  <2> QED
    BY <1>3, <2>2, <2>4, Committed
<1> QED
  BY <1>2, <1>3 DEF PgCrash, Die

\* A transaction that fails is rolled back.
LEMMA FailedAlone ==
  ASSUME PgIInv, NEW s \in Saves, NEW how \in Ended, phase[s] \in PgInside, RollBack(s, how)
  PROVE  PgIInv'
<1> DEFINE gone == {s}
<1>1. /\ gone \in SUBSET Saves /\ \A t \in gone : phase[t] \notin Ended
      /\ phase' = [t \in Saves |-> IF t \in gone THEN how ELSE phase[t]]
      /\ took' = [t \in Saves |-> IF t \in gone THEN {} ELSE took[t]]
      /\ UNCHANGED <<table, rows, seen, effective>>
  BY DEF RollBack, PgIInv, PgTypeOK, PgInside, Open, Ended
<1> HIDE DEF gone
<1> QED
  BY <1>1, RolledBack

\* A commit that is answered, or is not, replaces the row.
LEMMA CommittedAlone ==
  ASSUME PgIInv, NEW s \in Saves, Commit(s) \/ CommitUnheard(s)
  PROVE  PgIInv'
<1>1. phase[s] = "inserted" /\ Replace(s)
  BY DEF Commit, CommitUnheard
<1>2. phase' \in [Saves -> {"idle"} \cup PgInside \cup Ended] /\ phase'[s] \in Ended
  BY DEF Commit, CommitUnheard, PgIInv, PgTypeOK, Ended
<1>3. \A t \in Saves \ {s} :
        phase'[t] = phase[t] \/ (phase[t] = "idle" /\ phase'[t] \in Ended)
  BY DEF Commit, CommitUnheard, PgIInv, PgTypeOK
<1> QED
  BY <1>1, <1>2, <1>3, Committed

\* Every step keeps the invariant.
LEMMA StepPgIInv == PgIInv /\ [PgNext]_pgVars => PgIInv'
<1> SUFFICES ASSUME PgIInv, [PgNext]_pgVars
             PROVE  PgIInv'
  OBVIOUS
<1>1. CASE PgCreateElsewhere \/ UNCHANGED pgVars
  <2>1. UNCHANGED <<rows, seen, took, effective, phase>> /\ table' \in BOOLEAN
    BY <1>1 DEF PgCreateElsewhere, pgVars, database, PgIInv, PgTypeOK
  <2> QED
    BY <2>1
    DEF PgIInv, PgTypeOK, TransactionInv, OneInside, SeenInv, TookInv, KeyInv, SavesSerialise, Row
<1>2. ASSUME NEW s \in Saves, PgSave(s)
      PROVE  PgIInv'
  <2>1. CASE PgEnter(s) \/ Inspect(s) \/ CreateTable(s) \/ BeginDelete(s)
    BY <2>1, BeforeDelete
  <2>2. CASE EndDelete(s)
    BY <2>2, DeleteEnds
  <2>3. CASE Insert(s)
    BY <2>3, InsertTakesKey
  <2>4. CASE Conflict(s)
    BY <2>4, FailedAlone DEF Conflict, Ended, PgInside, Open
  <2>5. CASE Commit(s)
    BY <2>5, CommittedAlone
  <2> QED
    BY <1>2, <2>1, <2>2, <2>3, <2>4, <2>5 DEF PgSave
<1>3. ASSUME NEW s \in Saves, CommitUnheard(s)
      PROVE  PgIInv'
  BY <1>3, CommittedAlone
<1>4. ASSUME NEW s \in Saves, PgFail(s)
      PROVE  PgIInv'
  BY <1>4, FailedAlone DEF PgFail, Ended
<1>5. ASSUME NEW p \in Processes, PgCrash(p)
      PROVE  PgIInv'
  BY <1>5, Died
<1> QED
  BY <1>1, <1>2, <1>3, <1>4, <1>5 DEF PgNext

THEOREM PgInvariant == PgSpec => []PgIInv
BY InitPgIInv, StepPgIInv, PTL DEF PgSpec

\* Saves of one run have an order: each replaced the row of the one before it,
\* whichever processes and failures they meet (postgres_store.py:44,70-72).
THEOREM SavesInOrder == PgSpec => []SavesSerialise
BY PgInvariant, PTL DEF PgIInv

-----------------------------------------------------------------------------
(* The refinement.                                                         *)

\* While no save ends and no row changes, the abstract store stands still.
LEMMA NothingTold ==
  ASSUME PgTypeOK, UNCHANGED rows,
         \A s \in Saves : phase'[s] = phase[s] \/ (phase[s] \notin Ended /\ phase'[s] \notin Ended)
  PROVE  UNCHANGED Board!board
<1>1. \A s \in Saves : Told(s)' = Told(s)
  BY DEF Told, Ended
<1>2. told' = told
  BY <1>1 DEF told
<1> QED
  BY <1>2 DEF Board!board

\* Saves that end without an answer are lost, and what they did with them.
LEMMA LostStep ==
  ASSUME PgTypeOK, NEW gone \in SUBSET Saves,
         \A s \in gone : phase[s] \notin Ended /\ phase'[s] \in Ended \ {"saved"},
         \A s \in Saves \ gone : phase'[s] = phase[s],
         rows' = rows \/ (\E s \in gone : Replace(s))
  PROVE  Board!Next
<1>1. \A s \in gone : told[s] = "none"
  BY DEF told, Told, Ended
<1>2. \A s \in Saves : Told(s)' = IF s \in gone THEN "lost" ELSE told[s]
  BY DEF told, Told, Ended
<1>3. told' = [s \in Saves |-> IF s \in gone THEN "lost" ELSE told[s]]
  BY <1>2 DEF told
<1>4. rows' \in {rows} \cup {Board!With(s) : s \in gone}
  BY DEF Replace, Board!With
<1>5. Board!Lose(gone)
  BY <1>1, <1>3, <1>4 DEF Board!Lose
<1> QED
  BY <1>5 DEF Board!Next

\* A commit that is answered keeps the evidence.
LEMMA KeptStep ==
  ASSUME PgTypeOK, NEW s \in Saves, Commit(s)
  PROVE  Board!Next
<1>1. /\ phase[s] = "inserted"
      /\ \A t \in Saves : phase'[t] = IF t = s THEN "saved" ELSE phase[t]
  BY DEF Commit, PgTypeOK
<1>2. told[s] = "none"
  BY <1>1 DEF told, Told, Ended
<1>3. \A t \in Saves : Told(t)' = IF t = s THEN "saved" ELSE told[t]
  BY <1>1 DEF told, Told
<1>4. told' = [told EXCEPT ![s] = "saved"]
  BY <1>3 DEF told
<1>5. rows' = Board!With(s)
  BY DEF Commit, Replace, Board!With
<1>6. Board!Keep(s)
  BY <1>2, <1>4, <1>5 DEF Board!Keep
<1> QED
  BY <1>6 DEF Board!Next

\* Every step is one of the abstract store, or invisible.
LEMMA StepImplements ==
  ASSUME PgTypeOK, [PgNext]_pgVars
  PROVE  [Board!Next]_Board!board
<1>1. CASE PgCreateElsewhere \/ UNCHANGED pgVars
  BY <1>1, NothingTold DEF PgCreateElsewhere, pgVars, database
<1>2. ASSUME NEW s \in Saves, PgEnter(s) \/ Inspect(s) \/ BeginDelete(s) \/ EndDelete(s) \/ Insert(s)
      PROVE  UNCHANGED Board!board
  <2>1. rows' = rows /\ phase[s] \notin Ended /\ phase'[s] \notin Ended
    BY <1>2
    DEF PgEnter, EnterLock, Inspect, BeginDelete, EndDelete, Insert, database, PgTypeOK, Ended
  <2>2. \A t \in Saves \ {s} : phase'[t] = phase[t]
    BY <1>2 DEF PgEnter, EnterLock, Inspect, BeginDelete, EndDelete, Insert, PgTypeOK
  <2> QED
    BY <2>1, <2>2, NothingTold
<1>3. ASSUME NEW s \in Saves, CreateTable(s)
      PROVE  Board!Next \/ UNCHANGED Board!board
  <2>1. /\ rows' = rows /\ phase[s] = "creating"
        /\ \A t \in Saves : phase'[t] = IF t # s THEN phase[t] ELSE IF table THEN "failed" ELSE "ready"
    BY <1>3 DEF CreateTable, PgTypeOK
  <2>2. CASE table
    <3> DEFINE gone == {s}
    <3>1. /\ gone \in SUBSET Saves
          /\ \A t \in gone : phase[t] \notin Ended /\ phase'[t] \in Ended \ {"saved"}
          /\ \A t \in Saves \ gone : phase'[t] = phase[t]
      BY <2>1, <2>2 DEF Ended
    <3> HIDE DEF gone
    <3> QED
      BY <2>1, <3>1, LostStep
  <2>3. CASE ~table
    BY <2>1, <2>3, NothingTold DEF Ended
  <2> QED
    BY <2>2, <2>3
<1>4. ASSUME NEW s \in Saves, Conflict(s) \/ PgFail(s) \/ CommitUnheard(s)
      PROVE  Board!Next
  <2> DEFINE gone == {s}
  <2>1. /\ phase[s] \notin Ended
        /\ \A t \in Saves : t # s => phase'[t] = phase[t]
        /\ phase'[s] \in Ended \ {"saved"}
        /\ rows' = rows \/ Replace(s)
    BY <1>4 DEF Conflict, PgFail, CommitUnheard, RollBack, PgTypeOK, PgInside, Open, Ended
  <2>2. /\ gone \in SUBSET Saves
        /\ \A t \in gone : phase[t] \notin Ended /\ phase'[t] \in Ended \ {"saved"}
        /\ \A t \in Saves \ gone : phase'[t] = phase[t]
        /\ rows' = rows \/ (\E t \in gone : Replace(t))
    BY <2>1
  <2> HIDE DEF gone
  <2> QED
    BY <2>2, LostStep
<1>5. ASSUME NEW s \in Saves, Commit(s)
      PROVE  Board!Next
  BY <1>5, KeptStep
<1>6. ASSUME NEW p \in Processes, PgCrash(p)
      PROVE  Board!Next
  <2> DEFINE gone == Dying(p)
  <2>1. /\ gone \in SUBSET Saves
        /\ \A s \in gone : phase[s] \notin Ended
        /\ phase' = [s \in Saves |-> IF s \in gone THEN "dead" ELSE phase[s]]
        /\ rows' = rows \/ (\E s \in gone : Replace(s))
    BY <1>6 DEF PgCrash, Die, Dying
  <2> HIDE DEF gone
  <2>2. /\ \A s \in gone : phase'[s] \in Ended \ {"saved"}
        /\ \A s \in Saves \ gone : phase'[s] = phase[s]
    BY <2>1 DEF Ended
  <2> QED
    BY <2>1, <2>2, LostStep
<1> QED
  BY <1>1, <1>2, <1>3, <1>4, <1>5, <1>6 DEF PgNext, PgSave

\* Whoever lists and opens runs sees a store that replaces the evidence of a run
\* at once, whatever the transactions do (postgres_store.py:56-104).
THEOREM PgRefinement == PgSpec => ImplementsUpsert
<1>1. PgInit => Board!Init
  BY DEF PgInit, Board!Init, told, Told, Ended
<1>2. PgIInv /\ [PgNext]_pgVars => [Board!Next]_Board!board
  BY StepImplements DEF PgIInv
<1> QED
  BY <1>1, <1>2, PgInvariant, PTL DEF PgSpec, ImplementsUpsert, Board!Spec

-----------------------------------------------------------------------------
(* MLflowStore: the invariant of the calls.                                *)

\* The first n calls of a save.
FirstCalls(n) == {Calls[i] : i \in 1..n}

Phases == {"idle"} \cup MlInside \cup (Ended \ {"refused"})

\* What the server has logged of a save is the calls up to some point, none
\* before its run was created and all of them once it was answered, and the last
\* one only when nobody logs any more.
CallsInv ==
  \A s \in Saves :
    /\ \E n \in 0..5 : logged[s] = FirstCalls(n)
    /\ phase[s] = "saved" => logged[s] = FirstCalls(5)
    /\ phase[s] = "logging" => "terminated" \notin logged[s]
    /\ phase[s] \in {"idle", "connecting", "creating", "ready"} => logged[s] = {}

\* The server has a run of a save that logs or was answered, and none of one
\* that has not come so far.
CreatedInv ==
  \A s \in Saves :
    /\ phase[s] \in {"logging", "saved"} => \E i \in 1..Len(runs) : runs[i] = s
    /\ phase[s] \in {"idle", "connecting", "creating", "ready"} =>
         \A i \in 1..Len(runs) : runs[i] # s

MlIInv ==
  /\ runs \in Seq(Saves)
  /\ logged \in [Saves -> SUBSET ToSet(Calls)]
  /\ phase \in [Saves -> Phases]
  /\ CallsInv
  /\ CreatedInv

-----------------------------------------------------------------------------
(* The calls of a save.                                                    *)

\* There are five calls, and "terminated" is the last.
LEMMA FirstCallsAre ==
  /\ ToSet(Calls) = {"figures", "manifest.json", "report.md", "model_card.md", "terminated"}
  /\ FirstCalls(0) = {}
  /\ FirstCalls(1) = {"figures"}
  /\ FirstCalls(2) = {"figures", "manifest.json"}
  /\ FirstCalls(3) = {"figures", "manifest.json", "report.md"}
  /\ FirstCalls(4) = {"figures", "manifest.json", "report.md", "model_card.md"}
  /\ FirstCalls(5) = ToSet(Calls)
<1>1. /\ Len(Calls) = 5
      /\ Calls[1] = "figures" /\ Calls[2] = "manifest.json" /\ Calls[3] = "report.md"
      /\ Calls[4] = "model_card.md" /\ Calls[5] = "terminated"
  BY DEF Calls
<1>2. /\ 1..0 = {} /\ 1..1 = {1} /\ 1..2 = {1, 2} /\ 1..3 = {1, 2, 3}
      /\ 1..4 = {1, 2, 3, 4} /\ 1..5 = {1, 2, 3, 4, 5}
  OBVIOUS
<1>3. ToSet(Calls) = {Calls[i] : i \in 1..5}
  BY <1>1 DEF ToSet
<1> QED
  BY <1>1, <1>2, <1>3 DEF FirstCalls

\* As many calls are logged as the number of them says.
LEMMA FirstCallsCount ==
  \A n \in 0..4 : Cardinality(FirstCalls(n)) = n
<1>0. IsFiniteSet({}) /\ Cardinality({}) = 0
  BY FS_EmptySet
<1>1. /\ IsFiniteSet({} \cup {"figures"}) /\ Cardinality({} \cup {"figures"}) = 1
  BY <1>0, FS_AddElement
<1>2. LET S == {"figures"}
      IN IsFiniteSet(S \cup {"manifest.json"}) /\ Cardinality(S \cup {"manifest.json"}) = 2
  <2>1. {} \cup {"figures"} = {"figures"} /\ "manifest.json" \notin {"figures"}
    OBVIOUS
  <2> QED
    BY <1>1, <2>1, FS_AddElement
<1>3. LET S == {"figures", "manifest.json"}
      IN IsFiniteSet(S \cup {"report.md"}) /\ Cardinality(S \cup {"report.md"}) = 3
  <2>1. {"figures"} \cup {"manifest.json"} = {"figures", "manifest.json"}
    OBVIOUS
  <2>2. "report.md" \notin {"figures", "manifest.json"}
    OBVIOUS
  <2> QED
    BY <1>2, <2>1, <2>2, FS_AddElement
<1>4. LET S == {"figures", "manifest.json", "report.md"}
      IN Cardinality(S \cup {"model_card.md"}) = 4
  <2>1. {"figures", "manifest.json"} \cup {"report.md"} = {"figures", "manifest.json", "report.md"}
    OBVIOUS
  <2>2. "model_card.md" \notin {"figures", "manifest.json", "report.md"}
    OBVIOUS
  <2>3. LET S == {"figures", "manifest.json", "report.md"}
        IN IsFiniteSet(S) /\ Cardinality(S) = 3
    BY <1>3, <2>1
  <2> QED
    BY <2>2, <2>3, FS_AddElement
<1>5. /\ {} \cup {"figures"} = FirstCalls(1)
      /\ {"figures"} \cup {"manifest.json"} = FirstCalls(2)
      /\ {"figures", "manifest.json"} \cup {"report.md"} = FirstCalls(3)
      /\ {"figures", "manifest.json", "report.md"} \cup {"model_card.md"} = FirstCalls(4)
  BY FirstCallsAre
<1>6. ASSUME NEW n \in 0..4
      PROVE  n = 0 \/ n = 1 \/ n = 2 \/ n = 3 \/ n = 4
  OBVIOUS
<1> QED
  BY <1>0, <1>1, <1>2, <1>3, <1>4, <1>5, <1>6, FirstCallsAre

\* A save that has not made its last call makes the one after those logged.
LEMMA NextCallIs ==
  ASSUME MlIInv, NEW s \in Saves, phase[s] = "logging"
  PROVE  \E n \in 0..4 :
           /\ logged[s] = FirstCalls(n)
           /\ NextCall(s) = Calls[n + 1]
           /\ logged[s] \cup {NextCall(s)} = FirstCalls(n + 1)
           /\ NextCall(s) = "terminated" <=> n = 4
<1>1. PICK n \in 0..5 : logged[s] = FirstCalls(n)
  BY DEF MlIInv, CallsInv
<1>2. n # 5
  BY <1>1, FirstCallsAre DEF MlIInv, CallsInv
<1>3. n \in 0..4
  BY <1>2
<1>4. NextCall(s) = Calls[n + 1]
  BY <1>1, <1>3, FirstCallsCount DEF NextCall
<1>5. FirstCalls(n + 1) = FirstCalls(n) \cup {Calls[n + 1]}
  <2>1. 1..(n + 1) = (1..n) \cup {n + 1}
    BY <1>3
  <2> QED
    BY <2>1 DEF FirstCalls
<1>6. Calls[n + 1] = "terminated" <=> n = 4
  <2>1. n = 0 \/ n = 1 \/ n = 2 \/ n = 3 \/ n = 4
    BY <1>3
  <2> QED
    BY <2>1 DEF Calls
<1> QED
  BY <1>1, <1>3, <1>4, <1>5, <1>6

-----------------------------------------------------------------------------
(* The run that load_manifest opens.                                       *)

\* A set of places that is not empty has a last one.
LEMMA LastPlace ==
  ASSUME NEW n \in Nat, NEW I \in SUBSET (1..n), I # {}
  PROVE  Max(I) \in I /\ \A i \in I : i <= Max(I)
<1> DEFINE Above == {k \in Nat : \A i \in I : i <= k}
<1>1. n \in Above /\ Above \subseteq Nat
  OBVIOUS
<1>2. PICK k \in Above : \A j \in Above : ~(<<j, k>> \in OpToRel(<, Nat))
  <2> HIDE DEF Above
  <2> QED
    BY <1>1, NatLessThanWellFounded, WFMin
<1>3. \A j \in Above : ~(j < k)
  BY <1>1, <1>2 DEF OpToRel
<1>4. k \in Nat /\ \A i \in I : i <= k
  OBVIOUS
<1>5. k \in I
  <2>1. SUFFICES ASSUME k \notin I
                 PROVE  FALSE
    OBVIOUS
  <2>2. \A i \in I : i \in Nat /\ i > 0 /\ i <= k /\ i # k
    BY <1>4, <2>1
  <2>3. k - 1 \in Nat /\ \A i \in I : i <= k - 1
    <3>1. PICK i \in I : TRUE
      OBVIOUS
    <3>2. k \in Nat /\ k > 0
      BY <1>4, <2>2, <3>1
    <3> QED
      BY <2>2, <3>2
  <2>4. k - 1 \in Above /\ k - 1 < k
    BY <2>3
  <2> QED
    BY <1>3, <2>4
<1>6. \E m \in I : \A i \in I : m >= i
  BY <1>4, <1>5
<1>7. Max(I) \in I /\ \A i \in I : Max(I) >= i
  BY <1>6 DEF Max
<1> QED
  BY <1>7

\* The newest run with a tag that was logged under is one with that tag, and
\* none with the tag comes after it.
LEMMA NewestIs ==
  ASSUME MlIInv, NEW i \in 1..Len(runs)
  PROVE  LET k == Newest(RunOf[runs[i]])
         IN k \in i..Len(runs) /\ RunOf[runs[k]] = RunOf[runs[i]]
<1> DEFINE I == {j \in 1..Len(runs) : RunOf[runs[j]] = RunOf[runs[i]]}
<1>1. Len(runs) \in Nat /\ I \in SUBSET (1..Len(runs)) /\ i \in I
  BY DEF MlIInv
<1>2. Newest(RunOf[runs[i]]) = Max(I)
  BY <1>1 DEF Newest, SelectLastInSeq
<1>3. Max(I) \in I /\ \A j \in I : j <= Max(I)
  <2> HIDE DEF I
  <2> QED
    BY <1>1, LastPlace
<1> QED
  BY <1>1, <1>2, <1>3

\* In a state of the invariant SavedLoads holds.
LEMMA MlIInvImplies == MlIInv => SavedLoads
<1> SUFFICES ASSUME MlIInv
             PROVE  SavedLoads
  OBVIOUS
<1>1. \A s \in Saves : phase[s] = "saved" => Documents \subseteq logged[s]
  BY FirstCallsAre DEF MlIInv, CallsInv, Documents
<1>2. ASSUME NEW s \in Saves, phase[s] = "saved"
      PROVE  \E i \in 1..Newest(RunOf[s]) : runs[i] = s
  <2>1. PICK i \in 1..Len(runs) : runs[i] = s
    BY <1>2 DEF MlIInv, CreatedInv
  <2>2. i \in 1..Newest(RunOf[s])
    BY <2>1, NewestIs DEF MlIInv
  <2> QED
    BY <2>1, <2>2
<1>3. ASSUME NEW r \in Listed
      PROVE  Loads(r) \/ phase[runs[Newest(r)]] \in {"logging", "failed", "dead"}
  <2>1. PICK i \in 1..Len(runs) : r = RunOf[runs[i]]
    BY <1>3 DEF Listed, ToSet
  <2>2. Newest(r) \in 1..Len(runs)
    BY <2>1, NewestIs DEF MlIInv
  <2>3. runs[Newest(r)] \in Saves
    BY <2>2, ElementOfSeq DEF MlIInv
  <2>4. phase[runs[Newest(r)]] \in {"logging", "saved", "failed", "dead"}
    BY <2>2, <2>3 DEF MlIInv, CreatedInv, Phases, MlInside, Ended
  <2>5. CASE phase[runs[Newest(r)]] = "saved"
    BY <1>1, <2>3, <2>5 DEF Loads, Documents
  <2> QED
    BY <2>4, <2>5
<1> QED
  BY <1>1, <1>2, <1>3 DEF SavedLoads

-----------------------------------------------------------------------------
(* The steps of a save.                                                    *)

(* At first nothing has been asked of the server.                          *)
LEMMA InitMlIInv == MlInit => MlIInv
<1> SUFFICES ASSUME MlInit
             PROVE  MlIInv
  OBVIOUS
<1>1. runs = <<>> /\ runs \in Seq(Saves) /\ Len(runs) = 0
  BY DEF MlInit
<1>2. 0 \in 0..5 /\ FirstCalls(0) = {}
  BY FirstCallsAre
<1> QED
  BY <1>1, <1>2 DEF MlInit, MlIInv, CallsInv, CreatedInv, Phases

\* A step that asks nothing of the server, and takes no save to "logging" or
\* "saved" nor back from where its run was created.
Quiet ==
  /\ UNCHANGED <<runs, logged>>
  /\ phase' \in [Saves -> Phases]
  /\ \A s \in Saves :
       \/ phase'[s] = phase[s]
       \/ phase'[s] \in {"failed", "dead"}
       \/ phase[s] \in {"idle", "connecting", "creating"}
            /\ phase'[s] \in {"connecting", "creating", "ready"}

LEMMA QuietKeeps == MlIInv /\ Quiet => MlIInv'
<1> SUFFICES ASSUME MlIInv, Quiet
             PROVE  MlIInv'
  OBVIOUS
<1>1. CallsInv'
  BY DEF MlIInv, CallsInv, Quiet
<1>2. CreatedInv'
  BY DEF MlIInv, CreatedInv, Quiet
<1> QED
  BY <1>1, <1>2 DEF MlIInv, Quiet

\* The run of a save is created; the save logs into it, or will not hear of it.
Creates(s) ==
  /\ phase[s] = "ready"
  /\ runs' = Append(runs, s)
  /\ UNCHANGED logged
  /\ phase' \in [Saves -> Phases]
  /\ phase'[s] \in {"logging", "failed", "dead"}
  /\ \A t \in Saves \ {s} : phase'[t] = phase[t] \/ phase'[t] = "dead"

LEMMA CreatesKeeps ==
  ASSUME MlIInv, NEW s \in Saves, Creates(s)
  PROVE  MlIInv'
<1>1. /\ runs' \in Seq(Saves) /\ Len(runs') = Len(runs) + 1 /\ Len(runs) \in Nat
      /\ \A i \in 1..Len(runs) : runs'[i] = runs[i]
      /\ runs'[Len(runs) + 1] = s
  BY AppendProperties DEF MlIInv, Creates
<1>2. CallsInv'
  BY DEF MlIInv, CallsInv, Creates
<1>3. CreatedInv'
  BY <1>1 DEF MlIInv, CreatedInv, Creates
<1> QED
  BY <1>1, <1>2, <1>3 DEF MlIInv, Creates

\* A call is logged; the save goes on, has its answer, or will not hear of it.
Logs(s) ==
  /\ phase[s] = "logging"
  /\ UNCHANGED runs
  /\ logged' = [logged EXCEPT ![s] = @ \cup {NextCall(s)}]
  /\ phase' \in [Saves -> Phases]
  /\ \/ phase'[s] \in {"failed", "dead"}
     \/ phase'[s] = IF NextCall(s) = "terminated" THEN "saved" ELSE "logging"
  /\ \A t \in Saves \ {s} : phase'[t] = phase[t] \/ phase'[t] = "dead"

LEMMA LogsKeeps ==
  ASSUME MlIInv, NEW s \in Saves, Logs(s)
  PROVE  MlIInv'
<1>1. PICK n \in 0..4 :
        /\ logged[s] = FirstCalls(n)
        /\ NextCall(s) = Calls[n + 1]
        /\ logged[s] \cup {NextCall(s)} = FirstCalls(n + 1)
        /\ NextCall(s) = "terminated" <=> n = 4
  BY NextCallIs DEF Logs
<1>2. /\ logged'[s] = FirstCalls(n + 1) /\ n + 1 \in 0..5
      /\ \A t \in Saves \ {s} : logged'[t] = logged[t]
  BY <1>1 DEF Logs, MlIInv
<1>3. logged' \in [Saves -> SUBSET ToSet(Calls)]
  <2>1. Calls[n + 1] \in ToSet(Calls)
    BY DEF Calls, ToSet
  <2> QED
    BY <1>1, <2>1 DEF Logs, MlIInv
<1>4. n # 4 => "terminated" \notin logged'[s]
  <2>1. n # 4 => n = 0 \/ n = 1 \/ n = 2 \/ n = 3
    OBVIOUS
  <2> QED
    BY <1>2, <2>1, FirstCallsAre
<1>5. CallsInv'
  <2> SUFFICES ASSUME NEW t \in Saves
               PROVE  /\ \E m \in 0..5 : logged'[t] = FirstCalls(m)
                      /\ phase'[t] = "saved" => logged'[t] = FirstCalls(5)
                      /\ phase'[t] = "logging" => "terminated" \notin logged'[t]
                      /\ phase'[t] \in {"idle", "connecting", "creating", "ready"} =>
                           logged'[t] = {}
    BY DEF CallsInv, FirstCalls
  <2>1. CASE t = s
    BY <1>1, <1>2, <1>4, <2>1 DEF Logs
  <2>2. CASE t # s
    BY <1>2, <2>2 DEF Logs, MlIInv, CallsInv
  <2> QED
    BY <2>1, <2>2
<1>6. CreatedInv'
  BY DEF MlIInv, CreatedInv, Logs
<1> QED
  BY <1>3, <1>5, <1>6 DEF MlIInv, Logs

-----------------------------------------------------------------------------
(* Every step keeps the invariant.                                         *)

(* A request of s that nobody waits for any more does to the server what it *)
(* would have done, or nothing.                                             *)
LEMMA UnheardKeeps ==
  ASSUME MlIInv, NEW s \in Saves, Unheard(s),
         phase[s] \in MlInside \cup {"idle"}, phase' \in [Saves -> Phases],
         phase'[s] \in {"failed", "dead"},
         \A t \in Saves \ {s} : phase'[t] = phase[t] \/ phase'[t] = "dead"
  PROVE  MlIInv'
<1>1. CASE UNCHANGED <<runs, logged>>
  BY <1>1, QuietKeeps DEF Quiet
<1>2. CASE phase[s] = "ready" /\ runs' = Append(runs, s) /\ UNCHANGED logged
  BY <1>2, CreatesKeeps DEF Creates
<1>3. CASE /\ phase[s] = "logging"
           /\ logged' = [logged EXCEPT ![s] = @ \cup {NextCall(s)}]
           /\ UNCHANGED runs
  BY <1>3, LogsKeeps DEF Logs
<1> QED
  BY <1>1, <1>2, <1>3 DEF Unheard

LEMMA StepMlIInv == MlIInv /\ [MlNext]_mlVars => MlIInv'
<1> SUFFICES ASSUME MlIInv, [MlNext]_mlVars
             PROVE  MlIInv'
  OBVIOUS
<1>0. phase \in [Saves -> Phases]
  BY DEF MlIInv
<1>1. CASE MlCreateElsewhere \/ UNCHANGED mlVars
  BY <1>0, <1>1, QuietKeeps DEF MlCreateElsewhere, mlVars, Quiet
<1>2. ASSUME NEW s \in Saves, MlEnter(s) \/ GetExperiment(s) \/ CreateExperiment(s)
      PROVE  MlIInv'
  <2>1. Quiet
    BY <1>0, <1>2
    DEF MlEnter, EnterLock, GetExperiment, CreateExperiment, Quiet, Phases, MlInside, Ended
  <2> QED
    BY <2>1, QuietKeeps
<1>3. ASSUME NEW s \in Saves, CreateRun(s)
      PROVE  MlIInv'
  <2>1. Creates(s)
    BY <1>0, <1>3 DEF CreateRun, Creates, Phases, MlInside
  <2> QED
    BY <2>1, CreatesKeeps
<1>4. ASSUME NEW s \in Saves, Log(s)
      PROVE  MlIInv'
  <2>1. Logs(s)
    BY <1>0, <1>4 DEF Log, Logs, Phases, MlInside, Ended
  <2> QED
    BY <2>1, LogsKeeps
<1>5. ASSUME NEW s \in Saves, MlFail(s)
      PROVE  MlIInv'
  BY <1>0, <1>5, UnheardKeeps DEF MlFail, Phases, Ended
<1>6. ASSUME NEW p \in Processes, MlCrash(p)
      PROVE  MlIInv'
  <2>1. PICK s \in Dying(p) : Unheard(s)
    BY <1>6 DEF MlCrash, Die
  <2>2. s \in Saves /\ phase[s] \in MlInside \cup {"idle"}
    BY <1>0, <2>1 DEF Dying, Phases
  <2>3. /\ phase' \in [Saves -> Phases] /\ phase'[s] = "dead"
        /\ \A t \in Saves : phase'[t] = phase[t] \/ phase'[t] = "dead"
    BY <1>0, <1>6, <2>1, <2>2 DEF MlCrash, Die, Phases, Ended
  <2> QED
    BY <2>1, <2>2, <2>3, UnheardKeeps
<1> QED
  BY <1>1, <1>2, <1>3, <1>4, <1>5, <1>6 DEF MlNext, MlSave

(* Whoever saves and whichever requests fail, before or after they took     *)
(* effect: an answered save left all its documents and is opened unless a   *)
(* newer save of its run has been begun, and a listed run that does not     *)
(* load is hidden by a save that has not come to its end                    *)
(* (mlflow_store.py:44-71,95-105).                                          *)
THEOREM AnsweredSavesLoad == MlSpec => []SavedLoads
<1>1. MlSpec => []MlIInv
  BY InitMlIInv, StepMlIInv, PTL DEF MlSpec
<1> QED
  BY <1>1, MlIInvImplies, PTL

=============================================================================
