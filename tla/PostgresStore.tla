----------------------------- MODULE PostgresStore -----------------------------
(***************************************************************************)
(* The SQL evidence store (qf_agentos/governance/postgres_store.py) as     *)
(* several API processes use it on one PostgreSQL database.  save creates  *)
(* the table if it is missing and replaces the row of the run in one       *)
(* transaction: a DELETE, then an INSERT under the primary key run_id.     *)
(* Within a process saves take turns (_persist_lock); those of different   *)
(* processes meet in the database only.                                    *)
(*                                                                         *)
(* The database is modelled as its default isolation, READ COMMITTED, lets *)
(* the two statements be seen: a DELETE removes the row that was committed *)
(* when it began, and waits for the transaction that is removing it; an    *)
(* INSERT waits for one that has inserted or removed a row of the same     *)
(* key, and fails if the key is still taken then.  A row is named by the   *)
(* save that wrote it.  Reading takes one statement and changes nothing.   *)
(***************************************************************************)
EXTENDS Naturals, SavingProcesses

VARIABLES
  table,    \* the table qf_runs exists
  rows,     \* the committed rows: a function from run ids to saves
  seen,     \* seen[s]: the row the DELETE of s found, as a set
  took,     \* took[s]: the row it removed, as a set
  effective \* the saves that were committed

database == <<table, rows, seen, took, effective>>
pgVars   == <<database, phase>>

Open   == {"deleting", "deleted", "inserted"}       \* a transaction has begun
PgInside == {"connecting", "creating", "ready"} \cup Open  \* within the with block

Row(r) == {rows[q] : q \in DOMAIN rows \cap {r}}

PgTypeOK ==
  /\ table \in BOOLEAN
  /\ DOMAIN rows \subseteq Runs /\ \A r \in DOMAIN rows : rows[r] \in Saves
  /\ phase \in [Saves -> {"idle"} \cup PgInside \cup Ended]
  /\ seen \in [Saves -> SUBSET Saves]
  /\ took \in [Saves -> SUBSET Saves]
  /\ effective \subseteq Saves

PgInit ==
  /\ table = FALSE
  /\ rows = [r \in {} |-> r]
  /\ phase = [s \in Saves |-> "idle"]
  /\ seen = [s \in Saves |-> {}]
  /\ took = [s \in Saves |-> {}]
  /\ effective = {}

-----------------------------------------------------------------------------
(* The store is made: create_all looks for the table and creates it.       *)

\* The thread gets _persist_lock.
PgEnter(s) == EnterLock(s, PgInside) /\ UNCHANGED database

Inspect(s) ==
  /\ phase[s] = "connecting"
  /\ phase' = [phase EXCEPT ![s] = IF table THEN "ready" ELSE "creating"]
  /\ UNCHANGED database

\* It raises if the table has been created since.
CreateTable(s) ==
  /\ phase[s] = "creating"
  /\ table' = TRUE
  /\ phase' = [phase EXCEPT ![s] = IF table THEN "failed" ELSE "ready"]
  /\ UNCHANGED <<rows, seen, took, effective>>

\* A reader's store, or one of another service, creates it.
PgCreateElsewhere ==
  /\ ~table
  /\ table' = TRUE
  /\ UNCHANGED <<rows, seen, took, effective, phase>>

-----------------------------------------------------------------------------
(* The transaction of save.                                                *)

BeginDelete(s) ==
  /\ phase[s] = "ready"
  /\ seen' = [seen EXCEPT ![s] = Row(RunOf[s])]
  /\ phase' = [phase EXCEPT ![s] = "deleting"]
  /\ UNCHANGED <<table, rows, took, effective>>

\* An open transaction of another save has removed that row.
Locked(s, row) == \E t \in Saves \ {s} : phase[t] \in Open /\ row \in took[t]

\* Mutant of EndDelete: the statement is a transaction of its own.
EndDeleteAtOnce(s) ==
  /\ phase[s] = "deleting"
  /\ ~\E row \in seen[s] : Locked(s, row)
  /\ took' = [took EXCEPT ![s] = seen[s] \cap Row(RunOf[s])]
  /\ rows' = [r \in {q \in DOMAIN rows : rows[q] \notin seen[s]} |-> rows[r]]
  /\ phase' = [phase EXCEPT ![s] = "deleted"]
  /\ UNCHANGED <<table, seen, effective>>

\* A row that is gone, or was replaced meanwhile, is passed over.
EndDelete(s) ==
  /\ phase[s] = "deleting"
  /\ ~\E row \in seen[s] : Locked(s, row)
  /\ took' = [took EXCEPT ![s] = seen[s] \cap Row(RunOf[s])]
  /\ phase' = [phase EXCEPT ![s] = "deleted"]
  /\ UNCHANGED <<table, rows, seen, effective>>

\* Mutant of Contended: a DELETE that found nothing locks the key as well.
ContendedByAll(s) ==
  \E t \in Saves \ {s} : RunOf[t] = RunOf[s] /\ phase[t] \in {"deleted", "inserted"}

\* An open transaction of another save has inserted or removed a row of the key.
Contended(s) ==
  \E t \in Saves \ {s} :
    /\ RunOf[t] = RunOf[s]
    /\ \/ phase[t] = "inserted"
       \/ phase[t] = "deleted" /\ took[t] # {}

\* Mutant of Insert: run_id is not a key.
InsertUnchecked(s) ==
  /\ phase[s] = "deleted"
  /\ phase' = [phase EXCEPT ![s] = "inserted"]
  /\ UNCHANGED database

\* The key is free, or was freed by this transaction.
Insert(s) ==
  /\ phase[s] = "deleted"
  /\ ~Contended(s)
  /\ Row(RunOf[s]) \subseteq took[s]
  /\ phase' = [phase EXCEPT ![s] = "inserted"]
  /\ UNCHANGED database

RollBack(s, how) ==
  /\ phase' = [phase EXCEPT ![s] = how]
  /\ took' = [took EXCEPT ![s] = {}]
  /\ UNCHANGED <<table, rows, seen, effective>>

\* The INSERT fails with a unique violation.
Conflict(s) ==
  /\ phase[s] = "deleted"
  /\ ~Contended(s)
  /\ ~(Row(RunOf[s]) \subseteq took[s])
  /\ RollBack(s, "refused")

\* Any other statement raises, or the connection is lost before the commit.
PgFail(s) ==
  /\ phase[s] \in PgInside
  /\ RollBack(s, "failed")

\* What the commit of s does to the table.
Replace(s) ==
  /\ rows' = [r \in DOMAIN rows \cup {RunOf[s]} |-> IF r = RunOf[s] THEN s ELSE rows[r]]
  /\ effective' = effective \cup {s}
  /\ UNCHANGED <<table, seen, took>>

Commit(s) ==
  /\ phase[s] = "inserted"
  /\ Replace(s)
  /\ phase' = [phase EXCEPT ![s] = "saved"]

\* The commit takes effect, but its answer is lost and save raises.
CommitUnheard(s) ==
  /\ phase[s] = "inserted"
  /\ Replace(s)
  /\ phase' = [phase EXCEPT ![s] = "failed"]

\* A process dies.  The database rolls back what it had begun, unless the commit
\* was under way.
PgCrash(p) ==
  /\ Die(p)
  /\ \/ /\ took' = [s \in Saves |-> IF s \in Dying(p) THEN {} ELSE took[s]]
        /\ UNCHANGED <<table, rows, seen, effective>>
     \/ \E s \in Dying(p) : phase[s] = "inserted" /\ Replace(s)

-----------------------------------------------------------------------------
PgSave(s) ==
  \/ PgEnter(s) \/ Inspect(s) \/ CreateTable(s)
  \/ BeginDelete(s) \/ EndDelete(s) \/ Insert(s) \/ Conflict(s) \/ Commit(s)

PgNext ==
  \/ PgCreateElsewhere
  \/ \E s \in Saves : PgSave(s) \/ CommitUnheard(s) \/ PgFail(s)
  \/ \E p \in Processes : PgCrash(p)

PgSpec == PgInit /\ [][PgNext]_pgVars

\* A save that can go on does.  One that waits for the lock of its process or
\* for another transaction is let in when those ahead of it are through.
PgFairSpec == PgSpec /\ \A s \in Saves : WF_pgVars(PgSave(s))

-----------------------------------------------------------------------------
\* Saves of one run, whichever processes and failures they meet, have an order:
\* each replaced the row of the one before it, no two of them the same row, and
\* the row that is left is of one that nothing replaced.  No evidence is
\* overwritten by a save that did not see it (postgres_store.py:44,70-72).
SavesSerialise ==
  /\ \A s, t \in effective : RunOf[s] = RunOf[t] /\ took[s] = took[t] => s = t
  /\ \A r \in DOMAIN rows :
       /\ RunOf[rows[r]] = r /\ rows[r] \in effective
       /\ \A t \in effective : rows[r] \notin took[t]

\* What ties the transactions to the rows and to each other.  A process has one
\* save within the with block.
OneInside ==
  \A s, t \in Saves :
    phase[s] \in PgInside /\ phase[t] \in PgInside /\ ProcessOf[s] = ProcessOf[t] => s = t

\* A transaction has seen and removed rows of its run that were committed.
SeenInv ==
  /\ \A s \in Saves : took[s] \subseteq seen[s] /\ seen[s] \subseteq effective
  /\ \A s \in Saves : \A t \in seen[s] : RunOf[t] = RunOf[s]
  /\ \A t \in effective : RunOf[t] \in DOMAIN rows

\* What it has removed is there until it commits, and after it only it knows.
TookInv ==
  /\ \A s \in Saves : phase[s] \in {"idle"} \cup PgInside => s \notin effective
  /\ \A s \in Saves : took[s] # {} => phase[s] \in {"deleted", "inserted"} \/ s \in effective
  /\ \A s \in Saves : phase[s] \in Open => took[s] \subseteq Row(RunOf[s])

\* No two have removed the same row, and one that has inserted holds the key.
KeyInv ==
  /\ \A s, t \in Saves :
       phase[s] \in Open /\ phase[t] \in Open /\ took[s] \cap took[t] # {} => s = t
  /\ \A s \in Saves : phase[s] = "inserted" => Row(RunOf[s]) \subseteq took[s]
  /\ \A s, t \in Saves :
       phase[s] = "inserted" /\ phase[t] = "inserted" /\ RunOf[s] = RunOf[t] => s = t

TransactionInv == OneInside /\ SeenInv /\ TookInv /\ KeyInv

PgIInv == PgTypeOK /\ TransactionInv /\ SavesSerialise

\* Every save that gets its turn is answered or dies with its process: no two
\* of them wait for each other, in the database or for the lock.
PgSavesSettle ==
  \A s \in Saves : <>(phase[s] \in Ended)

\* Who lists and opens runs sees a store that replaces evidence atomically.
Told(s) ==
  IF phase[s] = "saved" THEN "saved" ELSE IF phase[s] \in Ended THEN "lost" ELSE "none"

told == [s \in Saves |-> Told(s)]

Board == INSTANCE EvidenceUpsert WITH published <- rows, answer <- told

\* Every step of every transaction is one of the abstract store or invisible:
\* a listed run never vanishes while it is replaced, an answered save has its
\* evidence in place, and a save that failed costs nobody's row
\* (postgres_store.py:56-104).
ImplementsUpsert == Board!Spec

=============================================================================
