--------------------------- MODULE MCPostgresStore ---------------------------
(* Processes and runs for the saves of PostgresStore.                       *)
EXTENDS PostgresStore

CONSTANTS a1, a2, b1, c1

\* Two threads in one process, one in each of two others.
Deployment == [s \in Saves |-> CASE s \in {a1, a2} -> "a" [] s = b1 -> "b" [] OTHER -> "c"]

\* All persist the same run but the second thread of the first process.
SameRun == [s \in Saves |-> IF s = a2 THEN "other" ELSE "run"]

=============================================================================
