----------------------------- MODULE MCJobQueue -----------------------------
(* Model values for JobQueue. *)
EXTENDS JobQueue, TLC

\* Jobs are interchangeable, and so are the threads of the pool.
Symmetry == Permutations(Jobs) \cup Permutations(Workers)
=============================================================================
