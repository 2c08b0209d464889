------------------------------ MODULE MCSampling ------------------------------
(* QUBOs of two and three variables.                                        *)
EXTENDS Sampling

Two(a, b, ab, offset) ==
  Encoding(2, (<<1, 1>> :> a) @@ (<<2, 2>> :> b) @@ (<<1, 2>> :> ab), offset, 2)

\* Three variables of different weight, the first and the last exclude each
\* other.
Three ==
  Encoding(3, [p \in Pairs(3) |-> IF p = <<1, 3>> THEN 4 ELSE IF p[1] = p[2] THEN p[1] - 3 ELSE 0],
           1, 2)

\* One where the order of the bits matters, one with two ground states, one
\* that has couplings only, a flat one, and one of three variables.
MCQubos ==
  {Two(-1, 2, 1, 0), Two(-1, -1, 2, 3), Two(-2, -2, 4, 0), Two(0, 0, 0, 5), Three}

\* Those of two variables that have terms.
MCNoisy == {q \in MCQubos : q.n = 2 /\ ~Degenerate(q)}
=============================================================================
