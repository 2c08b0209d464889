-------------------------------- MODULE Readout --------------------------------
(***************************************************************************)
(* Readout noise and its mitigation (backends/quantum.py, _noisy_evaluate  *)
(* and _readout_mitigate): every measured bit is misread with the same     *)
(* probability, and the mitigation applies the inverse of that confusion   *)
(* to the histogram, one qubit after the other, clips what became negative *)
(* and rounds.                                                             *)
(*                                                                         *)
(* Histograms are functions from all keys of a length to counts.  The      *)
(* probabilities are fractions of integers; the code computes in floating  *)
(* point.                                                                  *)
(***************************************************************************)
EXTENDS Qubo

CONSTANTS
  Misread, \* the readout error is Misread / Reads
  Reads,
  Parts    \* the mitigation drops entries of no more than 1 / Parts (1e-6)

\* The condition under which _readout_mitigate does not return its argument.
ASSUME ReadoutAssumption ==
  /\ Reads \in Nat \ {0} /\ Misread \in Nat \ {0} /\ 10 * Misread <= 4 * Reads
  /\ Parts \in Nat

Total(counts) == SumFunction(counts)

\* The product of f[1], ..., f[n].
Product(n, f) ==
  LET upTo[i \in 0..n] == IF i = 0 THEN 1 ELSE f[i] * upTo[i - 1]
  IN upTo[n]

Power(x, n) == Product(n, [i \in 1..n |-> x])

-----------------------------------------------------------------------------
\* The weight, of Power(Reads, n), with which key k of n bits is read as l.
Weight(n, k, l) ==
  Product(n, [i \in 1..n |-> IF k[i] = l[i] THEN Reads - Misread ELSE Misread])

\* ReadoutError at its mean: what is read on average if each count of d stands
\* for Power(Reads, n) shots on n qubits.
Expected(n, d) ==
  [l \in DOMAIN d |-> SumFunction([k \in DOMAIN d |-> d[k] * Weight(n, k, l)])]

\* Key k with the bit in place q the other way round.
Flip(k, q) == [k EXCEPT ![q] = 1 - @]

\* The average, and what differs from it by one more misreading of one bit.
Readings(n, d) ==
  LET mean == Expected(n, d)
  IN {mean} \cup
     {[mean EXCEPT ![k] = @ - 1, ![Flip(k, 1)] = @ + 1] : k \in {k \in DOMAIN d : mean[k] > 0}}

-----------------------------------------------------------------------------
\* a_inv along the axis of the bit in place q, times Reads - 2 * Misread: the
\* entry for reading a bit as it is, less the one for the other reading.
Unmix(tensor, q) ==
  [k \in DOMAIN tensor |->
    (Reads - Misread) * tensor[k] - Misread * tensor[Flip(k, q)]]

\* Mutant of Corrected: the axis that tensordot moves to the front is not
\* moved back, so that the next one is not the next qubit's.
CorrectedInFront(n, counts) ==
  LET Turned(k, q) == <<k[q]>> \o RemoveAt(k, q)
      Step(t, q) == LET u == Unmix(t, q)
                    IN [k \in DOMAIN t |-> u[CHOOSE l \in DOMAIN t : Turned(l, q) = k]]
      after[q \in 0..n] == IF q = 0 THEN counts ELSE Step(after[q - 1], q)
  IN after[n]

\* The loop over n qubits, the histogram being a tensor with an axis for each.
Corrected(n, counts) ==
  LET after[q \in 0..n] == IF q = 0 THEN counts ELSE Unmix(after[q - 1], q)
  IN after[n]

\* round(x / y) for x >= 0, half to even
Round(x, y) ==
  LET down == x \div y
      rest == 2 * (x % y)
  IN IF rest > y \/ (rest = y /\ down % 2 = 1) THEN down + 1 ELSE down

\* _readout_mitigate: corrected, clipped, normalised and rounded per key; what is
\* no more than one of Parts of the whole is dropped.
Mitigate(n, counts) ==
  LET corrected == Corrected(n, counts)
      clipped == [k \in DOMAIN counts |-> Max({0, corrected[k]})]
      whole == Max({1, Total(clipped)})
  IN [k \in DOMAIN clipped |->
       IF Parts * clipped[k] > whole THEN Round(clipped[k] * Total(counts), whole) ELSE 0]

=============================================================================
