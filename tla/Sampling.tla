------------------------------- MODULE Sampling -------------------------------
(***************************************************************************)
(* Sampling a QUBO on a quantum backend and accounting for what the        *)
(* sampling contributed: the solvers qaoa_sim (backends/quantum.py,        *)
(* solvers.py), qaoa_ibm (ibm_runtime.py), dwave_hybrid (dwave.py) and     *)
(* qaoa_pennylane (pennylane_backend.py), and _quantum_contribution of     *)
(* agents/verification.py.                                                 *)
(*                                                                         *)
(* Every framework labels the outcomes of a measurement in its own order,  *)
(* and every file decodes them with a function of its own: the solver to   *)
(* find its best sample, the verifier again to recompute all energies.     *)
(*                                                                         *)
(* Abstracted: the circuit, its parameters and its transpilation; a shot   *)
(* gives any bit string.  The energies are integers, so that the tolerance *)
(* of the comparisons separates what is different.  Gate noise is any      *)
(* histogram of its own, readout noise is that of module Readout.          *)
(***************************************************************************)
EXTENDS Readout

CONSTANTS
  Qubos,           \* the QUBOs to sample
  Noisy,           \* those of requests with noisy_simulation
  Backends,        \* the solvers considered
  Shots,           \* config.shots
  BruteforceLimit, \* Settings.bruteforce_qubit_limit
  None,            \* not computed
  BackendError     \* the result of a solver that raised

ASSUME SamplingAssumption ==
  /\ Backends \subseteq {"qaoa_sim", "qaoa_ibm", "dwave_hybrid", "qaoa_pennylane"}
  /\ Noisy \subseteq Qubos
  /\ Shots \in Nat \ {0} /\ BruteforceLimit \in Nat
  /\ \A q \in Qubos : IsQubo(q) /\ q.n > 0
  /\ \A q \in Noisy : q.n <= 16 \* above, _readout_mitigate returns its argument

VARIABLES
  qubo,        \* state.qubo
  backend,     \* the solver that was chosen
  exact,       \* state.qubo_exact_energy
  result,      \* its QuboSolution, as far as QaoaResult keeps it
  noisy,       \* what the noisy pass of the simulator measured, read and corrected
  contribution \* quantum_contribution of its report

samplingVars == <<qubo, backend, exact, result, noisy, contribution>>

-----------------------------------------------------------------------------
(* Outcomes and their labels                                               *)

\* How often each bit string came out of the given number of shots.
Draws(n, shots) ==
  {d \in [Bits(n) -> 0..shots] : SumFunction(d) = shots}

\* What the frameworks call outcome b: Qiskit writes qubit 0 last, PennyLane
\* numbers the outcomes with wire 0 as the most significant bit.
QiskitKeys(n) == [b \in Bits(n) |-> Reverse(b)]
PennyLaneIndex(b) == SumFunction([i \in DOMAIN b |-> b[i] * 2^(Len(b) - i)])

\* A histogram: the keys that occurred, and how often.
Histogram(d, key) ==
  LET seen == {b \in DOMAIN d : d[b] > 0}
  IN [k \in {key[b] : b \in seen} |->
       SumFunctionOnSet(d, {b \in seen : key[b] = k})]

\* The keys DwaveHybridSolver gives to samples: variable n - 1 leftmost.
DwaveKeys(n) == [b \in Bits(n) |-> Reverse(b)]

\* key_to_bits of _rank_bitstrings and _bits of ibm_runtime.py
KeyToBits(key) == [i \in DOMAIN key |-> key[Len(key) + 1 - i]]

\* Mutant of VerifierBits: reads the key from left to right.
VerifierBitsForward(key) == key

\* _key_to_bits of the verifier
VerifierBits(key) == [i \in DOMAIN key |-> key[Len(key) + 1 - i]]

\* idx_to_bits
IndexToBits(k, n) == [w \in 1..n |-> (k \div 2^(n - w)) % 2]

\* Sum and minimum of the energies of a histogram as the solvers read it.
Sum(counts) == SumFunction([k \in DOMAIN counts |-> counts[k] * Energy(qubo, KeyToBits(k))])

Least(counts) == Min({Energy(qubo, KeyToBits(k)) : k \in DOMAIN counts})

-----------------------------------------------------------------------------
(* The solvers                                                             *)

\* _ising_terms finds no term: the Hamiltonian is a constant.
Degenerate(q) ==
  LET H == Ising(q)
  IN (\A i \in DOMAIN H.h : H.h[i] = 0) /\ (\A p \in DOMAIN H.J : H.J[p] = 0)

Solution(bits, counts, sum, degenerate) ==
  [bits |-> bits, energy |-> Energy(qubo, bits), counts |-> counts, sum |-> sum,
   degenerate |-> degenerate]

\* The best string of a histogram; min() takes any of several.
Solved(counts) ==
  \E k \in DOMAIN counts :
    /\ Energy(qubo, KeyToBits(k)) = Least(counts)
    /\ result' = Solution(KeyToBits(k), counts, Sum(counts), FALSE)

Init ==
  /\ qubo \in Qubos
  /\ backend \in Backends
  /\ exact = IF qubo.n <= BruteforceLimit THEN Energy(qubo, BruteForce(qubo)) ELSE None
  /\ result = None
  /\ noisy = None
  /\ contribution = None

Solves(b) ==
  /\ backend = b /\ result = None
  /\ UNCHANGED <<qubo, backend, exact, contribution>>

\* _noisy_evaluate: a histogram of the keys is read with errors, which the
\* mitigation corrects.
NoisyPass ==
  \E d \in Draws(qubo.n, Shots) : \E read \in Readings(qubo.n, d) :
    noisy' = [outcomes |-> d, read |-> read, mitigated |-> Mitigate(qubo.n, read)]

\* run_qaoa: a constant Hamiltonian is answered at once; the noisy pass follows
\* if the request asks for it.
SolveSim ==
  /\ Solves("qaoa_sim")
  /\ IF Degenerate(qubo)
       THEN /\ result' = Solution([i \in 1..qubo.n |-> 0], <<>>, None, TRUE)
            /\ UNCHANGED noisy
       ELSE /\ \E d \in Draws(qubo.n, Shots) : Solved(Histogram(d, QiskitKeys(qubo.n)))
            /\ IF qubo \in Noisy THEN NoisyPass ELSE UNCHANGED noisy

\* IbmRuntimeQaoaSolver.solve; an empty or malformed histogram, as any failure
\* of the service, and a constant Hamiltonian are a BackendError.
SolveIbm ==
  /\ Solves("qaoa_ibm") /\ UNCHANGED noisy
  /\ ~Degenerate(qubo)
  /\ \E d \in Draws(qubo.n, Shots) : Solved(Histogram(d, QiskitKeys(qubo.n)))

\* DwaveHybridSolver.solve: a sample set of up to Shots samples, of which
\* sampleset.first is one of the lowest energy.
SolveDwave ==
  /\ Solves("dwave_hybrid") /\ UNCHANGED noisy
  /\ \E shots \in 1..Shots : \E d \in Draws(qubo.n, shots) :
       LET seen == {b \in Bits(qubo.n) : d[b] > 0}
       IN \E first \in seen :
            /\ \A b \in seen : Energy(qubo, first) <= Energy(qubo, b)
            /\ result' = Solution(first, Histogram(d, DwaveKeys(qubo.n)),
                                  SumFunction([b \in seen |-> d[b] * Energy(qubo, b)]), FALSE)

\* PennyLaneQaoaSolver.solve keeps no histogram; its loop over the distinct
\* indices keeps one of the lowest energy.
SolvePennyLane ==
  /\ Solves("qaoa_pennylane") /\ UNCHANGED noisy
  /\ ~Degenerate(qubo)
  /\ \E d \in Draws(qubo.n, Shots) :
       LET seen == {IndexToBits(PennyLaneIndex(b), qubo.n) : b \in {b \in Bits(qubo.n) : d[b] > 0}}
       IN \E b \in seen :
            /\ \A c \in seen : Energy(qubo, b) <= Energy(qubo, c)
            /\ result' = Solution(b, <<>>, None, FALSE)

\* The solver raises: its framework or its service is missing or fails, or, for
\* two of them, the Hamiltonian is constant.  There is no result.
SolverRaises ==
  /\ result = None
  /\ result' = BackendError
  /\ UNCHANGED <<qubo, backend, exact, noisy, contribution>>

-----------------------------------------------------------------------------
(* The verifier: as many uniformly random bit strings as there are shots   *)

\* How many shots of d are optimal.
Optimal(d) == SumFunctionOnSet(d, {b \in DOMAIN d : Energy(qubo, b) <= exact})

\* Sum of the energies of as many strings as there are in d.
SumOf(d) == SumFunction([b \in DOMAIN d |-> d[b] * Energy(qubo, b)])

\* Mutant of Contributed: the optimal shots are not compared.
ContributedByMean(shots, random) == SumOf(shots) < SumOf(random)

\* The mean is below that of the random strings, and no fewer shots are
\* optimal, if the optimum is known.
Contributed(shots, random) ==
  /\ SumOf(shots) < SumOf(random)
  /\ exact # None => Optimal(shots) >= Optimal(random)

\* The shots of a histogram, by the bits the verifier reads in their keys.
VerifierShots(counts) ==
  [b \in Bits(qubo.n) |->
    SumFunctionOnSet(counts, {k \in DOMAIN counts : VerifierBits(k) = b})]

\* _quantum_contribution, called by verification_agent unless degenerate.
Account ==
  /\ result \notin {None, BackendError} /\ contribution = None
  /\ backend # "qaoa_pennylane" /\ ~result.degenerate
  /\ LET shots == VerifierShots(result.counts)
         least == Min({Energy(qubo, b) : b \in {b \in DOMAIN shots : shots[b] > 0}})
     IN \E random \in Draws(qubo.n, Total(result.counts)) :
          contribution' =
            [sum |-> SumOf(shots), min |-> least, reached |-> exact # None /\ least <= exact,
             contributed |-> Contributed(shots, random), random |-> random]
  /\ UNCHANGED <<qubo, backend, exact, result, noisy>>

Done == result # None /\ UNCHANGED samplingVars

Next ==
  \/ SolveSim \/ SolveIbm \/ SolveDwave \/ SolvePennyLane \/ SolverRaises
  \/ Account \/ Done

Spec == Init /\ [][Next]_samplingVars

-----------------------------------------------------------------------------
Ground(b) == \A c \in Bits(qubo.n) : Energy(qubo, b) <= Energy(qubo, c)

\* Whatever order a framework labels its outcomes in, the verifier reads the
\* histogram as the solver did: it finds the same mean energy and the same
\* lowest energy, and says that the ground state was reached exactly if the
\* solution the solver reported is one.  A Hamiltonian without terms is that of
\* a QUBO on which all bit strings cost the same (quantum.py:237-281,
\* dwave.py:59-75, verification.py:26-98).
VerifierAgrees ==
  /\ result \notin {None, BackendError} /\ result.degenerate =>
       \A b \in Bits(qubo.n) : Energy(qubo, b) = result.energy
  /\ contribution # None =>
       /\ contribution.sum = result.sum /\ contribution.min = result.energy
       /\ contribution.reached <=> exact # None /\ Ground(result.bits)

\* A contribution is not luck alone: whenever one is attributed, the sampling
\* was better than some random string that was drawn, and if one of those was
\* optimal then so is the solution the solver reported (verification.py:71-77).
ContributionEarned ==
  contribution # None /\ contribution.contributed =>
    LET drawn == {b \in Bits(qubo.n) : contribution.random[b] > 0}
    IN /\ \E b \in drawn : result.energy < Energy(qubo, b)
       /\ exact # None /\ (\E b \in drawn : Ground(b)) => Ground(result.bits)

\* The mitigation takes back the noise and nothing else: of a histogram that is
\* misread as it is on average it gives back every count, for outcomes that
\* treat the qubits differently too, and of one with one misreading more no
\* count is off by more than the inverse confusion amplifies one reading to,
\* a factor of 1 / (1 - 2p) for every qubit, and the half that rounding may add:
\* as long as the share of the histogram up to which entries are dropped is less
\* than half the share of one outcome (quantum.py:150-171).
MitigationInverts ==
  noisy # None /\ 2 * Shots < Parts =>
    LET Measured(k) == Power(Reads, qubo.n) * noisy.outcomes[k]
    IN \A k \in Bits(qubo.n) :
         LET off == Max({noisy.mitigated[k] - Measured(k), Measured(k) - noisy.mitigated[k]})
         IN IF noisy.read = Expected(qubo.n, noisy.outcomes) THEN off = 0
            ELSE (2 * off - 1) * Power(Reads - 2 * Misread, qubo.n) <= 2 * Power(Reads, qubo.n)
=============================================================================
