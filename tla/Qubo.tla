--------------------------------- MODULE Qubo ---------------------------------
(***************************************************************************)
(* Quadratic unconstrained binary optimization (Qubo, qubo_energy and      *)
(* qubo_to_ising of finance/collateral.py, brute_force_qubo of             *)
(* backends/heuristic.py): an energy over bit strings, its Ising form and  *)
(* its exact minimum.                                                      *)
(*                                                                         *)
(* The code's coefficients are fractions.  An energy is used to rank bit   *)
(* strings only, so a module that builds one here multiplies it by the     *)
(* common denominator: all coefficients are integers.                      *)
(***************************************************************************)
EXTENDS Integers, SequencesExt

\* Values of n binary variables; the code counts them from 0.
Bits(n) == [1..n -> {0, 1}]

\* The keys of Q: upper triangular.
Pairs(n) == {p \in (1..n) \X (1..n) : p[1] <= p[2]}

\* A Qubo: n variables, Q, offset, and the number of decision variables.
Encoding(n, Q, offset, decisions) ==
  [n |-> n, Q |-> Q, offset |-> offset, decisions |-> decisions]

\* What every encoder builds, with integers for the code's fractions.
IsQubo(q) == q.n \in Nat /\ q.Q \in [Pairs(q.n) -> Int] /\ q.offset \in Int

NoEncoding == Encoding(0, <<>>, 0, 0)  \* "Degenerate instance: no QUBO to build."

\* qubo_energy
Energy(q, b) ==
  q.offset + SumFunction([p \in Pairs(q.n) |-> q.Q[p] * b[p[1]] * b[p[2]]])

\* Q with the square of the linear form sum c[i] x[i] + const multiplied out,
\* using x * x = x; the square of const is left to the offset.
Square(n, c, const) ==
  [p \in Pairs(n) |->
    IF p[1] = p[2] THEN c[p[1]] * c[p[1]] + 2 * const * c[p[1]]
    ELSE 2 * c[p[1]] * c[p[2]]]

\* Mutant of Ising: a coupling lowers one of its two fields only.
IsingLopsided(q) ==
  LET Couples(i) == {p \in Pairs(q.n) : p[1] = i /\ p[2] # i}
  IN [const |-> 4 * q.offset
                  + SumFunction([p \in Pairs(q.n) |-> IF p[1] = p[2] THEN 2 * q.Q[p] ELSE q.Q[p]]),
      h |-> [i \in 1..q.n |->
              -2 * q.Q[<<i, i>>] - SumFunctionOnSet(q.Q, Couples(i))],
      J |-> [p \in {p \in Pairs(q.n) : p[1] # p[2]} |-> q.Q[p]]]

\* qubo_to_ising, multiplied by 4.
Ising(q) ==
  LET Couples(i) == {p \in Pairs(q.n) : i \in {p[1], p[2]} /\ p[1] # p[2]}
  IN [const |-> 4 * q.offset
                  + SumFunction([p \in Pairs(q.n) |-> IF p[1] = p[2] THEN 2 * q.Q[p] ELSE q.Q[p]]),
      h |-> [i \in 1..q.n |->
              -2 * q.Q[<<i, i>>] - SumFunctionOnSet(q.Q, Couples(i))],
      J |-> [p \in {p \in Pairs(q.n) : p[1] # p[2]} |-> q.Q[p]]]

\* The value of an Ising Hamiltonian for spins z.
IsingEnergy(H, z) ==
  H.const + SumFunction([i \in DOMAIN H.h |-> H.h[i] * z[i]])
          + SumFunction([p \in DOMAIN H.J |-> H.J[p] * z[p[1]] * z[p[2]]])

\* x = (1 - z) / 2
Spins(b) == [i \in DOMAIN b |-> 1 - 2 * b[i]]

\* The number whose binary digits are b: the order brute_force_qubo tries in.
Mask(b) == SumFunction([i \in DOMAIN b |-> b[i] * 2^(i - 1)])

\* brute_force_qubo: of several minima, the first it meets.
BruteForce(q) ==
  LET E == [b \in Bits(q.n) |-> Energy(q, b)]
      minima == {b \in Bits(q.n) : \A a \in Bits(q.n) : E[b] <= E[a]}
  IN CHOOSE b \in minima : \A a \in minima : Mask(b) <= Mask(a)

\* The indices of s, ordered by the strict order before(_, _) and, where it
\* does not decide, by position: sorted() of Python is stable.
StableSort(s, before(_, _)) ==
  LET Precedes(i, j) == before(s[i], s[j]) \/ (~before(s[j], s[i]) /\ i < j)
      Rank(i) == Cardinality({j \in DOMAIN s : Precedes(j, i)})
  IN [k \in DOMAIN s |-> s[CHOOSE i \in DOMAIN s : Rank(i) = k - 1]]

\* The elements of s at the places in kept, in their order.
Kept(s, kept) ==
  LET Rank(i) == Cardinality({j \in kept : j < i})
  IN [k \in 1..Cardinality(kept) |-> s[CHOOSE i \in kept : Rank(i) = k - 1]]
=============================================================================
