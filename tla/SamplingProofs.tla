---------------------------- MODULE SamplingProofs ----------------------------
(***************************************************************************)
(* Proofs about module Sampling, for every number of qubits and shots, all *)
(* QUBOs with integer coefficients and every readout error that the        *)
(* mitigation treats: that the verifier reads a histogram as the solver    *)
(* did, that a contribution is earned, and that the mitigation of readout  *)
(* noise takes back the noise and nothing else.                            *)
(***************************************************************************)
EXTENDS Sampling, QuboProofs

-----------------------------------------------------------------------------
(* Sums of numbers                                                         *)

\* A function that is nowhere larger than another has no larger sum.
LEMMA SumMonotone ==
  ASSUME NEW S, NEW f, NEW g, Summable(f, S), Summable(g, S), \A x \in S : f[x] <= g[x]
  PROVE  SumFunctionOnSet(f, S) <= SumFunctionOnSet(g, S)
<1> DEFINE k == [x \in S |-> g[x] - f[x]]
<1>1. IsFiniteSet(S) /\ \A x \in S : f[x] \in Int /\ g[x] \in Int
  BY DEF Summable
<1>2. \A x \in S : k[x] \in Nat /\ k[x] \in Int /\ g[x] = f[x] + k[x]
  BY <1>1
<1> HIDE DEF k
<1>3. Summable(k, S)
  BY <1>1, <1>2 DEF Summable
<1>4. SumFunctionOnSet(g, S) = SumFunctionOnSet(f, S) + SumFunctionOnSet(k, S)
  BY <1>2, <1>3, SumPlus
<1>5. SumFunctionOnSet(k, S) \in Nat
  BY <1>1, <1>2, SumOfNaturals
<1>6. SumFunctionOnSet(f, S) \in Int
  BY <1>1, SumType
<1> QED
  BY <1>4, <1>5, <1>6

\* No term of a sum of natural numbers is above it.
LEMMA TermBounded ==
  ASSUME NEW S, NEW f, IsFiniteSet(S), \A x \in S : f[x] \in Nat
  PROVE  \A x \in S : f[x] <= SumFunctionOnSet(f, S)
<1> TAKE x \in S
<1> DEFINE T == {x}
<1>1. SumFunctionOnSet(f, T) = f[x]
  <2>1. f[x] \in Int
    OBVIOUS
  <2>2. SumFunctionOnSet(f, {x}) = f[x]
    BY <2>1, SumOne
  <2> QED
    BY <2>2
<1>2. T \in SUBSET S
  OBVIOUS
<1> HIDE DEF T
<1>3. SumFunctionOnSet(f, T) <= SumFunctionOnSet(f, S)
  BY <1>2, SumOfNaturals
<1> QED
  BY <1>1, <1>3

\* A sum of numbers that are not negative is positive exactly if one of them is.
LEMMA SumPositive ==
  ASSUME NEW S, NEW f, IsFiniteSet(S), \A x \in S : f[x] \in Nat
  PROVE  /\ SumFunctionOnSet(f, S) \in Nat
         /\ (\E x \in S : f[x] > 0) <=> SumFunctionOnSet(f, S) > 0
<1>1. SumFunctionOnSet(f, S) \in Nat
  BY SumOfNaturals
<1>2. ASSUME NEW x \in S, f[x] > 0
      PROVE  SumFunctionOnSet(f, S) > 0
  <2> DEFINE T == {x}
  <2>1. SumFunctionOnSet(f, T) = f[x]
    BY SumOne
  <2>2. T \in SUBSET S
    OBVIOUS
  <2> HIDE DEF T
  <2>3. SumFunctionOnSet(f, T) <= SumFunctionOnSet(f, S)
    BY <2>2, SumOfNaturals
  <2> QED
    BY <1>1, <1>2, <2>1, <2>3
<1>3. ASSUME \A x \in S : ~(f[x] > 0)
      PROVE  SumFunctionOnSet(f, S) = 0
  <2> DEFINE T == {}
  <2>1. \A x \in S \ T : f[x] = 0
    BY <1>3
  <2>2. Summable(f, T) /\ T \in SUBSET S /\ SumFunctionOnSet(f, T) = 0
    BY FS_EmptySet, SumType DEF Summable
  <2> HIDE DEF T
  <2> QED
    BY <2>1, <2>2, SumZeros
<1> QED
  BY <1>1, <1>2, <1>3

\* A sum of zeros is zero.
LEMMA SumNothing ==
  ASSUME NEW f, IsFiniteSet(DOMAIN f), \A x \in DOMAIN f : f[x] = 0
  PROVE  SumFunction(f) = 0
<1>1. \A x \in DOMAIN f : f[x] \in Nat /\ ~(f[x] > 0)
  OBVIOUS
<1>2. SumFunctionOnSet(f, DOMAIN f) \in Nat /\ ~(SumFunctionOnSet(f, DOMAIN f) > 0)
  BY <1>1, SumPositive
<1>3. SumFunction(f) = SumFunctionOnSet(f, DOMAIN f)
  BY SumOfDomain
<1> QED
  BY <1>2, <1>3

\* The least of the values a function takes on a set is one, and no other is less.
LEMMA LeastOf ==
  ASSUME NEW f, NEW S, NEW values, Summable(f, S), values = {f[x] : x \in S}, NEW x \in S,
         \A y \in S : f[x] <= f[y]
  PROVE  Min(values) = f[x]
<1>1. f[x] \in values /\ \A v \in values : v \in Int /\ f[x] <= v
  BY DEF Summable
<1>2. Min(values) \in values /\ \A v \in values : Min(values) <= v
  BY <1>1 DEF Min
<1> QED
  BY <1>1, <1>2

-----------------------------------------------------------------------------
(* Histograms                                                              *)

\* The outcomes that occurred.
Seen(d) == {b \in DOMAIN d : d[b] > 0}

\* Shots have counts for all bit strings, that sum up to their number.
LEMMA DrawsAre ==
  ASSUME NEW n \in Nat, NEW shots \in Nat, NEW d \in Draws(n, shots)
  PROVE  /\ DOMAIN d = Bits(n) /\ IsFiniteSet(Bits(n))
         /\ \A b \in Bits(n) : d[b] \in Nat
         /\ Summable(d, Bits(n))
         /\ SumFunctionOnSet(d, Bits(n)) = shots
         /\ Seen(d) \subseteq Bits(n) /\ IsFiniteSet(Seen(d))
         /\ \A b \in Bits(n) \ Seen(d) : d[b] = 0
         /\ shots > 0 => Seen(d) # {}
<1>1. d \in [Bits(n) -> 0..shots] /\ SumFunction(d) = shots
  BY DEF Draws
<1>2. DOMAIN d = Bits(n) /\ IsFiniteSet(Bits(n)) /\ \A b \in Bits(n) : d[b] \in Nat
  BY <1>1, BitsFinite
<1>3. SumFunctionOnSet(d, Bits(n)) = shots
  BY <1>1, <1>2, SumOfDomain
<1>4. Seen(d) \subseteq Bits(n) /\ \A b \in Bits(n) \ Seen(d) : d[b] = 0
  BY <1>2 DEF Seen
<1>5. IsFiniteSet(Seen(d))
  BY <1>2, <1>4, FS_Subset
<1>6. shots > 0 => Seen(d) # {}
  <2>1. shots > 0 => \E b \in Bits(n) : d[b] > 0
    BY <1>2, <1>3, SumPositive
  <2> QED
    BY <1>2, <2>1 DEF Seen
<1>7. Summable(d, Bits(n))
  BY <1>2 DEF Summable
<1> QED
  BY <1>2, <1>3, <1>4, <1>5, <1>6, <1>7

\* Read from its other end, a bit string is one, and is itself when read so again.
LEMMA ReversedBits ==
  ASSUME NEW n \in Nat, NEW b \in Bits(n)
  PROVE  /\ Reverse(b) \in Bits(n)
         /\ KeyToBits(b) = Reverse(b) /\ VerifierBits(b) = Reverse(b)
         /\ Reverse(Reverse(b)) = b
<1>1. b \in Seq({0, 1}) /\ b \in [1..n -> {0, 1}] /\ Len(b) = n /\ DOMAIN b = 1..n
  BY DEF Bits
<1>2. Reverse(b) = [i \in 1..n |-> b[(n - i) + 1]]
  BY <1>1 DEF Reverse
<1>3. \A i \in 1..n : (n - i) + 1 \in 1..n /\ (n - ((n - i) + 1)) + 1 = i /\ (n - i) + 1 = n + 1 - i
  OBVIOUS
<1>4. Reverse(b) \in [1..n -> {0, 1}]
  BY <1>1, <1>2, <1>3
<1>5. Reverse(b) \in Seq({0, 1}) /\ Len(Reverse(b)) = n
  BY <1>4
<1>6. Reverse(Reverse(b)) = [i \in 1..n |-> Reverse(b)[(n - i) + 1]]
  BY <1>5 DEF Reverse
<1>7. Reverse(Reverse(b)) = b
  <2>1. \A i \in 1..n : Reverse(b)[(n - i) + 1] = b[i]
    BY <1>2, <1>3
  <2> QED
    BY <1>1, <1>6, <2>1
<1>8. KeyToBits(b) = Reverse(b) /\ VerifierBits(b) = Reverse(b)
  BY <1>1, <1>2, <1>3 DEF KeyToBits, VerifierBits
<1> QED
  BY <1>4, <1>7, <1>8 DEF Bits

\* counts has the outcomes of d that occurred, each read from its other end.
CountsOf(counts, d) ==
  /\ DOMAIN counts = {Reverse(b) : b \in Seen(d)}
  /\ \A b \in Seen(d) : counts[Reverse(b)] = d[b]

\* The histograms of Qiskit and of the D-Wave solver are such.
LEMMA HistogramIs ==
  ASSUME NEW n \in Nat, NEW shots \in Nat, NEW d \in Draws(n, shots), NEW key,
         key = [b \in Bits(n) |-> Reverse(b)]
  PROVE  CountsOf(Histogram(d, key), d)
<1> DEFINE seen == Seen(d)
           At(k) == {b \in seen : key[b] = k}
<1>1. /\ seen \subseteq Bits(n)
      /\ \A b \in Bits(n) : d[b] \in Nat
  BY DrawsAre
<1>2. Histogram(d, key) = [k \in {key[b] : b \in seen} |-> SumFunctionOnSet(d, At(k))]
  BY DEF Histogram, Seen
<1>3. \A b \in seen : key[b] = Reverse(b)
  BY <1>1
<1>4. DOMAIN Histogram(d, key) = {Reverse(b) : b \in seen}
  BY <1>2, <1>3
<1>5. ASSUME NEW b \in seen
      PROVE  Histogram(d, key)[Reverse(b)] = d[b]
  <2>1. \A c \in seen : Reverse(c) = Reverse(b) => c = b
    <3>1. \A c \in Bits(n) : Reverse(Reverse(c)) = c
      BY ReversedBits
    <3> QED
      BY <1>1, <3>1
  <2>2. At(Reverse(b)) = {b}
    BY <1>3, <2>1
  <2>3. Histogram(d, key)[Reverse(b)] = SumFunctionOnSet(d, At(Reverse(b)))
    BY <1>2, <1>3
  <2>4. d[b] \in Int
    BY <1>1
  <2>5. SumFunctionOnSet(d, {b}) = d[b]
    BY <2>4, SumOne
  <2> QED
    BY <2>2, <2>3, <2>5
<1> QED
  BY <1>4, <1>5 DEF CountsOf

\* The sum over the keys of a histogram of a count that both read alike.
LEMMA SumOverKeys ==
  ASSUME NEW n \in Nat, NEW shots \in Nat, NEW d \in Draws(n, shots), NEW counts,
         CountsOf(counts, d), NEW f, NEW g, \A b \in Bits(n) : g[b] \in Int,
         \A b \in Seen(d) : f[Reverse(b)] = g[b],
         \A b \in Bits(n) \ Seen(d) : g[b] = 0
  PROVE  SumFunctionOnSet(f, DOMAIN counts) = SumFunctionOnSet(g, Bits(n))
<1> DEFINE m == [b \in Seen(d) |-> Reverse(b)]
<1>1. Seen(d) \subseteq Bits(n) /\ IsFiniteSet(Seen(d)) /\ IsFiniteSet(Bits(n))
  BY DrawsAre
<1>2. \A b \in Seen(d) : m[b] = Reverse(b) /\ f[m[b]] \in Int /\ g[b] = f[m[b]]
  BY <1>1
<1>3. \A b, c \in Seen(d) : m[b] = m[c] => b = c
  <2>1. \A c \in Bits(n) : Reverse(Reverse(c)) = c
    BY ReversedBits
  <2> QED
    BY <1>1, <1>2, <2>1
<1>4. {m[b] : b \in Seen(d)} = DOMAIN counts
  BY <1>2 DEF CountsOf
<1> HIDE DEF m
<1>5. SumFunctionOnSet(f, {m[b] : b \in Seen(d)}) = SumFunctionOnSet(g, Seen(d))
  BY <1>1, <1>2, <1>3, SumRenamed
<1>6. Summable(g, Seen(d)) /\ Seen(d) \in SUBSET Bits(n)
  BY <1>1 DEF Summable
<1>7. SumFunctionOnSet(g, Bits(n)) = SumFunctionOnSet(g, Seen(d))
  BY <1>1, <1>6, SumZeros
<1> QED
  BY <1>4, <1>5, <1>7

\* The energy of the QUBO by bit strings.
LEMMA EnergiesAre ==
  ASSUME IsQubo(qubo), NEW d, NEW shots \in Nat, d \in Draws(qubo.n, shots)
  PROVE  /\ \A b \in Bits(qubo.n) : Energy(qubo, b) \in Int /\ d[b] * Energy(qubo, b) \in Int
         /\ SumOf(d) = SumFunctionOnSet([b \in Bits(qubo.n) |-> d[b] * Energy(qubo, b)],
                                        Bits(qubo.n))
         /\ SumOf(d) \in Int
<1> DEFINE g == [b \in Bits(qubo.n) |-> d[b] * Energy(qubo, b)]
<1>1. qubo.n \in Nat
  BY DEF IsQubo
<1>2. DOMAIN d = Bits(qubo.n) /\ IsFiniteSet(Bits(qubo.n)) /\ \A b \in Bits(qubo.n) : d[b] \in Nat
  BY <1>1, DrawsAre
<1>3. \A b \in Bits(qubo.n) : Energy(qubo, b) \in Int /\ d[b] * Energy(qubo, b) \in Int
  BY <1>2, TermsAre
<1>4. SumOf(d) = SumFunction(g) /\ DOMAIN g = Bits(qubo.n) /\ \A b \in Bits(qubo.n) : g[b] \in Int
  BY <1>2, <1>3 DEF SumOf
<1>5. SumFunction(g) = SumFunctionOnSet(g, Bits(qubo.n)) /\ SumFunctionOnSet(g, Bits(qubo.n)) \in Int
  <2> HIDE DEF g
  <2> QED
    BY <1>2, <1>4, SumOfDomain, SumType
<1> QED
  BY <1>3, <1>4, <1>5

\* The verifier finds the shots in the histogram, and the solver their energies.
LEMMA KeysAgree ==
  ASSUME IsQubo(qubo), NEW shots \in Nat, NEW d \in Draws(qubo.n, shots), NEW counts,
         CountsOf(counts, d)
  PROVE  /\ VerifierShots(counts) = d
         /\ Total(counts) = shots
         /\ Sum(counts) = SumOf(d)
<1> DEFINE n == qubo.n
           f == [k \in DOMAIN counts |-> counts[k] * Energy(qubo, KeyToBits(k))]
           g == [b \in Bits(n) |-> d[b] * Energy(qubo, b)]
<1>1. n \in Nat
  BY DEF IsQubo
<1>2. /\ d \in [Bits(n) -> 0..shots] /\ \A b \in Bits(n) : d[b] \in Int
      /\ Seen(d) \subseteq Bits(n) /\ \A b \in Bits(n) \ Seen(d) : d[b] = 0
      /\ SumFunctionOnSet(d, Bits(n)) = shots
  BY <1>1, DrawsAre DEF Draws
<1>3. \A b \in Bits(n) : /\ Reverse(b) \in Bits(n) /\ KeyToBits(b) = Reverse(b)
                         /\ VerifierBits(b) = Reverse(b) /\ Reverse(Reverse(b)) = b
  BY <1>1, ReversedBits
<1>4. ASSUME NEW b \in Bits(n)
      PROVE  SumFunctionOnSet(counts, {k \in DOMAIN counts : VerifierBits(k) = b}) = d[b]
  <2>1. \A k \in DOMAIN counts : VerifierBits(k) = b <=> k = Reverse(b)
    <3> TAKE k \in DOMAIN counts
    <3>1. PICK c \in Seen(d) : k = Reverse(c)
      BY DEF CountsOf
    <3>2. VerifierBits(k) = c
      BY <1>2, <1>3, <3>1
    <3>3. Reverse(c) = Reverse(b) => c = b
      BY <1>2, <1>3
    <3> QED
      BY <3>1, <3>2, <3>3
  <2>2. CASE b \in Seen(d)
    <3>1. Reverse(b) \in DOMAIN counts /\ counts[Reverse(b)] = d[b] /\ d[b] \in Int
      BY <1>2, <2>2 DEF CountsOf
    <3>2. {k \in DOMAIN counts : VerifierBits(k) = b} = {Reverse(b)}
      BY <2>1, <3>1
    <3>3. SumFunctionOnSet(counts, {Reverse(b)}) = counts[Reverse(b)]
      BY <3>1, SumOne
    <3> QED
      BY <3>1, <3>2, <3>3
  <2>3. CASE b \notin Seen(d)
    <3>1. Reverse(b) \notin DOMAIN counts
      <4>1. \A c \in Seen(d) : Reverse(c) = Reverse(b) => c = b
        BY <1>2, <1>3
      <4> QED
        BY <2>3, <4>1 DEF CountsOf
    <3>2. {k \in DOMAIN counts : VerifierBits(k) = b} = {}
      BY <2>1, <3>1
    <3> QED
      BY <1>2, <2>3, <3>2, SumType
  <2> QED
    BY <2>2, <2>3
<1>5. VerifierShots(counts) = d
  <2>1. d = [b \in Bits(n) |-> d[b]]
    BY <1>2
  <2> QED
    BY <1>4, <2>1 DEF VerifierShots
<1>6. Total(counts) = shots
  <2>1. Total(counts) = SumFunctionOnSet(counts, DOMAIN counts)
    BY SumOfDomain DEF Total
  <2>2. \A b \in Seen(d) : counts[Reverse(b)] = d[b]
    BY DEF CountsOf
  <2>3. SumFunctionOnSet(counts, DOMAIN counts) = SumFunctionOnSet(d, Bits(n))
    <3> HIDE DEF n
    <3> QED
      BY <1>1, <1>2, <2>2, SumOverKeys DEF n
  <2> QED
    BY <1>2, <2>1, <2>3
<1>7. Sum(counts) = SumOf(d)
  <2>1. Sum(counts) = SumFunctionOnSet(f, DOMAIN counts)
    <3>1. Sum(counts) = SumFunction(f) /\ DOMAIN f = DOMAIN counts
      BY DEF Sum
    <3> HIDE DEF f
    <3> QED
      BY <3>1, SumOfDomain
  <2>2. \A b \in Bits(n) : g[b] = d[b] * Energy(qubo, b) /\ g[b] \in Int
    BY EnergiesAre
  <2>3. \A b \in Bits(n) \ Seen(d) : g[b] = 0
    <3>1. \A b \in Bits(n) : Energy(qubo, b) \in Int
      BY EnergiesAre
    <3> QED
      BY <1>2, <3>1
  <2>4. \A b \in Seen(d) : f[Reverse(b)] = g[b]
    BY <1>2, <1>3 DEF CountsOf
  <2>5. SumOf(d) = SumFunctionOnSet(g, Bits(n))
    BY EnergiesAre
  <2> HIDE DEF f, g
  <2>6. SumFunctionOnSet(f, DOMAIN counts) = SumFunctionOnSet(g, Bits(n))
    BY <1>1, <2>2, <2>3, <2>4, SumOverKeys
  <2> QED
    BY <2>1, <2>5, <2>6
<1> QED
  BY <1>5, <1>6, <1>7

-----------------------------------------------------------------------------
(* The invariant of a run                                                  *)

\* Some shots gave the histogram and the energies, and bits is the best of them.
Taken(shots, d, counts, bits, sum) ==
  /\ CountsOf(counts, d)
  /\ sum = SumOf(d)
  /\ bits \in Seen(d)
  /\ \A b \in Seen(d) : Energy(qubo, bits) <= Energy(qubo, b)

ResultInv ==
  result \notin {None, BackendError} =>
    /\ result.energy = Energy(qubo, result.bits)
    /\ result.degenerate => \A b \in Bits(qubo.n) : Energy(qubo, b) = result.energy
    /\ ~result.degenerate /\ backend # "qaoa_pennylane" =>
         \E shots \in 1..Shots : \E d \in Draws(qubo.n, shots) :
           Taken(shots, d, result.counts, result.bits, result.sum)

\* What the verifier reports of these shots and the random strings.
Report(d, random) ==
  [sum |-> SumOf(d), min |-> result.energy,
   reached |-> exact # None /\ result.energy <= exact,
   contributed |-> Contributed(d, random), random |-> random]

ContributionInv ==
  contribution # None =>
    /\ result \notin {None, BackendError} /\ result.energy = Energy(qubo, result.bits)
    /\ \E shots \in 1..Shots : \E d, random \in Draws(qubo.n, shots) :
         /\ Taken(shots, d, result.counts, result.bits, result.sum)
         /\ contribution = Report(d, random)

NoisyInv ==
  noisy # None =>
    \E d \in Draws(qubo.n, Shots) : \E read \in Readings(qubo.n, d) :
      noisy = [outcomes |-> d, read |-> read, mitigated |-> Mitigate(qubo.n, read)]

SampInv ==
  /\ qubo \in Qubos
  /\ exact = IF qubo.n <= BruteforceLimit THEN Energy(qubo, BruteForce(qubo)) ELSE None
  /\ ResultInv
  /\ ContributionInv
  /\ NoisyInv

\* Nothing is solved at first.
LEMMA InitSampInv == Init => SampInv
BY DEF Init, SampInv, ResultInv, ContributionInv, NoisyInv

\* A degenerate QUBO gives all bit strings the same energy.
LEMMA DegenerateIsFlat ==
  ASSUME NEW q, IsQubo(q), Degenerate(q), NEW a \in Bits(q.n), NEW b \in Bits(q.n)
  PROVE  Energy(q, a) = Energy(q, b)
<1> DEFINE H == Ising(q)
<1>1. /\ q.n \in Nat /\ DOMAIN H.h = 1..q.n /\ DOMAIN H.J = {p \in Pairs(q.n) : p[1] # p[2]}
      /\ \A i \in DOMAIN H.h : H.h[i] = 0
      /\ \A p \in DOMAIN H.J : H.J[p] = 0
  BY DEF IsQubo, Degenerate, Ising
<1>2. IsFiniteSet(DOMAIN H.h) /\ IsFiniteSet(DOMAIN H.J)
  <2>1. IsFiniteSet(1..q.n) /\ IsFiniteSet(Pairs(q.n))
    BY <1>1, PairsFinite
  <2> QED
    BY <1>1, <2>1, FS_Subset
<1>3. ASSUME NEW c \in Bits(q.n)
      PROVE  IsingEnergy(H, Spins(c)) = H.const + 0 + 0
  <2> DEFINE f == [i \in DOMAIN H.h |-> H.h[i] * Spins(c)[i]]
             g == [p \in DOMAIN H.J |-> H.J[p] * Spins(c)[p[1]] * Spins(c)[p[2]]]
  <2>1. \A i \in 1..q.n : Spins(c)[i] \in Int
    BY <1>1, SpinsAre
  <2>2. \A i \in DOMAIN H.h : f[i] = 0
    BY <1>1, <2>1
  <2>3. \A p \in DOMAIN H.J : g[p] = 0
    <3>1. \A p \in DOMAIN H.J : p[1] \in 1..q.n /\ p[2] \in 1..q.n
      BY <1>1, PairsIn
    <3> QED
      BY <1>1, <2>1, <3>1
  <2>4. IsingEnergy(H, Spins(c)) = H.const + SumFunction(f) + SumFunction(g)
    BY DEF IsingEnergy
  <2>5. DOMAIN f = DOMAIN H.h /\ DOMAIN g = DOMAIN H.J
    OBVIOUS
  <2> HIDE DEF f, g
  <2>6. SumFunction(f) = 0
    BY <1>2, <2>2, <2>5, SumNothing
  <2>7. SumFunction(g) = 0
    BY <1>2, <2>3, <2>5, SumNothing
  <2> QED
    BY <2>4, <2>6, <2>7
<1>4. 4 * Energy(q, a) = 4 * Energy(q, b)
  BY <1>3, IsingExact
<1> QED
  BY <1>4, TermsAre

\* The best string of a histogram is the best of the shots.
LEMMA SolvedIs ==
  ASSUME IsQubo(qubo), NEW shots \in Nat, NEW d \in Draws(qubo.n, shots), NEW counts,
         CountsOf(counts, d), shots > 0, Solved(counts)
  PROVE  \E bits : result' = Solution(bits, counts, Sum(counts), FALSE)
                   /\ Taken(shots, d, counts, bits, Sum(counts))
<1> DEFINE f == [k \in DOMAIN counts |-> Energy(qubo, KeyToBits(k))]
           values == {Energy(qubo, KeyToBits(k)) : k \in DOMAIN counts}
<1>1. /\ qubo.n \in Nat /\ Seen(d) \subseteq Bits(qubo.n) /\ IsFiniteSet(Seen(d))
      /\ DOMAIN counts = {Reverse(b) : b \in Seen(d)}
  BY DrawsAre DEF IsQubo, CountsOf
<1>2. \A b \in Seen(d) : KeyToBits(Reverse(b)) = b /\ Energy(qubo, b) \in Int
  <2>1. \A b \in Bits(qubo.n) : KeyToBits(Reverse(b)) = b
    <3>1. \A b \in Bits(qubo.n) : Reverse(b) \in Bits(qubo.n) /\ Reverse(Reverse(b)) = b
      BY <1>1, ReversedBits
    <3>2. \A b \in Bits(qubo.n) : KeyToBits(b) = Reverse(b)
      BY <1>1, ReversedBits
    <3> QED
      BY <3>1, <3>2
  <2>2. \A b \in Bits(qubo.n) : Energy(qubo, b) \in Int
    BY TermsAre
  <2> QED
    BY <1>1, <2>1, <2>2
<1>3. PICK k \in DOMAIN counts :
        /\ Energy(qubo, KeyToBits(k)) = Least(counts)
        /\ result' = Solution(KeyToBits(k), counts, Sum(counts), FALSE)
  BY DEF Solved
<1>4. IsFiniteSet(DOMAIN counts)
  <2> DEFINE m == [b \in Seen(d) |-> Reverse(b)]
  <2>1. DOMAIN counts = {m[b] : b \in Seen(d)}
    BY <1>1
  <2>2. m \in Surjection(Seen(d), DOMAIN counts)
    BY <2>1 DEF Surjection
  <2> HIDE DEF m
  <2> QED
    BY <1>1, <2>2, FS_Surjection
<1>5. /\ \A l \in DOMAIN counts : f[l] = Energy(qubo, KeyToBits(l)) /\ f[l] \in Int
      /\ values = {f[l] : l \in DOMAIN counts}
  BY <1>1, <1>2
<1>6. Least(counts) = Min(values)
  BY DEF Least
<1> HIDE DEF f, values
<1>7. Summable(f, DOMAIN counts)
  BY <1>4, <1>5 DEF Summable
<1>8. PICK l \in DOMAIN counts : \A j \in DOMAIN counts : f[l] <= f[j]
  <2>1. DOMAIN counts # {}
    BY <1>3
  <2> QED
    BY <1>7, <2>1, LeastAndGreatest
<1>9. Min(values) = f[l]
  BY <1>5, <1>7, <1>8, LeastOf
<1>10. \A j \in DOMAIN counts : Energy(qubo, KeyToBits(k)) <= Energy(qubo, KeyToBits(j))
  BY <1>3, <1>5, <1>6, <1>8, <1>9
<1>11. PICK c \in Seen(d) : k = Reverse(c)
  BY <1>1, <1>3
<1>12. KeyToBits(k) = c /\ \A b \in Seen(d) : Energy(qubo, c) <= Energy(qubo, b)
  <2>1. KeyToBits(k) = c
    BY <1>2, <1>11
  <2>2. \A b \in Seen(d) : Reverse(b) \in DOMAIN counts /\ KeyToBits(Reverse(b)) = b
    BY <1>1, <1>2
  <2> QED
    BY <1>10, <2>1, <2>2
<1>13. Sum(counts) = SumOf(d)
  BY KeysAgree
<1>14. Taken(shots, d, counts, c, Sum(counts))
  BY <1>12, <1>13 DEF Taken
<1> QED
  BY <1>3, <1>12, <1>14

\* What ResultInv asks of a solution that was sampled.
Sampled ==
  \E shots \in 1..Shots : \E d \in Draws(qubo.n, shots) : \E counts, bits, sum :
    result' = Solution(bits, counts, sum, FALSE) /\ Taken(shots, d, counts, bits, sum)

\* All shots of the simulator and the quantum computer go into the histogram.
LEMMA QiskitSampled ==
  ASSUME IsQubo(qubo), NEW d \in Draws(qubo.n, Shots),
         Solved(Histogram(d, QiskitKeys(qubo.n)))
  PROVE  Sampled
<1> DEFINE counts == Histogram(d, QiskitKeys(qubo.n))
<1>1. Shots \in Nat /\ Shots > 0 /\ Shots \in 1..Shots /\ qubo.n \in Nat
  BY SamplingAssumption DEF IsQubo
<1>2. CountsOf(counts, d)
  <2>1. QiskitKeys(qubo.n) = [b \in Bits(qubo.n) |-> Reverse(b)]
    BY DEF QiskitKeys
  <2> QED
    BY <1>1, <2>1, HistogramIs
<1> HIDE DEF counts
<1>3. \E bits : result' = Solution(bits, counts, Sum(counts), FALSE)
                /\ Taken(Shots, d, counts, bits, Sum(counts))
  BY <1>1, <1>2, SolvedIs DEF counts
<1> QED
  BY <1>1, <1>3 DEF Sampled

\* The sampler of D-Wave says itself which of its samples is the best.
LEMMA DwaveSampled ==
  ASSUME IsQubo(qubo), NEW shots \in 1..Shots, NEW d \in Draws(qubo.n, shots), NEW first \in Seen(d),
         NEW sum, sum = SumFunction([b \in Seen(d) |-> d[b] * Energy(qubo, b)]),
         \A b \in Seen(d) : Energy(qubo, first) <= Energy(qubo, b),
         result' = Solution(first, Histogram(d, DwaveKeys(qubo.n)), sum, FALSE)
  PROVE  Sampled
<1> DEFINE counts == Histogram(d, DwaveKeys(qubo.n))
           f == [b \in Seen(d) |-> d[b] * Energy(qubo, b)]
           g == [b \in Bits(qubo.n) |-> d[b] * Energy(qubo, b)]
<1>1. shots \in Nat /\ qubo.n \in Nat
  BY SamplingAssumption DEF IsQubo
<1>2. CountsOf(counts, d)
  <2>1. DwaveKeys(qubo.n) = [b \in Bits(qubo.n) |-> Reverse(b)]
    BY DEF DwaveKeys
  <2> QED
    BY <1>1, <2>1, HistogramIs
<1>3. sum = SumOf(d)
  <2>1. /\ Seen(d) \subseteq Bits(qubo.n) /\ IsFiniteSet(Bits(qubo.n)) /\ IsFiniteSet(Seen(d))
        /\ \A b \in Bits(qubo.n) \ Seen(d) : d[b] = 0
    BY <1>1, DrawsAre
  <2>2. /\ \A b \in Bits(qubo.n) : Energy(qubo, b) \in Int /\ d[b] * Energy(qubo, b) \in Int
        /\ SumOf(d) = SumFunctionOnSet(g, Bits(qubo.n))
    BY <1>1, EnergiesAre
  <2>3. /\ \A b \in Bits(qubo.n) : g[b] \in Int
        /\ \A b \in Bits(qubo.n) \ Seen(d) : g[b] = 0
        /\ \A b \in Seen(d) : f[b] = g[b]
    BY <2>1, <2>2
  <2>4. sum = SumFunction(f) /\ DOMAIN f = Seen(d)
    OBVIOUS
  <2> HIDE DEF f, g
  <2>5. sum = SumFunctionOnSet(f, Seen(d))
    BY <2>4, SumOfDomain
  <2>6. Summable(g, Seen(d)) /\ Seen(d) \in SUBSET Bits(qubo.n)
    BY <2>1, <2>3 DEF Summable
  <2>7. SumFunctionOnSet(f, Seen(d)) = SumFunctionOnSet(g, Seen(d))
    BY <2>3, <2>6, SumAgree
  <2>8. SumFunctionOnSet(g, Bits(qubo.n)) = SumFunctionOnSet(g, Seen(d))
    BY <2>1, <2>3, <2>6, SumZeros
  <2> QED
    BY <2>2, <2>5, <2>7, <2>8
<1>4. Taken(shots, d, counts, first, sum)
  BY <1>2, <1>3 DEF Taken
<1> HIDE DEF counts
<1>5. result' = Solution(first, counts, sum, FALSE)
  BY DEF counts
<1> QED
  BY <1>4, <1>5 DEF Sampled

\* Only the Hamiltonian of the simulator has a solution without a sample, and
\* only PennyLane a sample without a histogram.
Answered ==
  \/ Sampled
  \/ backend = "qaoa_pennylane" /\ \E bits : result' = Solution(bits, <<>>, None, FALSE)
  \/ /\ Degenerate(qubo)
     /\ result' = Solution([i \in 1..qubo.n |-> 0], <<>>, None, TRUE)
  \/ result' = BackendError

\* Every solver gives one of these, and the noisy pass what NoisyInv says.
LEMMA SolversGive ==
  ASSUME SampInv,
         SolveSim \/ SolveIbm \/ SolveDwave \/ SolvePennyLane \/ SolverRaises
  PROVE  /\ Answered
         /\ result = None /\ UNCHANGED <<qubo, backend, exact, contribution>>
         /\ UNCHANGED noisy \/ NoisyPass
<1>1. IsQubo(qubo)
  BY SamplingAssumption DEF SampInv
<1>2. CASE SolveSim
  <2>1. /\ result = None /\ UNCHANGED <<qubo, backend, exact, contribution>>
        /\ UNCHANGED noisy \/ NoisyPass
    BY <1>2 DEF SolveSim, Solves
  <2>2. CASE Degenerate(qubo)
    BY <1>2, <2>1, <2>2 DEF SolveSim, Answered
  <2>3. CASE ~Degenerate(qubo)
    <3>1. PICK d \in Draws(qubo.n, Shots) : Solved(Histogram(d, QiskitKeys(qubo.n)))
      BY <1>2, <2>3 DEF SolveSim
    <3> QED
      BY <1>1, <2>1, <3>1, QiskitSampled DEF Answered
  <2> QED
    BY <2>2, <2>3
<1>3. CASE SolveIbm
  <2>1. PICK d \in Draws(qubo.n, Shots) : Solved(Histogram(d, QiskitKeys(qubo.n)))
    BY <1>3 DEF SolveIbm
  <2> QED
    BY <1>1, <1>3, <2>1, QiskitSampled DEF SolveIbm, Solves, Answered
<1>4. CASE SolveDwave
  <2>0. PICK shots \in 1..Shots : \E d \in Draws(qubo.n, shots) :
          LET seen == {b \in Bits(qubo.n) : d[b] > 0}
          IN \E first \in seen :
               /\ \A b \in seen : Energy(qubo, first) <= Energy(qubo, b)
               /\ result' = Solution(first, Histogram(d, DwaveKeys(qubo.n)),
                                     SumFunction([b \in seen |-> d[b] * Energy(qubo, b)]), FALSE)
    BY <1>4 DEF SolveDwave
  <2>1. PICK d \in Draws(qubo.n, shots) :
          LET seen == {b \in Bits(qubo.n) : d[b] > 0}
          IN \E first \in seen :
               /\ \A b \in seen : Energy(qubo, first) <= Energy(qubo, b)
               /\ result' = Solution(first, Histogram(d, DwaveKeys(qubo.n)),
                                     SumFunction([b \in seen |-> d[b] * Energy(qubo, b)]), FALSE)
    BY <2>0
  <2>2. {b \in Bits(qubo.n) : d[b] > 0} = Seen(d)
    BY DEF Draws, Seen
  <2>3. PICK first \in Seen(d) :
          /\ \A b \in Seen(d) : Energy(qubo, first) <= Energy(qubo, b)
          /\ result' = Solution(first, Histogram(d, DwaveKeys(qubo.n)),
                                SumFunction([b \in Seen(d) |-> d[b] * Energy(qubo, b)]), FALSE)
    BY <2>1, <2>2
  <2>4. Sampled
    BY <1>1, <2>3, DwaveSampled
  <2> QED
    BY <1>4, <2>4 DEF SolveDwave, Solves, Answered
<1>5. CASE SolvePennyLane
  BY <1>5 DEF SolvePennyLane, Solves, Answered
<1>6. CASE SolverRaises
  BY <1>6 DEF SolverRaises, Answered
<1> QED
  BY <1>2, <1>3, <1>4, <1>5, <1>6

\* A solver keeps the invariant.
LEMMA SolverKeeps ==
  ASSUME SampInv,
         SolveSim \/ SolveIbm \/ SolveDwave \/ SolvePennyLane \/ SolverRaises
  PROVE  SampInv'
<1>0. /\ Answered /\ result = None /\ UNCHANGED <<qubo, backend, exact, contribution>>
      /\ UNCHANGED noisy \/ NoisyPass
      /\ IsQubo(qubo)
  BY SolversGive, SamplingAssumption DEF SampInv
<1>1. contribution = None /\ ContributionInv'
  BY <1>0 DEF SampInv, ContributionInv
<1>2. NoisyInv'
  <2>1. CASE UNCHANGED noisy
    BY <1>0, <2>1 DEF SampInv, NoisyInv
  <2>2. CASE NoisyPass
    BY <1>0, <2>2 DEF NoisyPass, NoisyInv
  <2> QED
    BY <1>0, <2>1, <2>2
<1>3. ResultInv'
  <2>1. CASE Sampled
    <3>1. PICK shots \in 1..Shots : \E d \in Draws(qubo.n, shots) : \E counts, bits, sum :
            result' = Solution(bits, counts, sum, FALSE) /\ Taken(shots, d, counts, bits, sum)
      BY <2>1 DEF Sampled
    <3>0. PICK d \in Draws(qubo.n, shots) : \E counts, bits, sum :
            result' = Solution(bits, counts, sum, FALSE) /\ Taken(shots, d, counts, bits, sum)
      BY <3>1
    <3>2. PICK counts, bits, sum :
            result' = Solution(bits, counts, sum, FALSE) /\ Taken(shots, d, counts, bits, sum)
      BY <3>0
    <3>3. /\ result'.bits = bits /\ result'.counts = counts /\ result'.sum = sum
          /\ result'.energy = Energy(qubo, bits) /\ result'.degenerate = FALSE
      BY <3>2 DEF Solution
    <3>4. Taken(shots, d, counts, bits, sum)'
      BY <1>0, <3>2 DEF Taken, CountsOf, SumOf, Seen
    <3>5. Taken(shots, d, result.counts, result.bits, result.sum)'
      BY <3>3, <3>4 DEF Taken
    <3> QED
      BY <1>0, <3>2, <3>3, <3>5 DEF ResultInv
  <2>2. CASE /\ Degenerate(qubo)
             /\ result' = Solution([i \in 1..qubo.n |-> 0], <<>>, None, TRUE)
    <3> DEFINE zeros == [i \in 1..qubo.n |-> 0]
    <3>1. zeros \in Bits(qubo.n)
      BY DEF Bits
    <3> HIDE DEF zeros
    <3>2. /\ result'.bits = zeros /\ result'.energy = Energy(qubo, zeros)
          /\ result'.degenerate = TRUE
      BY <2>2 DEF Solution, zeros
    <3>3. \A b \in Bits(qubo.n) : Energy(qubo, b) = result'.energy
      BY <1>0, <2>2, <3>1, <3>2, DegenerateIsFlat
    <3> QED
      BY <1>0, <3>2, <3>3 DEF ResultInv
  <2>3. CASE backend = "qaoa_pennylane" /\ \E bits : result' = Solution(bits, <<>>, None, FALSE)
    BY <1>0, <2>3 DEF ResultInv, Solution
  <2>4. CASE result' = BackendError
    BY <2>4 DEF ResultInv
  <2> QED
    BY <1>0, <2>1, <2>2, <2>3, <2>4 DEF Answered
<1> QED
  BY <1>0, <1>1, <1>2, <1>3 DEF SampInv

\* Of shots of which bits is the best, its energy is the least.
LEMMA LeastSeen ==
  ASSUME IsQubo(qubo), NEW shots \in Nat, NEW d \in Draws(qubo.n, shots), NEW bits \in Seen(d),
         \A b \in Seen(d) : Energy(qubo, bits) <= Energy(qubo, b)
  PROVE  Min({Energy(qubo, b) : b \in {b \in DOMAIN d : d[b] > 0}}) = Energy(qubo, bits)
<1> DEFINE f == [b \in Seen(d) |-> Energy(qubo, b)]
           values == {Energy(qubo, b) : b \in {b \in DOMAIN d : d[b] > 0}}
<1>1. Seen(d) \subseteq Bits(qubo.n) /\ IsFiniteSet(Seen(d))
  BY DrawsAre DEF IsQubo
<1>2. \A b \in Seen(d) : f[b] = Energy(qubo, b) /\ f[b] \in Int
  BY <1>1, TermsAre
<1>3. values = {f[b] : b \in Seen(d)}
  BY DEF Seen
<1> HIDE DEF f, values
<1>4. Summable(f, Seen(d))
  BY <1>1, <1>2 DEF Summable
<1>5. \A b \in Seen(d) : f[bits] <= f[b]
  BY <1>2
<1>6. Min(values) = f[bits]
  BY <1>3, <1>4, <1>5, LeastOf
<1> QED
  BY <1>2, <1>6 DEF values

\* The verifier keeps the invariant.
LEMMA AccountKeeps ==
  ASSUME SampInv, Account
  PROVE  SampInv'
<1>0. /\ IsQubo(qubo) /\ UNCHANGED <<qubo, backend, exact, result, noisy>>
      /\ result \notin {None, BackendError} /\ ~result.degenerate /\ backend # "qaoa_pennylane"
      /\ result.energy = Energy(qubo, result.bits)
  BY SamplingAssumption DEF SampInv, Account, ResultInv
<1>1. PICK shots \in 1..Shots : \E d \in Draws(qubo.n, shots) :
        Taken(shots, d, result.counts, result.bits, result.sum)
  BY <1>0 DEF SampInv, ResultInv
<1>2. PICK d \in Draws(qubo.n, shots) : Taken(shots, d, result.counts, result.bits, result.sum)
  BY <1>1
<1>3. shots \in Nat
  BY SamplingAssumption
<1>4. VerifierShots(result.counts) = d /\ Total(result.counts) = shots
  BY <1>0, <1>2, <1>3, KeysAgree DEF Taken
<1>5. Min({Energy(qubo, b) : b \in {b \in DOMAIN d : d[b] > 0}}) = result.energy
  BY <1>0, <1>2, <1>3, LeastSeen DEF Taken
<1>6. PICK random \in Draws(qubo.n, shots) :
        contribution' =
          [sum |-> SumOf(d), min |-> result.energy,
           reached |-> exact # None /\ result.energy <= exact,
           contributed |-> Contributed(d, random), random |-> random]
  BY <1>4, <1>5 DEF Account
<1>7. SumOf(d)' = SumOf(d) /\ Contributed(d, random)' = Contributed(d, random)
  BY <1>0 DEF SumOf, Contributed, Optimal
<1>8. contribution' = Report(d, random)'
  BY <1>0, <1>6, <1>7 DEF Report
<1>9. Taken(shots, d, result.counts, result.bits, result.sum)'
  BY <1>0, <1>2, <1>7 DEF Taken
<1>10. ContributionInv'
  BY <1>0, <1>8, <1>9 DEF ContributionInv
<1>11. ResultInv'
  BY <1>0, <1>9 DEF ResultInv
<1>12. NoisyInv'
  BY <1>0 DEF SampInv, NoisyInv
<1> QED
  BY <1>0, <1>10, <1>11, <1>12 DEF SampInv

\* Every step keeps the invariant.
LEMMA StepSampInv == SampInv /\ [Next]_samplingVars => SampInv'
<1> SUFFICES ASSUME SampInv, [Next]_samplingVars
             PROVE  SampInv'
  OBVIOUS
<1>1. CASE SolveSim \/ SolveIbm \/ SolveDwave \/ SolvePennyLane \/ SolverRaises
  BY <1>1, SolverKeeps
<1>2. CASE Account
  BY <1>2, AccountKeeps
<1>3. CASE UNCHANGED samplingVars
  <2>0. UNCHANGED <<qubo, backend, exact, result, noisy, contribution>>
    BY <1>3 DEF samplingVars
  <2>1. \A d : SumOf(d)' = SumOf(d)
    BY <2>0 DEF SumOf
  <2>2. \A shots, d : Taken(shots, d, result.counts, result.bits, result.sum)' =
                      Taken(shots, d, result.counts, result.bits, result.sum)
    BY <2>0, <2>1 DEF Taken
  <2>3. \A d, random : Report(d, random)' = Report(d, random)
    BY <2>0, <2>1 DEF Report, Contributed, Optimal
  <2>4. ResultInv'
    BY <2>0, <2>2 DEF SampInv, ResultInv
  <2>5. ContributionInv'
    BY <2>0, <2>2, <2>3 DEF SampInv, ContributionInv
  <2>6. NoisyInv'
    BY <2>0 DEF SampInv, NoisyInv
  <2> QED
    BY <2>0, <2>4, <2>5, <2>6 DEF SampInv
<1> QED
  BY <1>1, <1>2, <1>3 DEF Next, Done

\* Every reachable state is one of the invariant: what is reported was sampled.
THEOREM SamplingInvariant == Spec => []SampInv
BY InitSampInv, StepSampInv, PTL DEF Spec

-----------------------------------------------------------------------------
(* The verifier                                                            *)

\* Where the optimum is known, the ground states are the strings not above it.
LEMMA GroundIs ==
  ASSUME SampInv, exact # None, NEW b \in Bits(qubo.n)
  PROVE  Ground(b) <=> Energy(qubo, b) <= exact
<1> DEFINE g == BruteForce(qubo)
<1>1. IsQubo(qubo) /\ exact = Energy(qubo, g)
  BY SamplingAssumption DEF SampInv
<1>2. g \in Bits(qubo.n) /\ \A a \in Bits(qubo.n) : Energy(qubo, g) <= Energy(qubo, a)
  BY <1>1, GroundIsLeast
<1>3. \A a \in Bits(qubo.n) : Energy(qubo, a) \in Int
  BY <1>1, TermsAre
<1> HIDE DEF g
<1> QED
  BY <1>1, <1>2, <1>3 DEF Ground

\* The report is about the solution that was found, and says the truth.
LEMMA ReportsAgree == SampInv => VerifierAgrees
<1> SUFFICES ASSUME SampInv
             PROVE  VerifierAgrees
  OBVIOUS
<1>1. ASSUME result \notin {None, BackendError} /\ result.degenerate
      PROVE  \A b \in Bits(qubo.n) : Energy(qubo, b) = result.energy
  BY <1>1 DEF SampInv, ResultInv
<1>2. ASSUME contribution # None
      PROVE  /\ contribution.sum = result.sum /\ contribution.min = result.energy
             /\ contribution.reached <=> exact # None /\ Ground(result.bits)
  <2>1. PICK shots \in 1..Shots : \E d, random \in Draws(qubo.n, shots) :
          /\ Taken(shots, d, result.counts, result.bits, result.sum)
          /\ contribution = Report(d, random)
    BY <1>2 DEF SampInv, ContributionInv
  <2>2. PICK d, random \in Draws(qubo.n, shots) :
          /\ Taken(shots, d, result.counts, result.bits, result.sum)
          /\ contribution = Report(d, random)
    BY <2>1
  <2>3. /\ contribution.sum = SumOf(d) /\ contribution.min = result.energy
        /\ contribution.reached <=> exact # None /\ result.energy <= exact
    BY <2>2 DEF Report
  <2>4. result.bits \in Bits(qubo.n) /\ result.energy = Energy(qubo, result.bits)
        /\ result.sum = SumOf(d)
    BY <1>2, <2>2 DEF Taken, Seen, Draws, SampInv, ContributionInv
  <2>5. exact # None => (Ground(result.bits) <=> result.energy <= exact)
    BY <2>4, GroundIs
  <2> QED
    BY <2>3, <2>4, <2>5
<1> QED
  BY <1>1, <1>2 DEF VerifierAgrees

\* Whatever order a framework labels its outcomes in, the verifier finds in the
\* histogram the energies the solver found, and reports that the ground state was
\* reached exactly if it was (quantum.py:237-281, dwave.py:59-75,
\* verification.py:26-98).
THEOREM VerifierReadsAlike == Spec => []VerifierAgrees
BY SamplingInvariant, ReportsAgree, PTL

\* If all random strings cost at least as little as the solution, so do they in sum.
LEMMA CheaperInSum ==
  ASSUME IsQubo(qubo), NEW shots \in Nat,
         NEW d \in Draws(qubo.n, shots), NEW random \in Draws(qubo.n, shots), NEW least \in Int,
         \A b \in Seen(d) : least <= Energy(qubo, b),
         \A b \in Seen(random) : Energy(qubo, b) <= least
  PROVE  SumOf(random) <= SumOf(d)
<1> DEFINE n == qubo.n
           e == [b \in Bits(n) |-> d[b] * Energy(qubo, b)]
           r == [b \in Bits(n) |-> random[b] * Energy(qubo, b)]
           ed == [b \in Bits(n) |-> least * d[b]]
           er == [b \in Bits(n) |-> least * random[b]]
<1>1. n \in Nat /\ IsFiniteSet(Bits(n))
  BY BitsFinite DEF IsQubo
<1>2. /\ \A b \in Bits(n) : d[b] \in Nat /\ random[b] \in Nat
      /\ Summable(d, Bits(n)) /\ SumFunctionOnSet(d, Bits(n)) = shots
      /\ Summable(random, Bits(n)) /\ SumFunctionOnSet(random, Bits(n)) = shots
      /\ DOMAIN d = Bits(n) /\ DOMAIN random = Bits(n)
  BY <1>1, DrawsAre
<1>3. /\ \A b \in Bits(n) : Energy(qubo, b) \in Int
      /\ \A b \in Bits(n) : e[b] \in Int /\ r[b] \in Int
      /\ SumOf(d) = SumFunctionOnSet(e, Bits(n)) /\ SumOf(random) = SumFunctionOnSet(r, Bits(n))
  BY EnergiesAre
<1>4. \A b \in Bits(n) : /\ ed[b] = least * d[b] /\ er[b] = least * random[b]
                         /\ ed[b] \in Int /\ er[b] \in Int
  BY <1>2
<1>5. \A b \in Bits(n) : ed[b] <= e[b]
  <2> TAKE b \in Bits(n)
  <2>1. CASE d[b] = 0
    <3>1. ed[b] = 0 /\ e[b] = 0
      BY <1>2, <1>3, <2>1
    <3> QED
      BY <3>1
  <2>2. CASE d[b] # 0
    <3>1. d[b] > 0 /\ least <= Energy(qubo, b) /\ d[b] \in Nat /\ Energy(qubo, b) \in Int
      BY <1>2, <1>3, <2>2 DEF Seen
    <3>2. (Energy(qubo, b) - least) * d[b] \in Nat
      BY <3>1
    <3>3. e[b] = ed[b] + (Energy(qubo, b) - least) * d[b]
      <4>1. e[b] = d[b] * Energy(qubo, b) /\ ed[b] = least * d[b]
        OBVIOUS
      <4> QED
        BY <3>1, <4>1
    <3> QED
      BY <1>3, <1>4, <3>2, <3>3
  <2> QED
    BY <2>1, <2>2
<1>6. \A b \in Bits(n) : r[b] <= er[b]
  <2> TAKE b \in Bits(n)
  <2>1. CASE random[b] = 0
    <3>1. er[b] = 0 /\ r[b] = 0
      BY <1>2, <1>3, <2>1
    <3> QED
      BY <3>1
  <2>2. CASE random[b] # 0
    <3>1. /\ random[b] > 0 /\ Energy(qubo, b) <= least /\ random[b] \in Nat
          /\ Energy(qubo, b) \in Int
      BY <1>2, <1>3, <2>2 DEF Seen
    <3>2. (least - Energy(qubo, b)) * random[b] \in Nat
      BY <3>1
    <3>3. er[b] = r[b] + (least - Energy(qubo, b)) * random[b]
      <4>1. r[b] = random[b] * Energy(qubo, b) /\ er[b] = least * random[b]
        OBVIOUS
      <4> QED
        BY <3>1, <4>1
    <3> QED
      BY <1>3, <1>4, <3>2, <3>3
  <2> QED
    BY <2>1, <2>2
<1> HIDE DEF e, r, ed, er, n
<1>7. Summable(e, Bits(n)) /\ Summable(r, Bits(n)) /\ Summable(ed, Bits(n)) /\ Summable(er, Bits(n))
  BY <1>1, <1>3, <1>4 DEF Summable
<1>8. SumFunctionOnSet(ed, Bits(n)) <= SumFunctionOnSet(e, Bits(n))
  BY <1>5, <1>7, SumMonotone
<1>9. SumFunctionOnSet(r, Bits(n)) <= SumFunctionOnSet(er, Bits(n))
  BY <1>6, <1>7, SumMonotone
<1>10. SumFunctionOnSet(ed, Bits(n)) = least * shots
  <2>1. Summable(d, Bits(n)) /\ \A b \in Bits(n) : ed[b] = least * d[b]
    BY <1>2, <1>4
  <2>2. SumFunctionOnSet(ed, Bits(n)) = least * SumFunctionOnSet(d, Bits(n))
    BY <2>1, SumScale
  <2> QED
    BY <1>2, <2>2
<1>11. SumFunctionOnSet(er, Bits(n)) = least * shots
  <2>1. Summable(random, Bits(n)) /\ \A b \in Bits(n) : er[b] = least * random[b]
    BY <1>2, <1>4
  <2>2. SumFunctionOnSet(er, Bits(n)) = least * SumFunctionOnSet(random, Bits(n))
    BY <2>1, SumScale
  <2> QED
    BY <1>2, <2>2
<1>12. /\ SumFunctionOnSet(e, Bits(n)) \in Int /\ SumFunctionOnSet(r, Bits(n)) \in Int
       /\ SumFunctionOnSet(er, Bits(n)) \in Int
  BY <1>7, SumType DEF Summable
<1> QED
  BY <1>3, <1>8, <1>9, <1>10, <1>11, <1>12

\* Shots of which some are optimal have seen a ground state, and the other way round.
LEMMA OptimalSeen ==
  ASSUME SampInv, exact # None, NEW shots \in Nat, NEW d \in Draws(qubo.n, shots)
  PROVE  /\ Optimal(d) \in Nat
         /\ Optimal(d) > 0 <=> \E b \in Seen(d) : Ground(b)
<1> DEFINE good == {b \in DOMAIN d : Energy(qubo, b) <= exact}
<1>1. qubo.n \in Nat
  BY SamplingAssumption DEF SampInv, IsQubo
<1>2. DOMAIN d = Bits(qubo.n) /\ IsFiniteSet(Bits(qubo.n)) /\ \A b \in Bits(qubo.n) : d[b] \in Nat
  BY <1>1, DrawsAre
<1>3. good \subseteq Bits(qubo.n) /\ IsFiniteSet(good)
  BY <1>2, FS_Subset
<1>4. \A b \in Bits(qubo.n) : b \in good <=> Ground(b)
  BY <1>2, GroundIs
<1>5. Optimal(d) = SumFunctionOnSet(d, good)
  BY DEF Optimal
<1> HIDE DEF good
<1>6. /\ SumFunctionOnSet(d, good) \in Nat
      /\ (\E b \in good : d[b] > 0) <=> SumFunctionOnSet(d, good) > 0
  BY <1>2, <1>3, SumPositive
<1>7. (\E b \in good : d[b] > 0) <=> (\E b \in Seen(d) : Ground(b))
  BY <1>2, <1>3, <1>4 DEF Seen
<1> QED
  BY <1>5, <1>6, <1>7

\* A contribution that is attributed is earned.
LEMMA AttributedIsEarned == SampInv => ContributionEarned
<1> SUFFICES ASSUME SampInv, contribution # None, contribution.contributed
             PROVE  LET drawn == {b \in Bits(qubo.n) : contribution.random[b] > 0}
                    IN /\ \E b \in drawn : result.energy < Energy(qubo, b)
                       /\ exact # None /\ (\E b \in drawn : Ground(b)) => Ground(result.bits)
  BY DEF ContributionEarned
<1>1. PICK shots \in 1..Shots : \E d, random \in Draws(qubo.n, shots) :
        /\ Taken(shots, d, result.counts, result.bits, result.sum)
        /\ contribution = Report(d, random)
  BY DEF SampInv, ContributionInv
<1>2. PICK d, random \in Draws(qubo.n, shots) :
        /\ Taken(shots, d, result.counts, result.bits, result.sum)
        /\ contribution = Report(d, random)
  BY <1>1
<1>3. shots \in Nat /\ IsQubo(qubo) /\ qubo.n \in Nat
  BY SamplingAssumption DEF SampInv, IsQubo
<1>4. contribution.random = random /\ SumOf(d) < SumOf(random)
      /\ (exact # None => Optimal(d) >= Optimal(random))
  BY <1>2 DEF Report, Contributed
<1>5. DOMAIN d = Bits(qubo.n) /\ DOMAIN random = Bits(qubo.n)
  BY DEF Draws
<1>6. result.bits \in Bits(qubo.n) /\ result.energy = Energy(qubo, result.bits)
      /\ \A b \in Seen(d) : b \in Bits(qubo.n) /\ result.energy <= Energy(qubo, b)
  BY <1>2, <1>5 DEF Taken, Seen, SampInv, ContributionInv
<1>7. \A b \in Bits(qubo.n) : Energy(qubo, b) \in Int
  BY <1>3, TermsAre
<1>8. SumOf(d) \in Int /\ SumOf(random) \in Int
  BY <1>3, EnergiesAre
<1>9. {b \in Bits(qubo.n) : contribution.random[b] > 0} = Seen(random)
  BY <1>4, <1>5 DEF Seen
<1>10. \E b \in Seen(random) : result.energy < Energy(qubo, b)
  <2> SUFFICES ASSUME \A b \in Seen(random) : ~(result.energy < Energy(qubo, b))
               PROVE  FALSE
    OBVIOUS
  <2>1. \A b \in Seen(random) : Energy(qubo, b) <= result.energy
    BY <1>5, <1>6, <1>7 DEF Seen
  <2>2. result.energy \in Int
    BY <1>6, <1>7
  <2>3. SumOf(random) <= SumOf(d)
    BY <1>3, <1>6, <2>1, <2>2, CheaperInSum
  <2> QED
    BY <1>4, <1>8, <2>3
<1>11. ASSUME exact # None, \E b \in Seen(random) : Ground(b)
       PROVE  Ground(result.bits)
  <2>1. Optimal(random) \in Nat /\ Optimal(random) > 0 /\ Optimal(d) \in Nat
    BY <1>3, <1>11, OptimalSeen
  <2>2. Optimal(d) > 0
    BY <1>4, <1>11, <2>1
  <2>3. PICK b \in Seen(d) : Ground(b)
    BY <1>3, <1>11, <2>2, OptimalSeen
  <2>4. \A c \in Bits(qubo.n) : Energy(qubo, b) <= Energy(qubo, c)
    BY <2>3 DEF Ground
  <2>5. \A c \in Bits(qubo.n) : Energy(qubo, result.bits) <= Energy(qubo, c)
    BY <1>6, <1>7, <2>3, <2>4
  <2> QED
    BY <2>5 DEF Ground
<1> QED
  BY <1>9, <1>10, <1>11

\* Whenever a contribution is attributed to the quantum sampling, its solution is
\* better than some random string that was drawn, and optimal if one of those was
\* (verification.py:71-77).
THEOREM EarnedContributions == Spec => []ContributionEarned
BY SamplingInvariant, AttributedIsEarned, PTL

-----------------------------------------------------------------------------
(* Products                                                                *)

\* f has n integers.
Factors(n, f) == n \in Nat /\ \A i \in 1..n : f[i] \in Int

\* h has the products of the first factors.
Upto(h, n, f) == h[0] = 1 /\ \A i \in 1..n : h[i] = f[i] * h[i - 1]

\* The product is what its recursive definition says.
LEMMA ProductUnfolds ==
  ASSUME NEW n, NEW f, Factors(n, f)
  PROVE  \E h \in [0..n -> Int] : Upto(h, n, f) /\ Product(n, f) = h[n]
<1> DEFINE step == [p \in (1..n) \X Int |-> f[p[1]] * p[2]]
           Is(h) == h = [i \in 0..n |-> IF i = 0 THEN 1 ELSE f[i] * h[i - 1]]
<1>1. n \in Nat /\ \A i \in 1..n : f[i] \in Int
  BY DEF Factors
<1>2. \A i \in 1..n : \A z \in Int : step[<<i, z>>] = f[i] * z /\ step[<<i, z>>] \in Int
  BY <1>1
<1>3. IsStep(step, Int, n)
  BY <1>2 DEF IsStep
<1> HIDE DEF step
<1>4. \E h \in [0..n -> Int] : h[0] = 1 /\ \A i \in 1..n : h[i] = step[<<i, h[i - 1]>>]
  <2> DEFINE St == Int
  <2>1. PICK start \in St : start = 1
    OBVIOUS
  <2>2. IsStep(step, St, n)
    BY <1>3
  <2> HIDE DEF St
  <2>3. \E h \in [0..n -> St] : h[0] = start /\ \A i \in 1..n : h[i] = step[<<i, h[i - 1]>>]
    BY <1>1, <2>2, Recursion
  <2> QED
    BY <2>1, <2>3 DEF St
<1>5. PICK h \in [0..n -> Int] : h[0] = 1 /\ \A i \in 1..n : h[i] = step[<<i, h[i - 1]>>]
  BY <1>4
<1>6. \A i \in 1..n : i - 1 \in 0..n /\ h[i - 1] \in Int /\ i # 0 /\ i \in 0..n
  BY <1>1, <1>5
<1>7. \A i \in 1..n : h[i] = f[i] * h[i - 1]
  BY <1>2, <1>5, <1>6
<1>8. Is(h)
  <2>1. \A i \in 0..n : h[i] = IF i = 0 THEN 1 ELSE f[i] * h[i - 1]
    <3>1. \A i \in 0..n : i = 0 \/ i \in 1..n
      BY <1>1
    <3> QED
      BY <1>5, <1>6, <1>7, <3>1
  <2> QED
    BY <1>5, <2>1
<1> DEFINE u == CHOOSE g : Is(g)
<1>9. Is(u)
  BY <1>8
<1>10. Product(n, f) = u[n]
  BY DEF Product
<1> HIDE DEF u
<1>11. u = [i \in 0..n |-> IF i = 0 THEN 1 ELSE f[i] * u[i - 1]]
  BY <1>9
<1>12. u[0] = 1 /\ \A i \in 1..n : u[i] = f[i] * u[i - 1]
  <2>1. 0 \in 0..n /\ \A i \in 1..n : i \in 0..n /\ i # 0
    BY <1>1
  <2> QED
    BY <1>11, <2>1
<1>13. \A i \in Nat : i \in 0..n => u[i] = h[i]
  <2> DEFINE good == {i \in Nat : i \in 0..n => u[i] = h[i]}
  <2>1. 0 \in good
    BY <1>5, <1>12
  <2>2. ASSUME NEW i \in Nat, i \in good PROVE i + 1 \in good
    <3> SUFFICES ASSUME i + 1 \in 0..n PROVE u[i + 1] = h[i + 1]
      OBVIOUS
    <3>1. i + 1 \in 1..n /\ i \in 0..n /\ (i + 1) - 1 = i
      BY <1>1
    <3>2. u[i] = h[i]
      BY <2>2, <3>1
    <3> QED
      BY <1>7, <1>12, <3>1, <3>2
  <2> HIDE DEF good
  <2>3. \A i \in Nat : i \in good
    BY <2>1, <2>2, NumbersInduction
  <2> QED
    BY <2>3 DEF good
<1>14. u[n] = h[n]
  BY <1>1, <1>13
<1> QED
  BY <1>5, <1>7, <1>10, <1>14 DEF Upto

\* h and k unfold products that have the first m factors in common.
Parallel(h, m, f, k, n, g) ==
  /\ Factors(m, f) /\ Upto(h, m, f)
  /\ Factors(n, g) /\ Upto(k, n, g)
  /\ m <= n /\ \A i \in 1..m : f[i] = g[i]

\* Products that unfold alike are the same as far as both go.
LEMMA UptoAgree ==
  ASSUME NEW h, NEW m, NEW f, NEW k, NEW n, NEW g, Parallel(h, m, f, k, n, g)
  PROVE  h[m] = k[m]
<1> DEFINE good == {i \in Nat : i <= m => h[i] = k[i]}
<1>1. m \in Nat /\ n \in Nat /\ m <= n
  BY DEF Parallel, Factors
<1>2. 0 \in good
  BY DEF Parallel, Upto
<1>3. ASSUME NEW i \in Nat, i \in good PROVE i + 1 \in good
  <2> SUFFICES ASSUME i + 1 <= m PROVE h[i + 1] = k[i + 1]
    OBVIOUS
  <2>1. i + 1 \in 1..m /\ i + 1 \in 1..n /\ (i + 1) - 1 = i /\ i <= m
    BY <1>1
  <2>2. h[i] = k[i]
    BY <1>3, <2>1
  <2> QED
    BY <2>1, <2>2 DEF Parallel, Upto
<1> HIDE DEF good
<1>4. \A i \in Nat : i \in good
  BY <1>2, <1>3, NumbersInduction
<1> QED
  BY <1>1, <1>4 DEF good

\* The empty product is one, and any other one factor times the product of the others.
LEMMA ProductIs ==
  ASSUME NEW n, NEW f, Factors(n, f)
  PROVE  /\ Product(n, f) \in Int
         /\ n = 0 => Product(n, f) = 1
         /\ n > 0 => Product(n, f) = f[n] * Product(n - 1, f) /\ Factors(n - 1, f)
<1>1. PICK h \in [0..n -> Int] : Upto(h, n, f) /\ Product(n, f) = h[n]
  BY ProductUnfolds
<1>2. n \in Nat /\ h[n] \in Int /\ h[0] = 1
  BY <1>1 DEF Factors, Upto
<1>3. ASSUME n > 0
      PROVE  Product(n, f) = f[n] * Product(n - 1, f) /\ Factors(n - 1, f)
  <2>1. Factors(n - 1, f) /\ n - 1 <= n /\ n \in 1..n
    BY <1>2, <1>3 DEF Factors
  <2>2. PICK k \in [0..n - 1 -> Int] : Upto(k, n - 1, f) /\ Product(n - 1, f) = k[n - 1]
    BY <2>1, ProductUnfolds
  <2>3. k[n - 1] = h[n - 1]
    <3>1. Parallel(k, n - 1, f, h, n, f)
      BY <1>1, <2>1, <2>2 DEF Parallel
    <3> QED
      BY <3>1, UptoAgree
  <2>4. h[n] = f[n] * h[n - 1]
    BY <1>1, <2>1 DEF Upto
  <2> QED
    BY <1>1, <2>1, <2>2, <2>3, <2>4
<1> QED
  BY <1>1, <1>2, <1>3

\* The product does not depend on what f is beyond its factors.
LEMMA ProductAgree ==
  ASSUME NEW n, NEW f, NEW g, Factors(n, f), \A i \in 1..n : g[i] = f[i]
  PROVE  Factors(n, g) /\ Product(n, g) = Product(n, f)
<1>1. Factors(n, g)
  BY DEF Factors
<1>2. PICK h \in [0..n -> Int] : Upto(h, n, f) /\ Product(n, f) = h[n]
  BY ProductUnfolds
<1>3. PICK k \in [0..n -> Int] : Upto(k, n, g) /\ Product(n, g) = k[n]
  BY <1>1, ProductUnfolds
<1>4. Parallel(h, n, f, k, n, g)
  BY <1>1, <1>2, <1>3 DEF Parallel, Factors
<1>5. h[n] = k[n]
  BY <1>4, UptoAgree
<1> QED
  BY <1>1, <1>2, <1>3, <1>5

\* A product of products.
LEMMA ProductTimes ==
  ASSUME NEW n, NEW f, NEW g, NEW k, Factors(n, f), Factors(n, g),
         \A i \in 1..n : k[i] = f[i] * g[i]
  PROVE  Product(n, k) = Product(n, f) * Product(n, g)
<1> DEFINE good == {i \in Nat : i <= n => Product(i, k) = Product(i, f) * Product(i, g)}
<1>1. n \in Nat /\ \A i \in 1..n : f[i] \in Int /\ g[i] \in Int /\ k[i] \in Int
  BY DEF Factors
<1>2. \A i \in Nat : i <= n => Factors(i, f) /\ Factors(i, g) /\ Factors(i, k)
  BY <1>1 DEF Factors
<1>3. 0 \in good
  <2>1. 0 \in Nat /\ 0 <= n
    BY <1>1
  <2>2. Product(0, k) = 1 /\ Product(0, f) = 1 /\ Product(0, g) = 1
    BY <1>2, <2>1, ProductIs
  <2> QED
    BY <2>2
<1>4. ASSUME NEW i \in Nat, i \in good PROVE i + 1 \in good
  <2> SUFFICES ASSUME i + 1 <= n
               PROVE  Product(i + 1, k) = Product(i + 1, f) * Product(i + 1, g)
    OBVIOUS
  <2>1. i <= n /\ i + 1 \in 1..n /\ i + 1 \in Nat /\ i + 1 > 0 /\ (i + 1) - 1 = i
    BY <1>1
  <2>2. Product(i, k) = Product(i, f) * Product(i, g)
    BY <1>4, <2>1
  <2>3. /\ Product(i + 1, k) = k[i + 1] * Product(i, k)
        /\ Product(i + 1, f) = f[i + 1] * Product(i, f) /\ Product(i, f) \in Int
        /\ Product(i + 1, g) = g[i + 1] * Product(i, g) /\ Product(i, g) \in Int
    <3>1. Factors(i + 1, k) /\ Factors(i + 1, f) /\ Factors(i + 1, g)
          /\ Factors(i, f) /\ Factors(i, g)
      BY <1>2, <2>1
    <3> QED
      BY <2>1, <3>1, ProductIs
  <2>4. /\ f[i + 1] \in Int /\ g[i + 1] \in Int /\ k[i + 1] = f[i + 1] * g[i + 1]
    BY <1>1, <2>1
  <2> QED
    BY <2>2, <2>3, <2>4
<1> HIDE DEF good
<1>5. \A i \in Nat : i \in good
  BY <1>3, <1>4, NumbersInduction
<1> QED
  BY <1>1, <1>5 DEF good

\* g has the factors of f but for that in place q.
Beside(n, f, g, q) == Factors(n, g) /\ \A i \in 1..n : i # q => g[i] = f[i]

\* A factor can be taken out of a product, whatever its value.
LEMMA FactorOut ==
  ASSUME NEW n, NEW f, Factors(n, f), NEW q \in 1..n
  PROVE  \E rest \in Int : \A g : Beside(n, f, g, q) => Product(n, g) = g[q] * rest
<1> DEFINE Out(m) == \E rest \in Int : \A g : Beside(m, f, g, q) => Product(m, g) = g[q] * rest
           good == {m \in Nat : q <= m /\ m <= n => Out(m)}
<1>1. n \in Nat /\ q \in Nat /\ q > 0 /\ q <= n /\ \A i \in 1..n : f[i] \in Int
  BY DEF Factors
<1>2. 0 \in good
  BY <1>1
<1>3. ASSUME NEW m \in Nat, m \in good PROVE m + 1 \in good
  <2> SUFFICES ASSUME q <= m + 1, m + 1 <= n PROVE Out(m + 1)
    OBVIOUS
  <2>1. m + 1 \in 1..n /\ m + 1 > 0 /\ (m + 1) - 1 = m /\ f[m + 1] \in Int /\ Factors(m, f)
        /\ m + 1 \in 1..m + 1
    <3>1. m + 1 \in 1..n /\ m + 1 > 0 /\ (m + 1) - 1 = m /\ \A i \in 1..m : i \in 1..n
          /\ m + 1 \in 1..m + 1
      BY <1>1
    <3> QED
      BY <1>1, <3>1 DEF Factors
  <2>2. ASSUME NEW g, Beside(m + 1, f, g, q)
        PROVE  /\ Product(m + 1, g) = g[m + 1] * Product(m, g) /\ Factors(m, g)
               /\ g[m + 1] \in Int /\ Product(m, g) \in Int
               /\ \A i \in 1..m + 1 : i # q => g[i] = f[i]
               /\ \A i \in 1..m : i \in 1..m + 1
    <3>1. Factors(m + 1, g) /\ m + 1 \in Nat /\ \A i \in 1..m + 1 : i # q => g[i] = f[i]
      BY <2>2 DEF Beside
    <3>2. Product(m + 1, g) = g[m + 1] * Product((m + 1) - 1, g) /\ Factors((m + 1) - 1, g)
      BY <2>1, <3>1, ProductIs
    <3>3. Factors(m, g)
      BY <2>1, <3>2
    <3>4. Product(m, g) \in Int /\ g[m + 1] \in Int
      BY <2>1, <3>1, <3>3, ProductIs DEF Factors
    <3> QED
      BY <2>1, <3>1, <3>2, <3>3, <3>4
  <2>3. CASE q = m + 1
    <3>1. PICK rest \in Int : rest = Product(m, f)
      BY <2>1, ProductIs
    <3>2. ASSUME NEW g, Beside(m + 1, f, g, q)
          PROVE  Product(m + 1, g) = g[q] * rest
      <4>1. \A i \in 1..m : g[i] = f[i]
        BY <2>2, <2>3, <3>2
      <4>2. Product(m, g) = Product(m, f)
        BY <2>1, <4>1, ProductAgree
      <4> QED
        BY <2>2, <2>3, <3>1, <3>2, <4>2
    <3> QED
      BY <3>2
  <2>4. CASE q <= m
    <3>0. m <= n
      BY <1>1
    <3>1. PICK rest \in Int : \A g : Beside(m, f, g, q) => Product(m, g) = g[q] * rest
      BY <1>3, <2>4, <3>0
    <3>2. PICK more \in Int : more = f[m + 1] * rest
      BY <2>1
    <3>3. ASSUME NEW g, Beside(m + 1, f, g, q)
          PROVE  Product(m + 1, g) = g[q] * more
      <4>1. Beside(m, f, g, q)
        BY <2>2, <3>3 DEF Beside
      <4>2. Product(m, g) = g[q] * rest
        BY <3>1, <4>1
      <4>3. g[m + 1] = f[m + 1] /\ Product(m + 1, g) = g[m + 1] * Product(m, g)
        BY <2>1, <2>2, <2>4, <3>3
      <4>4. g[q] \in Int
        BY <1>1, <2>4, <4>1 DEF Beside, Factors
      <4>5. Product(m + 1, g) = f[m + 1] * (g[q] * rest)
        BY <4>2, <4>3
      <4>6. f[m + 1] * (g[q] * rest) = g[q] * (f[m + 1] * rest)
        BY <2>1, <4>4
      <4> QED
        BY <3>2, <4>5, <4>6
    <3> QED
      BY <3>3
  <2> QED
    BY <1>1, <2>3, <2>4
<1> HIDE DEF Out
<1> HIDE DEF good
<1>4. \A m \in Nat : m \in good
  BY <1>2, <1>3, NumbersInduction
<1> QED
  BY <1>1, <1>4 DEF good, Out

\* A power unfolds, is a number, and not zero unless its base is.
LEMMA PowerIs ==
  ASSUME NEW x \in Int, NEW n \in Nat
  PROVE  /\ Power(x, n) \in Int
         /\ n = 0 => Power(x, n) = 1
         /\ n > 0 => Power(x, n) = x * Power(x, n - 1)
<1> DEFINE f == [i \in 1..n |-> x]
           g == [i \in 1..n - 1 |-> x]
<1>1. Factors(n, f) /\ Power(x, n) = Product(n, f)
  BY DEF Factors, Power
<1>2. /\ n > 0 => n \in 1..n /\ f[n] = x
      /\ \A i \in 1..n - 1 : g[i] = f[i]
      /\ Power(x, n - 1) = Product(n - 1, g)
  BY DEF Power
<1> HIDE DEF f, g
<1>3. /\ Product(n, f) \in Int
      /\ n = 0 => Product(n, f) = 1
      /\ n > 0 => Product(n, f) = f[n] * Product(n - 1, f) /\ Factors(n - 1, f)
  BY <1>1, ProductIs
<1>4. n > 0 => Product(n - 1, g) = Product(n - 1, f)
  BY <1>2, <1>3, ProductAgree
<1> QED
  BY <1>1, <1>2, <1>3, <1>4

LEMMA PowerPositive ==
  ASSUME NEW x \in Nat, x > 0
  PROVE  \A n \in Nat : Power(x, n) \in Nat /\ Power(x, n) > 0
<1> DEFINE good == {n \in Nat : Power(x, n) \in Nat /\ Power(x, n) > 0}
<1>1. 0 \in good
  BY PowerIs
<1>2. ASSUME NEW n \in Nat, n \in good PROVE n + 1 \in good
  <2>1. Power(x, n + 1) = x * Power(x, n)
    <3>1. n + 1 \in Nat /\ n + 1 > 0 /\ (n + 1) - 1 = n
      OBVIOUS
    <3>2. Power(x, n + 1) = x * Power(x, (n + 1) - 1)
      BY <3>1, PowerIs
    <3> QED
      BY <3>1, <3>2
  <2>2. Power(x, n) \in Nat /\ Power(x, n) > 0
    BY <1>2
  <2>3. x * Power(x, n) \in Nat /\ x * Power(x, n) > 0
    BY <2>2
  <2> QED
    BY <2>1, <2>3
<1> HIDE DEF good
<1>3. \A n \in Nat : n \in good
  BY <1>1, <1>2, NumbersInduction
<1> QED
  BY <1>3 DEF good

LEMMA PowerTimes ==
  ASSUME NEW x \in Int, NEW y \in Int, NEW n \in Nat
  PROVE  Power(x * y, n) = Power(x, n) * Power(y, n)
<1> DEFINE f == [i \in 1..n |-> x]
           g == [i \in 1..n |-> y]
           k == [i \in 1..n |-> x * y]
<1>1. Factors(n, f) /\ Factors(n, g) /\ \A i \in 1..n : k[i] = f[i] * g[i]
  BY DEF Factors
<1>2. Power(x, n) = Product(n, f) /\ Power(y, n) = Product(n, g) /\ Power(x * y, n) = Product(n, k)
  BY DEF Power
<1> HIDE DEF f, g, k
<1>3. Product(n, k) = Product(n, f) * Product(n, g)
  BY <1>1, ProductTimes
<1> QED
  BY <1>2, <1>3

-----------------------------------------------------------------------------
(* The mitigation, one qubit after the other                               *)

\* The probability of a misreading is less than a half.
LEMMA ReadoutIs ==
  /\ Misread \in Nat /\ Misread > 0 /\ Reads \in Nat /\ Reads > 0
  /\ Reads - Misread \in Nat
  /\ Reads - 2 * Misread \in Nat /\ Reads - 2 * Misread > 0
  /\ (Reads - Misread) - Misread = Reads - 2 * Misread
  /\ (Reads - Misread) + Misread = Reads
BY ReadoutAssumption

\* The sum of a linear combination.
LEMMA SumLinear ==
  ASSUME NEW S, NEW f, NEW g, NEW k, NEW a \in Int, NEW b \in Int,
         Summable(f, S), Summable(g, S), \A x \in S : k[x] = a * f[x] + b * g[x]
  PROVE  /\ SumFunctionOnSet(k, S) = a * SumFunctionOnSet(f, S) + b * SumFunctionOnSet(g, S)
         /\ Summable(k, S)
<1> DEFINE af == [x \in S |-> a * f[x]]
           bg == [x \in S |-> b * g[x]]
<1>1. \A x \in S : f[x] \in Int /\ g[x] \in Int /\ IsFiniteSet(S)
  BY DEF Summable
<1>2. IsFiniteSet(S)
  BY DEF Summable
<1>3. \A x \in S : af[x] = a * f[x] /\ bg[x] = b * g[x] /\ af[x] \in Int /\ bg[x] \in Int
                   /\ k[x] \in Int
  BY <1>1
<1>4. \A x \in S : k[x] = af[x] + bg[x]
  BY <1>3
<1> HIDE DEF af, bg
<1>5. Summable(af, S) /\ Summable(bg, S) /\ Summable(k, S)
  BY <1>2, <1>3 DEF Summable
<1>6. SumFunctionOnSet(k, S) = SumFunctionOnSet(af, S) + SumFunctionOnSet(bg, S)
  BY <1>4, <1>5, SumPlus
<1>7. SumFunctionOnSet(af, S) = a * SumFunctionOnSet(f, S)
  BY <1>3, SumScale
<1>8. SumFunctionOnSet(bg, S) = b * SumFunctionOnSet(g, S)
  BY <1>3, SumScale
<1> QED
  BY <1>5, <1>6, <1>7, <1>8

\* To turn a bit round twice is to leave it.
LEMMA FlipIs ==
  ASSUME NEW n \in Nat, NEW k \in Bits(n), NEW q \in 1..n
  PROVE  /\ Flip(k, q) \in Bits(n) /\ Flip(k, q)[q] = 1 - k[q] /\ Flip(k, q)[q] # k[q]
         /\ \A i \in 1..n : i # q => Flip(k, q)[i] = k[i]
         /\ Flip(Flip(k, q), q) = k /\ Flip(k, q) # k
<1>1. k \in [1..n -> {0, 1}] /\ k[q] \in {0, 1} /\ 1 - k[q] \in {0, 1} /\ 1 - k[q] # k[q]
      /\ 1 - (1 - k[q]) = k[q]
  BY DEF Bits
<1>2. /\ Flip(k, q) \in [1..n -> {0, 1}] /\ Flip(k, q)[q] = 1 - k[q]
      /\ \A i \in 1..n : i # q => Flip(k, q)[i] = k[i]
  BY <1>1 DEF Flip
<1>3. Flip(Flip(k, q), q) = k
  <2> DEFINE l == Flip(k, q)
  <2>1. Flip(l, q) = [l EXCEPT ![q] = 1 - l[q]]
    BY DEF Flip
  <2>2. l \in [1..n -> {0, 1}] /\ l[q] = 1 - k[q] /\ \A i \in 1..n : i # q => l[i] = k[i]
    BY <1>2
  <2> HIDE DEF l
  <2>3. \A i \in 1..n : Flip(l, q)[i] = k[i]
    BY <1>1, <2>1, <2>2
  <2>4. Flip(l, q) \in [1..n -> {0, 1}]
    BY <1>1, <2>1, <2>2
  <2>5. Flip(l, q) = k
    BY <1>1, <2>3, <2>4
  <2> QED
    BY <2>5 DEF l
<1> QED
  BY <1>1, <1>2, <1>3 DEF Bits

\* The values of a tensor, taken with one bit turned round, are its values.
LEMMA SumFlipped ==
  ASSUME NEW n \in Nat, NEW q \in 1..n, NEW t, \A k \in Bits(n) : t[k] \in Int, NEW g,
         \A k \in Bits(n) : g[k] = t[Flip(k, q)]
  PROVE  SumFunctionOnSet(g, Bits(n)) = SumFunctionOnSet(t, Bits(n))
<1> DEFINE m == [k \in Bits(n) |-> Flip(k, q)]
<1>1. IsFiniteSet(Bits(n))
  BY BitsFinite
<1>2. \A k \in Bits(n) : m[k] = Flip(k, q) /\ m[k] \in Bits(n) /\ t[m[k]] \in Int
                         /\ g[k] = t[m[k]]
  BY FlipIs
<1>3. \A k \in Bits(n) : Flip(Flip(k, q), q) = k
  BY FlipIs
<1>4. \A k, l \in Bits(n) : m[k] = m[l] => k = l
  BY <1>2, <1>3
<1> HIDE DEF m
<1>5. {m[k] : k \in Bits(n)} = Bits(n)
  <2>1. \A k \in Bits(n) : m[k] \in Bits(n) /\ m[m[k]] = k
    BY <1>2, <1>3
  <2>2. \A k \in Bits(n) : k \in {m[l] : l \in Bits(n)}
    BY <2>1
  <2> QED
    BY <2>1, <2>2
<1>6. SumFunctionOnSet(t, {m[k] : k \in Bits(n)}) = SumFunctionOnSet(g, Bits(n))
  BY <1>1, <1>2, <1>4, SumRenamed
<1> QED
  BY <1>5, <1>6

Abs(z) == IF z < 0 THEN -z ELSE z

\* How much there is in a tensor, whatever the signs.
Size(t) == SumFunctionOnSet([k \in DOMAIN t |-> Abs(t[k])], DOMAIN t)

\* A size is the sum of natural numbers.
LEMMA SizeIs ==
  ASSUME NEW n \in Nat, NEW t \in [Bits(n) -> Int]
  PROVE  /\ Size(t) \in Nat
         /\ \A k \in Bits(n) : Abs(t[k]) \in Nat /\ Abs(t[k]) <= Size(t)
         /\ \A g : (\A k \in Bits(n) : g[k] = Abs(t[k])) => Size(t) = SumFunctionOnSet(g, Bits(n))
<1> DEFINE f == [k \in Bits(n) |-> Abs(t[k])]
<1>1. IsFiniteSet(Bits(n))
  BY BitsFinite
<1>2. \A k \in Bits(n) : f[k] = Abs(t[k]) /\ f[k] \in Nat
  BY DEF Abs
<1>3. Size(t) = SumFunctionOnSet(f, Bits(n))
  BY DEF Size
<1> HIDE DEF f
<1>4. SumFunctionOnSet(f, Bits(n)) \in Nat
  BY <1>1, <1>2, SumOfNaturals
<1>5. ASSUME NEW k \in Bits(n)
      PROVE  f[k] <= SumFunctionOnSet(f, Bits(n))
  <2> DEFINE T == {k}
  <2>1. T \in SUBSET Bits(n) /\ SumFunctionOnSet(f, T) = f[k]
    <3>1. f[k] \in Int
      BY <1>2
    <3>2. SumFunctionOnSet(f, {k}) = f[k]
      BY <3>1, SumOne
    <3> QED
      BY <3>2
  <2> HIDE DEF T
  <2>2. SumFunctionOnSet(f, T) <= SumFunctionOnSet(f, Bits(n))
    BY <1>1, <1>2, <2>1, SumOfNaturals
  <2> QED
    BY <2>1, <2>2
<1>6. ASSUME NEW g, \A k \in Bits(n) : g[k] = Abs(t[k])
      PROVE  SumFunctionOnSet(g, Bits(n)) = SumFunctionOnSet(f, Bits(n))
  <2>1. Summable(f, Bits(n)) /\ \A k \in Bits(n) : g[k] = f[k]
    BY <1>1, <1>2, <1>6 DEF Summable
  <2> QED
    BY <2>1, SumAgree
<1> QED
  BY <1>2, <1>3, <1>4, <1>5, <1>6

\* One axis: the sum grows by Reads - 2 * Misread, the size by no more than Reads.
LEMMA UnmixIs ==
  ASSUME NEW n \in Nat, NEW q \in 1..n, NEW t \in [Bits(n) -> Int]
  PROVE  /\ Unmix(t, q) \in [Bits(n) -> Int]
         /\ \A k \in Bits(n) : Unmix(t, q)[k] =
              (Reads - Misread) * t[k] + (-Misread) * t[Flip(k, q)]
         /\ SumFunctionOnSet(Unmix(t, q), Bits(n)) =
              (Reads - 2 * Misread) * SumFunctionOnSet(t, Bits(n))
         /\ Size(Unmix(t, q)) <= Reads * Size(t)
<1> DEFINE u == Unmix(t, q)
           B == Bits(n)
           g == [k \in B |-> t[Flip(k, q)]]
           at == [k \in B |-> Abs(t[k])]
           ag == [k \in B |-> at[Flip(k, q)]]
           au == [k \in B |-> Abs(u[k])]
           w == [k \in B |-> (Reads - Misread) * at[k] + Misread * ag[k]]
<1>0. Misread \in Int /\ Reads \in Int /\ Reads - Misread \in Int /\ -Misread \in Int
      /\ IsFiniteSet(B) /\ \A k \in B : Flip(k, q) \in B
  BY ReadoutIs, BitsFinite, FlipIs
<1>1. \A k \in B : u[k] = (Reads - Misread) * t[k] + (-Misread) * t[Flip(k, q)] /\ u[k] \in Int
  BY <1>0 DEF Unmix
<1>2. u \in [B -> Int]
  <2>1. u = [k \in B |-> (Reads - Misread) * t[k] - Misread * t[Flip(k, q)]]
    BY DEF Unmix
  <2> QED
    BY <1>0, <2>1
<1>3. \A k \in B : g[k] = t[Flip(k, q)] /\ g[k] \in Int /\ t[k] \in Int
                   /\ u[k] = (Reads - Misread) * t[k] + (-Misread) * g[k]
  BY <1>0, <1>1
<1>4. \A k \in B : /\ at[k] = Abs(t[k]) /\ at[k] \in Int /\ ag[k] = at[Flip(k, q)]
                   /\ ag[k] = Abs(g[k]) /\ ag[k] \in Int
                   /\ au[k] = Abs(u[k]) /\ au[k] \in Int
  BY <1>0, <1>1, <1>3 DEF Abs
<1>5. \A k \in B : w[k] = (Reads - Misread) * at[k] + Misread * ag[k] /\ w[k] \in Int
  <2> TAKE k \in B
  <2>1. w[k] = (Reads - Misread) * at[k] + Misread * ag[k]
    OBVIOUS
  <2>2. PICK x \in Int, y \in Int : x = at[k] /\ y = ag[k]
    BY <1>4
  <2>3. (Reads - Misread) * x + Misread * y \in Int
    BY <1>0
  <2> QED
    BY <2>1, <2>2, <2>3
<1>6. \A k \in B : au[k] <= w[k]
  <2> TAKE k \in B
  <2>1. PICK x \in Int : x = t[k]
    BY <1>3
  <2>2. PICK y \in Int : y = g[k]
    BY <1>3
  <2>3. PICK a \in Nat : a = Reads - Misread
    BY ReadoutIs
  <2>4. PICK z \in Int : z = a * x + (-Misread) * y
    BY <1>0
  <2>5. Abs(z) <= a * Abs(x) + Misread * Abs(y)
    <3>1. a * x <= a * Abs(x) /\ -(a * x) <= a * Abs(x) /\ a * x \in Int /\ a * Abs(x) \in Int
      BY DEF Abs
    <3>2. /\ Misread * y <= Misread * Abs(y) /\ -(Misread * y) <= Misread * Abs(y)
          /\ Misread * y \in Int /\ Misread * Abs(y) \in Int
          /\ (-Misread) * y = -(Misread * y)
      BY ReadoutIs DEF Abs
    <3> QED
      BY <2>4, <3>1, <3>2 DEF Abs
  <2>6. u[k] = z /\ at[k] = Abs(x) /\ ag[k] = Abs(y) /\ w[k] = a * at[k] + Misread * ag[k]
        /\ au[k] = Abs(z)
    BY <1>3, <1>4, <1>5, <2>1, <2>2, <2>3, <2>4
  <2> QED
    BY <2>5, <2>6
<1>7. Size(t) = SumFunctionOnSet(at, B) /\ Size(u) = SumFunctionOnSet(au, B)
  <2>1. DOMAIN t = B /\ DOMAIN u = B
    BY <1>2
  <2> QED
    BY <2>1 DEF Size
<1> HIDE DEF u, B, g, at, ag, au, w
<1>8. Summable(t, B) /\ Summable(g, B) /\ Summable(at, B) /\ Summable(ag, B)
      /\ Summable(au, B) /\ Summable(w, B)
  BY <1>0, <1>3, <1>4, <1>5 DEF Summable
<1>9. SumFunctionOnSet(g, B) = SumFunctionOnSet(t, B)
  BY <1>3, SumFlipped DEF B
<1>10. SumFunctionOnSet(ag, B) = SumFunctionOnSet(at, B)
  BY <1>4, SumFlipped DEF B
<1>11. SumFunctionOnSet(u, B) =
         (Reads - Misread) * SumFunctionOnSet(t, B) + (-Misread) * SumFunctionOnSet(g, B)
  BY <1>0, <1>3, <1>8, SumLinear
<1>12. SumFunctionOnSet(w, B) =
         (Reads - Misread) * SumFunctionOnSet(at, B) + Misread * SumFunctionOnSet(ag, B)
  BY <1>0, <1>5, <1>8, SumLinear
<1>13. SumFunctionOnSet(au, B) <= SumFunctionOnSet(w, B)
  BY <1>6, <1>8, SumMonotone
<1>14. SumFunctionOnSet(t, B) \in Int /\ SumFunctionOnSet(at, B) \in Int
  BY <1>8, SumType DEF Summable
<1>15. SumFunctionOnSet(u, B) = (Reads - 2 * Misread) * SumFunctionOnSet(t, B)
  <2>1. PICK x \in Int : x = SumFunctionOnSet(t, B)
    BY <1>14
  <2>2. (Reads - Misread) * x + (-Misread) * x = (Reads - 2 * Misread) * x
    BY <1>0
  <2> QED
    BY <1>9, <1>11, <2>1, <2>2
<1>16. SumFunctionOnSet(w, B) = Reads * SumFunctionOnSet(at, B)
  <2>1. PICK x \in Int : x = SumFunctionOnSet(at, B)
    BY <1>14
  <2>2. (Reads - Misread) * x + Misread * x = Reads * x
    BY <1>0
  <2> QED
    BY <1>10, <1>12, <2>1, <2>2
<1> QED
  BY <1>1, <1>2, <1>7, <1>13, <1>15, <1>16 DEF u, B

\* h has the tensors between the axes of n qubits, beginning with t.
Axes(h, n, t) ==
  /\ n \in Nat /\ h \in [0..n -> [Bits(n) -> Int]]
  /\ h[0] = t /\ \A q \in 1..n : h[q] = Unmix(h[q - 1], q)

\* The loop is what its recursive definition says.
LEMMA CorrectedUnfolds ==
  ASSUME NEW n \in Nat, NEW t \in [Bits(n) -> Int]
  PROVE  \E h : Axes(h, n, t) /\ Corrected(n, t) = h[n]
<1> DEFINE St == [Bits(n) -> Int]
           step == [p \in (1..n) \X St |-> Unmix(p[2], p[1])]
           Is(h) == h = [q \in 0..n |-> IF q = 0 THEN t ELSE Unmix(h[q - 1], q)]
<1>1. \A q \in 1..n : \A u \in St : step[<<q, u>>] = Unmix(u, q) /\ step[<<q, u>>] \in St
  BY UnmixIs
<1>2. IsStep(step, St, n)
  BY <1>1 DEF IsStep
<1>3. t \in St
  OBVIOUS
<1> HIDE DEF step, St
<1>4. PICK h \in [0..n -> St] : h[0] = t /\ \A q \in 1..n : h[q] = step[<<q, h[q - 1]>>]
  BY <1>2, <1>3, Recursion
<1>5. \A q \in 1..n : q - 1 \in 0..n /\ h[q - 1] \in St /\ q # 0 /\ q \in 0..n
  BY <1>4
<1>6. \A q \in 1..n : h[q] = Unmix(h[q - 1], q)
  BY <1>1, <1>4, <1>5
<1>7. Is(h)
  <2>1. \A q \in 0..n : h[q] = IF q = 0 THEN t ELSE Unmix(h[q - 1], q)
    <3>1. \A q \in 0..n : q = 0 \/ q \in 1..n
      OBVIOUS
    <3> QED
      BY <1>4, <1>5, <1>6, <3>1
  <2> QED
    BY <1>4, <2>1
<1> DEFINE u == CHOOSE g : Is(g)
<1>8. Is(u)
  BY <1>7
<1>9. Corrected(n, t) = u[n]
  BY DEF Corrected
<1> HIDE DEF u
<1>10. u = [q \in 0..n |-> IF q = 0 THEN t ELSE Unmix(u[q - 1], q)]
  BY <1>8
<1>11. u[0] = t /\ \A q \in 1..n : u[q] = Unmix(u[q - 1], q)
  <2>1. 0 \in 0..n /\ \A q \in 1..n : q \in 0..n /\ q # 0
    OBVIOUS
  <2> QED
    BY <1>10, <2>1
<1>12. u[n] = h[n]
  <2> DEFINE good == {q \in Nat : q \in 0..n => u[q] = h[q]}
  <2>1. 0 \in good
    BY <1>4, <1>11
  <2>2. ASSUME NEW q \in Nat, q \in good PROVE q + 1 \in good
    <3> SUFFICES ASSUME q + 1 \in 0..n PROVE u[q + 1] = h[q + 1]
      OBVIOUS
    <3>1. q + 1 \in 1..n /\ q \in 0..n /\ (q + 1) - 1 = q
      OBVIOUS
    <3>2. u[q] = h[q]
      BY <2>2, <3>1
    <3> QED
      BY <1>6, <1>11, <3>1, <3>2
  <2> HIDE DEF good
  <2>3. \A q \in Nat : q \in good
    BY <2>1, <2>2, NumbersInduction
  <2> QED
    BY <2>3 DEF good
<1>13. Axes(h, n, t)
  BY <1>4, <1>6 DEF Axes, St
<1> QED
  BY <1>9, <1>12, <1>13

\* After q axes the sum has grown by as many factors, and the size by no more.
LEMMA AxesGrow ==
  ASSUME NEW h, NEW n, NEW t, Axes(h, n, t)
  PROVE  \A q \in 0..n :
           /\ SumFunctionOnSet(h[q], Bits(n)) =
                Power(Reads - 2 * Misread, q) * SumFunctionOnSet(t, Bits(n))
           /\ Size(h[q]) <= Power(Reads, q) * Size(t)
<1> DEFINE K == Reads - 2 * Misread
           Grown(q) == /\ SumFunctionOnSet(h[q], Bits(n)) =
                            Power(K, q) * SumFunctionOnSet(t, Bits(n))
                       /\ Size(h[q]) <= Power(Reads, q) * Size(t)
           good == {q \in Nat : q <= n => Grown(q)}
<1>1. /\ n \in Nat /\ h[0] = t /\ \A q \in 0..n : h[q] \in [Bits(n) -> Int]
      /\ \A q \in 1..n : h[q] = Unmix(h[q - 1], q)
  BY DEF Axes
<1>2. \A q \in 0..n : SumFunctionOnSet(h[q], Bits(n)) \in Int /\ Size(h[q]) \in Nat
  <2> TAKE q \in 0..n
  <2>1. IsFiniteSet(Bits(n)) /\ h[q] \in [Bits(n) -> Int]
    BY <1>1, BitsFinite
  <2> QED
    BY <1>1, <2>1, SumType, SizeIs
<1>3. 0 \in 0..n /\ t \in [Bits(n) -> Int]
  BY <1>1
<1>4. K \in Int /\ Reads \in Int /\ Reads \in Nat /\ Reads > 0
  BY ReadoutIs
<1> HIDE DEF K
<1>5. Grown(0)
  <2>1. Power(K, 0) = 1 /\ Power(Reads, 0) = 1
    BY <1>4, PowerIs
  <2>2. PICK x \in Int, y \in Nat : x = SumFunctionOnSet(t, Bits(n)) /\ y = Size(t)
    BY <1>1, <1>2, <1>3
  <2>3. 1 * x = x /\ y <= 1 * y
    OBVIOUS
  <2> QED
    BY <1>1, <2>1, <2>2, <2>3
<1>6. ASSUME NEW q \in Nat, q + 1 <= n, Grown(q)
      PROVE  Grown(q + 1)
  <2>1. q + 1 \in 1..n /\ q \in 0..n /\ q + 1 \in 0..n /\ (q + 1) - 1 = q
    <3>1. n \in Nat /\ q + 1 <= n
      BY <1>1, <1>6
    <3> QED
      BY <3>1
  <2>2. h[q + 1] = Unmix(h[q], q + 1) /\ h[q] \in [Bits(n) -> Int]
    BY <1>1, <2>1
  <2>3. /\ SumFunctionOnSet(h[q + 1], Bits(n)) = K * SumFunctionOnSet(h[q], Bits(n))
        /\ Size(h[q + 1]) <= Reads * Size(h[q])
    BY <1>1, <2>1, <2>2, UnmixIs DEF K
  <2>4. /\ Power(K, q) \in Int /\ Power(Reads, q) \in Int
        /\ Power(K, q + 1) = K * Power(K, q)
        /\ Power(Reads, q + 1) = Reads * Power(Reads, q)
    <3>1. q + 1 \in Nat /\ q + 1 > 0
      OBVIOUS
    <3> QED
      BY <1>4, <2>1, <3>1, PowerIs
  <2>5. PICK s \in Int : s = SumFunctionOnSet(t, Bits(n))
    BY <1>1, <1>2, <1>3
  <2>6. PICK z \in Nat, z0 \in Nat, z1 \in Nat :
          z = Size(h[q]) /\ z0 = Size(t) /\ z1 = Size(h[q + 1])
    BY <1>1, <1>2, <1>3, <2>1
  <2>7. PICK g \in Int, p \in Int : g = Power(K, q) /\ p = Power(Reads, q)
    BY <2>4
  <2>8. SumFunctionOnSet(h[q + 1], Bits(n)) = (K * g) * s
    <3>1. SumFunctionOnSet(h[q], Bits(n)) = g * s
      BY <1>6, <2>5, <2>7
    <3>2. K * (g * s) = (K * g) * s
      BY <1>4
    <3> QED
      BY <2>3, <3>1, <3>2
  <2>9. z1 <= (Reads * p) * z0
    <3>1. z <= p * z0 /\ p * z0 \in Int
      BY <1>6, <2>6, <2>7
    <3>2. Reads * z <= Reads * (p * z0)
      <4>1. PICK y \in Int : y = p * z0
        BY <3>1
      <4>2. (y - z) * Reads \in Nat
        BY <1>4, <3>1, <4>1
      <4> QED
        BY <1>4, <4>1, <4>2
    <3>3. Reads * (p * z0) = (Reads * p) * z0 /\ Reads * z \in Int /\ (Reads * p) * z0 \in Int
      BY <1>4
    <3>4. z1 <= Reads * z
      BY <2>3, <2>6
    <3> QED
      BY <3>2, <3>3, <3>4
  <2> QED
    BY <2>4, <2>5, <2>6, <2>7, <2>8, <2>9
<1>7. 0 \in good
  BY <1>5
<1> HIDE DEF Grown
<1>8. ASSUME NEW q \in Nat, q \in good PROVE q + 1 \in good
  <2>1. q + 1 <= n => q <= n
    BY <1>1
  <2> QED
    BY <1>6, <1>8, <2>1
<1> HIDE DEF good
<1>9. \A q \in Nat : q \in good
  BY <1>7, <1>8, NumbersInduction
<1>10. \A q \in 0..n : q \in Nat /\ q <= n
  BY <1>1
<1>11. \A q \in 0..n : Grown(q)
  BY <1>9, <1>10 DEF good
<1> QED
  BY <1>11 DEF Grown, K

\* The loop multiplies the sum, and the size no more than that, whatever it is given.
LEMMA CorrectedIs ==
  ASSUME NEW n \in Nat, NEW t \in [Bits(n) -> Int]
  PROVE  /\ Corrected(n, t) \in [Bits(n) -> Int]
         /\ SumFunctionOnSet(Corrected(n, t), Bits(n)) =
              Power(Reads - 2 * Misread, n) * SumFunctionOnSet(t, Bits(n))
         /\ Size(Corrected(n, t)) <= Power(Reads, n) * Size(t)
<1>1. PICK h : Axes(h, n, t) /\ Corrected(n, t) = h[n]
  BY CorrectedUnfolds
<1>2. n \in 0..n
  OBVIOUS
<1>3. h[n] \in [Bits(n) -> Int]
  BY <1>1, <1>2 DEF Axes
<1> QED
  BY <1>1, <1>2, <1>3, AxesGrow

\* The loop works on the parts of a histogram as it does on the whole.
LEMMA CorrectedPlus ==
  ASSUME NEW n \in Nat, NEW s \in [Bits(n) -> Int], NEW t \in [Bits(n) -> Int],
         NEW u \in [Bits(n) -> Int], \A k \in Bits(n) : u[k] = s[k] + t[k]
  PROVE  \A k \in Bits(n) : Corrected(n, u)[k] = Corrected(n, s)[k] + Corrected(n, t)[k]
<1>1. PICK hs : Axes(hs, n, s) /\ Corrected(n, s) = hs[n]
  BY CorrectedUnfolds
<1>2. PICK ht : Axes(ht, n, t) /\ Corrected(n, t) = ht[n]
  BY CorrectedUnfolds
<1>3. PICK hu : Axes(hu, n, u) /\ Corrected(n, u) = hu[n]
  BY CorrectedUnfolds
<1> DEFINE Same(q) == \A k \in Bits(n) : hu[q][k] = hs[q][k] + ht[q][k]
           good == {q \in Nat : q <= n => Same(q)}
<1>4. 0 \in good
  BY <1>1, <1>2, <1>3 DEF Axes
<1>5. ASSUME NEW q \in Nat, q + 1 <= n, Same(q)
      PROVE  Same(q + 1)
  <2>1. q + 1 \in 1..n /\ q \in 0..n /\ (q + 1) - 1 = q
    BY <1>5
  <2>2. /\ hs[q] \in [Bits(n) -> Int] /\ hs[q + 1] = Unmix(hs[q], q + 1)
        /\ ht[q] \in [Bits(n) -> Int] /\ ht[q + 1] = Unmix(ht[q], q + 1)
        /\ hu[q] \in [Bits(n) -> Int] /\ hu[q + 1] = Unmix(hu[q], q + 1)
    <3>1. hs[q] \in [Bits(n) -> Int] /\ hs[q + 1] = Unmix(hs[q], q + 1)
      BY <1>1, <2>1 DEF Axes
    <3>2. ht[q] \in [Bits(n) -> Int] /\ ht[q + 1] = Unmix(ht[q], q + 1)
      BY <1>2, <2>1 DEF Axes
    <3>3. hu[q] \in [Bits(n) -> Int] /\ hu[q + 1] = Unmix(hu[q], q + 1)
      BY <1>3, <2>1 DEF Axes
    <3> QED
      BY <3>1, <3>2, <3>3
  <2> TAKE k \in Bits(n)
  <2>3. PICK l \in Bits(n) : l = Flip(k, q + 1)
    BY <2>1, FlipIs
  <2>4. PICK a \in Int, m \in Int : a = Reads - Misread /\ m = -Misread
    BY ReadoutIs
  <2>5. /\ hs[q + 1][k] = a * hs[q][k] + m * hs[q][l]
        /\ ht[q + 1][k] = a * ht[q][k] + m * ht[q][l]
        /\ hu[q + 1][k] = a * hu[q][k] + m * hu[q][l]
    <3>1. hs[q + 1][k] = a * hs[q][k] + m * hs[q][l]
      BY <2>1, <2>2, <2>3, <2>4, UnmixIs
    <3>2. ht[q + 1][k] = a * ht[q][k] + m * ht[q][l]
      BY <2>1, <2>2, <2>3, <2>4, UnmixIs
    <3>3. hu[q + 1][k] = a * hu[q][k] + m * hu[q][l]
      BY <2>1, <2>2, <2>3, <2>4, UnmixIs
    <3> QED
      BY <3>1, <3>2, <3>3
  <2>6. PICK sk \in Int, sl \in Int, tk \in Int, tl \in Int :
          sk = hs[q][k] /\ sl = hs[q][l] /\ tk = ht[q][k] /\ tl = ht[q][l]
    BY <2>2
  <2>7. hu[q][k] = sk + tk /\ hu[q][l] = sl + tl
    BY <1>5, <2>6
  <2>8. a * (sk + tk) + m * (sl + tl) = (a * sk + m * sl) + (a * tk + m * tl)
    OBVIOUS
  <2> QED
    BY <2>5, <2>6, <2>7, <2>8
<1> HIDE DEF Same
<1>6. ASSUME NEW q \in Nat, q \in good PROVE q + 1 \in good
  <2>1. q + 1 <= n => q <= n
    OBVIOUS
  <2> QED
    BY <1>5, <1>6, <2>1
<1> HIDE DEF good
<1>7. n \in good
  BY <1>4, <1>6, NumbersInduction
<1>8. Same(n)
  BY <1>7 DEF good
<1> QED
  BY <1>1, <1>2, <1>3, <1>8 DEF Same

-----------------------------------------------------------------------------
(* What is misread on average is corrected exactly.                        *)

\* The factor of place i in what is left of the weight with which k is read as l
\* once the first q axes are corrected.
Left(q, k, l, i) ==
  IF i <= q THEN (IF k[i] = l[i] THEN Reads * (Reads - 2 * Misread) ELSE 0)
  ELSE IF k[i] = l[i] THEN Reads - Misread ELSE Misread

Lefts(n, q, k, l) == [i \in 1..n |-> Left(q, k, l, i)]

\* The factors are integers, and without a corrected axis those of the weight.
LEMMA LeftsAre ==
  ASSUME NEW n \in Nat, NEW q \in 0..n, NEW k, NEW l
  PROVE  /\ Factors(n, Lefts(n, q, k, l))
         /\ Product(n, Lefts(n, q, k, l)) \in Int
         /\ \A i \in 1..n : Lefts(n, q, k, l)[i] = Left(q, k, l, i)
         /\ q = 0 => Product(n, Lefts(n, q, k, l)) = Weight(n, k, l)
<1> DEFINE f == Lefts(n, q, k, l)
           g == [i \in 1..n |-> IF k[i] = l[i] THEN Reads - Misread ELSE Misread]
<1>1. Reads * (Reads - 2 * Misread) \in Int /\ Reads - Misread \in Int /\ Misread \in Int
  BY ReadoutIs
<1>2. \A i \in 1..n : f[i] = Left(q, k, l, i) /\ f[i] \in Int
  BY <1>1 DEF Lefts, Left
<1>3. Weight(n, k, l) = Product(n, g)
  BY DEF Weight
<1>4. q = 0 => \A i \in 1..n : g[i] = f[i]
  <2>1. q = 0 => \A i \in 1..n : ~(i <= q)
    OBVIOUS
  <2> QED
    BY <1>2, <2>1 DEF Left
<1> HIDE DEF f, g
<1>5. Factors(n, f)
  BY <1>2 DEF Factors
<1>6. Product(n, f) \in Int
  BY <1>5, ProductIs
<1>7. q = 0 => Product(n, g) = Product(n, f)
  BY <1>4, <1>5, ProductAgree
<1> QED
  BY <1>2, <1>3, <1>5, <1>6, <1>7 DEF f

\* To correct the axis of q is to correct its factor.
LEMMA LeftsStep ==
  ASSUME NEW n \in Nat, NEW q \in 1..n, NEW k \in Bits(n), NEW l \in Bits(n)
  PROVE  (Reads - Misread) * Product(n, Lefts(n, q - 1, k, l))
           + (-Misread) * Product(n, Lefts(n, q - 1, k, Flip(l, q)))
         = Product(n, Lefts(n, q, k, l))
<1> DEFINE f == Lefts(n, q - 1, k, l)
           g == Lefts(n, q - 1, k, Flip(l, q))
           h == Lefts(n, q, k, l)
<1>0. q - 1 \in 0..n /\ q \in 0..n /\ ~(q <= q - 1) /\ q <= q
      /\ \A i \in 1..n : i # q => (i <= q <=> i <= q - 1)
  OBVIOUS
<1>1. /\ Factors(n, f) /\ Factors(n, g) /\ Factors(n, h)
      /\ \A i \in 1..n : f[i] = Left(q - 1, k, l, i)
      /\ \A i \in 1..n : g[i] = Left(q - 1, k, Flip(l, q), i)
      /\ \A i \in 1..n : h[i] = Left(q, k, l, i)
  BY <1>0, LeftsAre
<1>2. /\ Flip(l, q)[q] = 1 - l[q] /\ \A i \in 1..n : i # q => Flip(l, q)[i] = l[i]
      /\ k[q] \in {0, 1} /\ l[q] \in {0, 1}
  BY FlipIs DEF Bits
<1>3. Beside(n, f, f, q) /\ Beside(n, f, g, q) /\ Beside(n, f, h, q)
  <2>1. \A i \in 1..n : i # q => g[i] = f[i]
    BY <1>1, <1>2 DEF Left
  <2>2. \A i \in 1..n : i # q => h[i] = f[i]
    BY <1>0, <1>1 DEF Left
  <2> HIDE DEF f, g, h
  <2> QED
    BY <1>1, <2>1, <2>2 DEF Beside
<1>4. /\ f[q] = IF k[q] = l[q] THEN Reads - Misread ELSE Misread
      /\ g[q] = IF k[q] = l[q] THEN Misread ELSE Reads - Misread
      /\ h[q] = IF k[q] = l[q] THEN Reads * (Reads - 2 * Misread) ELSE 0
  <2>1. f[q] = IF k[q] = l[q] THEN Reads - Misread ELSE Misread
    BY <1>0, <1>1 DEF Left
  <2>2. g[q] = IF k[q] = 1 - l[q] THEN Reads - Misread ELSE Misread
    BY <1>0, <1>1, <1>2 DEF Left
  <2>3. k[q] = 1 - l[q] <=> k[q] # l[q]
    BY <1>2
  <2>4. h[q] = IF k[q] = l[q] THEN Reads * (Reads - 2 * Misread) ELSE 0
    BY <1>0, <1>1 DEF Left
  <2> QED
    BY <2>1, <2>2, <2>3, <2>4
<1> HIDE DEF f, g, h
<1>5. PICK rest \in Int : \A e : Beside(n, f, e, q) => Product(n, e) = e[q] * rest
  BY <1>1, FactorOut
<1>6. /\ Product(n, f) = f[q] * rest /\ Product(n, g) = g[q] * rest
      /\ Product(n, h) = h[q] * rest
  BY <1>3, <1>5
<1>7. PICK m \in Int, r \in Int : m = Misread /\ r = Reads
  BY ReadoutIs
<1>8. CASE k[q] = l[q]
  <2>1. (r - m) * ((r - m) * rest) + (-m) * (m * rest) = (r * (r - 2 * m)) * rest
    OBVIOUS
  <2> QED
    BY <1>4, <1>6, <1>7, <1>8, <2>1 DEF f, g, h
<1>9. CASE k[q] # l[q]
  <2>1. (r - m) * (m * rest) + (-m) * ((r - m) * rest) = 0 * rest
    OBVIOUS
  <2> QED
    BY <1>4, <1>6, <1>7, <1>9, <2>1 DEF f, g, h
<1> QED
  BY <1>8, <1>9

\* Once all axes are corrected only what is read as it is counts.
LEMMA LeftsDone ==
  ASSUME NEW n \in Nat, NEW k \in Bits(n), NEW l \in Bits(n)
  PROVE  Product(n, Lefts(n, n, k, l)) =
           IF k = l THEN Power(Reads * (Reads - 2 * Misread), n) ELSE 0
<1> DEFINE f == Lefts(n, n, k, l)
           D == Reads * (Reads - 2 * Misread)
           g == [i \in 1..n |-> D]
<1>1. n \in 0..n /\ D \in Int /\ \A i \in 1..n : i <= n
  BY ReadoutIs
<1>2. /\ Factors(n, f)
      /\ \A i \in 1..n : f[i] = IF k[i] = l[i] THEN D ELSE 0
  BY <1>1, LeftsAre DEF Left
<1>3. Power(D, n) = Product(n, g) /\ \A i \in 1..n : g[i] = D
  BY DEF Power
<1> HIDE DEF f, g, D
<1>4. CASE k = l
  <2>1. \A i \in 1..n : g[i] = f[i]
    BY <1>2, <1>3, <1>4
  <2>2. Product(n, g) = Product(n, f)
    BY <1>2, <2>1, ProductAgree
  <2> QED
    BY <1>3, <1>4, <2>2 DEF f, D
<1>5. CASE k # l
  <2>1. PICK q \in 1..n : k[q] # l[q]
    BY <1>5 DEF Bits
  <2>2. PICK rest \in Int : \A e : Beside(n, f, e, q) => Product(n, e) = e[q] * rest
    BY <1>2, FactorOut
  <2>3. Beside(n, f, f, q)
    BY <1>2 DEF Beside
  <2>4. Product(n, f) = f[q] * rest /\ f[q] = 0
    BY <1>2, <2>1, <2>2, <2>3
  <2>5. 0 * rest = 0
    OBVIOUS
  <2> QED
    BY <1>5, <2>4, <2>5 DEF f
<1> QED
  BY <1>4, <1>5

\* The shares of all outcomes of d in the entry l after q axes.
Shares(n, d, q, l) == [k \in Bits(n) |-> d[k] * Product(n, Lefts(n, q, k, l))]

Partly(n, d, q, l) == SumFunctionOnSet(Shares(n, d, q, l), Bits(n))

\* The shares are integers.
LEMMA SharesAre ==
  ASSUME NEW n \in Nat, NEW q \in 0..n, NEW d \in [Bits(n) -> Int], NEW l
  PROVE  /\ Summable(Shares(n, d, q, l), Bits(n))
         /\ \A k \in Bits(n) : Shares(n, d, q, l)[k] = d[k] * Product(n, Lefts(n, q, k, l))
         /\ Partly(n, d, q, l) \in Int
<1>1. IsFiniteSet(Bits(n))
  BY BitsFinite
<1>2. \A k \in Bits(n) : Shares(n, d, q, l)[k] = d[k] * Product(n, Lefts(n, q, k, l))
  BY DEF Shares
<1>3. \A k \in Bits(n) : Product(n, Lefts(n, q, k, l)) \in Int /\ d[k] \in Int
  BY LeftsAre
<1>4. \A k \in Bits(n) : Shares(n, d, q, l)[k] \in Int
  BY <1>2, <1>3
<1>5. Summable(Shares(n, d, q, l), Bits(n))
  BY <1>1, <1>4 DEF Summable
<1>6. Partly(n, d, q, l) \in Int
  BY <1>1, <1>4, SumType DEF Partly
<1> QED
  BY <1>2, <1>5, <1>6

\* Correcting an axis corrects its factor in all shares.
LEMMA PartlyStep ==
  ASSUME NEW n \in Nat, NEW q \in 1..n, NEW d \in [Bits(n) -> Int], NEW l \in Bits(n)
  PROVE  Partly(n, d, q, l) = (Reads - Misread) * Partly(n, d, q - 1, l)
                                + (-Misread) * Partly(n, d, q - 1, Flip(l, q))
<1>1. q \in 0..n /\ q - 1 \in 0..n
  OBVIOUS
<1> DEFINE s == Shares(n, d, q, l)
           f == Shares(n, d, q - 1, l)
           g == Shares(n, d, q - 1, Flip(l, q))
<1>2. PICK a \in Int, m \in Int : a = Reads - Misread /\ m = -Misread
  BY ReadoutIs
<1>3. Summable(f, Bits(n)) /\ Summable(g, Bits(n))
  BY <1>1, SharesAre
<1>4. \A k \in Bits(n) : s[k] = a * f[k] + m * g[k]
  <2> TAKE k \in Bits(n)
  <2>1. PICK x \in Int, y \in Int, z \in Int, dk \in Int :
          /\ x = Product(n, Lefts(n, q - 1, k, l))
          /\ y = Product(n, Lefts(n, q - 1, k, Flip(l, q)))
          /\ z = Product(n, Lefts(n, q, k, l))
          /\ dk = d[k]
    BY <1>1, LeftsAre
  <2>2. a * x + m * y = z
    BY <1>2, <2>1, LeftsStep
  <2>3. s[k] = dk * z /\ f[k] = dk * x /\ g[k] = dk * y
    BY <1>1, <2>1, SharesAre
  <2>4. dk * (a * x + m * y) = a * (dk * x) + m * (dk * y)
    OBVIOUS
  <2> QED
    BY <2>2, <2>3, <2>4
<1> HIDE DEF s, f, g
<1>5. SumFunctionOnSet(s, Bits(n)) =
        a * SumFunctionOnSet(f, Bits(n)) + m * SumFunctionOnSet(g, Bits(n))
  BY <1>3, <1>4, SumLinear
<1> QED
  BY <1>2, <1>5 DEF Partly, s, f, g

\* A histogram that is misread as it is on average.
LEMMA ExpectedIs ==
  ASSUME NEW n \in Nat, NEW d \in [Bits(n) -> Int]
  PROVE  /\ Expected(n, d) \in [Bits(n) -> Int]
         /\ \A l \in Bits(n) : Expected(n, d)[l] = Partly(n, d, 0, l)
<1>1. 0 \in 0..n /\ DOMAIN d = Bits(n)
  OBVIOUS
<1>2. ASSUME NEW l \in Bits(n)
      PROVE  Expected(n, d)[l] = Partly(n, d, 0, l)
  <2> DEFINE w == [k \in Bits(n) |-> d[k] * Weight(n, k, l)]
  <2>1. Expected(n, d)[l] = SumFunction(w) /\ DOMAIN w = Bits(n)
    BY <1>1 DEF Expected
  <2>2. \A k \in Bits(n) : w[k] = Shares(n, d, 0, l)[k]
    <3>1. \A k \in Bits(n) : Product(n, Lefts(n, 0, k, l)) = Weight(n, k, l)
      BY <1>1, LeftsAre
    <3> QED
      BY <1>1, <3>1, SharesAre
  <2> HIDE DEF w
  <2>3. SumFunction(w) = SumFunctionOnSet(w, Bits(n))
    BY <2>1, SumOfDomain
  <2>4. Summable(Shares(n, d, 0, l), Bits(n))
    BY <1>1, SharesAre
  <2>5. SumFunctionOnSet(w, Bits(n)) = SumFunctionOnSet(Shares(n, d, 0, l), Bits(n))
    BY <2>2, <2>4, SumAgree
  <2> QED
    BY <2>1, <2>3, <2>5 DEF Partly
<1>3. \A l \in Bits(n) : Expected(n, d)[l] \in Int
  <2>1. \A l \in Bits(n) : Partly(n, d, 0, l) \in Int
    BY <1>1, SharesAre
  <2> QED
    BY <1>2, <2>1
<1>4. \E E : Expected(n, d) = [l \in Bits(n) |-> E[l]]
  <2>1. Expected(n, d) =
          [l \in Bits(n) |-> SumFunction([k \in Bits(n) |-> d[k] * Weight(n, k, l)])]
    BY <1>1 DEF Expected
  <2>2. Expected(n, d) = [l \in Bits(n) |-> Expected(n, d)[l]]
    BY <2>1
  <2> QED
    BY <2>2
<1> QED
  BY <1>2, <1>3, <1>4

\* The correction of the mean of the readings has every count, c times.
LEMMA CorrectedExact ==
  ASSUME NEW n \in Nat, NEW d \in [Bits(n) -> Int]
  PROVE  \A l \in Bits(n) : Corrected(n, Expected(n, d))[l] =
           Power(Reads * (Reads - 2 * Misread), n) * d[l]
<1>1. PICK h : Axes(h, n, Expected(n, d)) /\ Corrected(n, Expected(n, d)) = h[n]
  BY ExpectedIs, CorrectedUnfolds
<1> DEFINE Has(q) == \A l \in Bits(n) : h[q][l] = Partly(n, d, q, l)
           good == {q \in Nat : q <= n => Has(q)}
<1>2. 0 \in good
  BY <1>1, ExpectedIs DEF Axes
<1>3. ASSUME NEW q \in Nat, q + 1 <= n, Has(q)
      PROVE  Has(q + 1)
  <2>1. q + 1 \in 1..n /\ q \in 0..n /\ (q + 1) - 1 = q
    BY <1>3
  <2>2. h[q] \in [Bits(n) -> Int] /\ h[q + 1] = Unmix(h[q], q + 1)
    BY <1>1, <2>1 DEF Axes
  <2> TAKE l \in Bits(n)
  <2>3. PICK m \in Bits(n) : m = Flip(l, q + 1)
    BY <2>1, FlipIs
  <2>4. h[q + 1][l] = (Reads - Misread) * h[q][l] + (-Misread) * h[q][m]
    BY <2>1, <2>2, <2>3, UnmixIs
  <2>5. h[q][l] = Partly(n, d, q, l) /\ h[q][m] = Partly(n, d, q, m)
    BY <1>3
  <2>6. Partly(n, d, q + 1, l) =
          (Reads - Misread) * Partly(n, d, q, l) + (-Misread) * Partly(n, d, q, m)
    BY <2>1, <2>3, PartlyStep
  <2> QED
    BY <2>4, <2>5, <2>6
<1> HIDE DEF Has
<1>4. ASSUME NEW q \in Nat, q \in good PROVE q + 1 \in good
  <2>1. q + 1 <= n => q <= n
    OBVIOUS
  <2> QED
    BY <1>3, <1>4, <2>1
<1> HIDE DEF good
<1>5. n \in good
  BY <1>2, <1>4, NumbersInduction
<1>6. Has(n)
  BY <1>5 DEF good
<1>7. PICK c \in Int : c = Power(Reads * (Reads - 2 * Misread), n)
  <2>1. Reads * (Reads - 2 * Misread) \in Int
    BY ReadoutIs
  <2> QED
    BY <2>1, PowerIs
<1>8. ASSUME NEW l \in Bits(n)
      PROVE  Partly(n, d, n, l) = c * d[l]
  <2> DEFINE f == Shares(n, d, n, l)
  <2>1. n \in 0..n /\ IsFiniteSet(Bits(n))
    BY BitsFinite
  <2>2. \A k \in Bits(n) : f[k] = d[k] * (IF k = l THEN c ELSE 0)
    <3>1. \A k \in Bits(n) : Product(n, Lefts(n, n, k, l)) = IF k = l THEN c ELSE 0
      BY <1>7, LeftsDone
    <3> QED
      BY <2>1, <3>1, SharesAre
  <2> HIDE DEF f
  <2>3. \A k \in Bits(n) : k # l => f[k] = 0
    BY <2>2
  <2>4. f[l] = c * d[l] /\ f[l] \in Int
    <3>1. PICK x \in Int : x = d[l]
      OBVIOUS
    <3>2. f[l] = x * c
      BY <2>2, <3>1
    <3> QED
      BY <3>1, <3>2
  <2>5. SumFunctionOnSet(f, Bits(n)) = f[l]
    BY <2>1, <2>3, <2>4, SumSingle
  <2> QED
    BY <2>4, <2>5 DEF Partly, f
<1> QED
  BY <1>1, <1>6, <1>7, <1>8 DEF Has

-----------------------------------------------------------------------------
(* What one misreading more does to the mitigation                         *)

\* A product grows with its factor, and a positive factor can be taken away.
LEMMA Factored ==
  ASSUME NEW a \in Int, NEW b \in Int, NEW m \in Nat
  PROVE  /\ a <= b => a * m <= b * m
         /\ m > 0 /\ a * m <= b * m => a <= b
<1>1. ASSUME a <= b PROVE a * m <= b * m
  <2>1. PICK z \in Nat : b = a + z
    <3>1. b - a \in Nat /\ b = a + (b - a)
      BY <1>1
    <3> QED
      BY <3>1
  <2>2. z * m \in Nat /\ a * m \in Int
    OBVIOUS
  <2>3. (a + z) * m = a * m + z * m
    OBVIOUS
  <2> QED
    BY <2>1, <2>2, <2>3
<1>2. ASSUME m > 0, a * m <= b * m, ~(a <= b) PROVE FALSE
  <2>1. PICK z \in Nat : a = b + z /\ z > 0
    <3>1. a - b \in Nat /\ a = b + (a - b) /\ a - b > 0
      BY <1>2
    <3> QED
      BY <3>1
  <2>2. z * m \in Nat /\ z * m > 0 /\ b * m \in Int
    BY <1>2, <2>1
  <2>3. (b + z) * m = b * m + z * m
    OBVIOUS
  <2> QED
    BY <1>2, <2>1, <2>2, <2>3
<1> QED
  BY <1>1, <1>2

\* What is rounded is off by no more than a half.
LEMMA RoundIs ==
  ASSUME NEW x \in Nat, NEW y \in Nat \ {0}
  PROVE  /\ Round(x, y) \in Nat
         /\ 2 * (Round(x, y) * y) <= 2 * x + y
         /\ 2 * x <= 2 * (Round(x, y) * y) + y
<1>1. PICK q \in Nat, m \in Nat : q = x \div y /\ m = x % y /\ x = (q * y) + m /\ m < y
  <2>1. x \div y \in Nat
    BY Divided
  <2>2. x % y \in Nat /\ x % y < y /\ x = (y * (x \div y)) + (x % y)
    OBVIOUS
  <2>3. \A z \in Nat : y * z = z * y
    OBVIOUS
  <2> QED
    BY <2>1, <2>2, <2>3
<1>2. PICK qy \in Nat : qy = q * y
  OBVIOUS
<1>3. (q + 1) * y = qy + y
  BY <1>2
<1>4. \/ Round(x, y) = q + 1 /\ 2 * m >= y
      \/ Round(x, y) = q /\ 2 * m <= y
  BY <1>1 DEF Round
<1>5. CASE Round(x, y) = q + 1 /\ 2 * m >= y
  BY <1>1, <1>2, <1>3, <1>5
<1>6. CASE Round(x, y) = q /\ 2 * m <= y
  BY <1>1, <1>2, <1>6
<1> QED
  BY <1>4, <1>5, <1>6

\* A multiple is not rounded.
LEMMA RoundExact ==
  ASSUME NEW m \in Nat, NEW x \in Nat, NEW y \in Nat \ {0}, x = m * y
  PROVE  Round(x, y) = m
<1>1. PICK r \in Nat : r = Round(x, y) /\ 2 * (r * y) <= 2 * x + y /\ 2 * x <= 2 * (r * y) + y
  BY RoundIs
<1>2. ASSUME r > m PROVE FALSE
  <2>1. (m + 1) * y <= r * y
    <3>1. m + 1 <= r /\ m + 1 \in Int
      BY <1>2
    <3> QED
      BY <3>1, Factored
  <2>2. (m + 1) * y = x + y
    OBVIOUS
  <2>3. r * y \in Nat
    OBVIOUS
  <2> QED
    BY <1>1, <2>1, <2>2, <2>3
<1>3. ASSUME r < m PROVE FALSE
  <2>1. (r + 1) * y <= m * y
    <3>1. r + 1 <= m /\ r + 1 \in Int
      BY <1>3
    <3> QED
      BY <3>1, Factored
  <2>2. (r + 1) * y = r * y + y /\ r * y \in Nat
    OBVIOUS
  <2> QED
    BY <1>1, <2>1, <2>2
<1>4. r = m
  BY <1>2, <1>3
<1> QED
  BY <1>1, <1>4

\* What is above zero in a tensor, and what is below.
Above(t) == [k \in DOMAIN t |-> IF t[k] > 0 THEN t[k] ELSE 0]
Below(t) == [k \in DOMAIN t |-> IF t[k] < 0 THEN -t[k] ELSE 0]

\* A tensor that sums up to zero has as much below it as above, half its size.
LEMMA HalvesAre ==
  ASSUME NEW n \in Nat, NEW t \in [Bits(n) -> Int], NEW half \in Nat,
         SumFunctionOnSet(t, Bits(n)) = 0, Size(t) <= 2 * half
  PROVE  /\ \A k \in Bits(n) : /\ Above(t)[k] \in Nat /\ Above(t)[k] <= half
                               /\ Below(t)[k] \in Nat /\ Below(t)[k] <= half
                               /\ t[k] = Above(t)[k] - Below(t)[k]
         /\ SumFunctionOnSet(Below(t), Bits(n)) \in Nat
         /\ SumFunctionOnSet(Below(t), Bits(n)) <= half
<1> DEFINE up == Above(t)
           down == Below(t)
           all == [k \in Bits(n) |-> Abs(t[k])]
<1>1. IsFiniteSet(Bits(n))
  BY BitsFinite
<1>2. \A k \in Bits(n) : /\ up[k] \in Nat /\ down[k] \in Nat /\ t[k] \in Int
                         /\ up[k] = t[k] + down[k]
                         /\ all[k] = up[k] + down[k] /\ all[k] = Abs(t[k])
  BY DEF Above, Below, Abs
<1> HIDE DEF up, down, all
<1>3. Summable(up, Bits(n)) /\ Summable(down, Bits(n)) /\ Summable(t, Bits(n))
  BY <1>1, <1>2 DEF Summable
<1>4. SumFunctionOnSet(up, Bits(n)) = SumFunctionOnSet(t, Bits(n)) + SumFunctionOnSet(down, Bits(n))
  BY <1>2, <1>3, SumPlus
<1>5. SumFunctionOnSet(all, Bits(n)) = SumFunctionOnSet(up, Bits(n)) + SumFunctionOnSet(down, Bits(n))
  BY <1>2, <1>3, SumPlus
<1>6. Size(t) = SumFunctionOnSet(all, Bits(n))
  BY <1>2, SizeIs
<1>7. SumFunctionOnSet(up, Bits(n)) \in Nat /\ SumFunctionOnSet(down, Bits(n)) \in Nat
  BY <1>1, <1>2, SumOfNaturals
<1>8. SumFunctionOnSet(up, Bits(n)) <= half /\ SumFunctionOnSet(down, Bits(n)) <= half
  BY <1>4, <1>5, <1>6, <1>7
<1>9. \A k \in Bits(n) : up[k] <= half /\ down[k] <= half
  <2>1. \A k \in Bits(n) : up[k] <= SumFunctionOnSet(up, Bits(n))
    BY <1>1, <1>2, TermBounded
  <2>2. \A k \in Bits(n) : down[k] <= SumFunctionOnSet(down, Bits(n))
    BY <1>1, <1>2, TermBounded
  <2> QED
    BY <1>2, <1>7, <1>8, <2>1, <2>2
<1> QED
  BY <1>2, <1>7, <1>8, <1>9 DEF up, down

\* A corrected histogram: c times the counts of d, and a disturbance x that
\* sums up to zero.  What is below zero is clipped.
Disturbed(n, shots, d, half, c, x, clipped) ==
  /\ d \in Draws(n, shots)
  /\ half \in Nat /\ c \in Nat /\ half <= c
  /\ x \in [Bits(n) -> Int] /\ SumFunctionOnSet(x, Bits(n)) = 0 /\ Size(x) <= 2 * half
  /\ \A k \in Bits(n) :
       clipped[k] = IF c * d[k] + x[k] > 0 THEN c * d[k] + x[k] ELSE 0

\* Clipping adds no more than half the disturbance, all of it where there was
\* no count.
LEMMA ClippedIs ==
  ASSUME NEW n \in Nat, NEW shots \in Nat, NEW d, NEW half, NEW c, NEW x, NEW clipped,
         Disturbed(n, shots, d, half, c, x, clipped)
  PROVE  \E neg \in [Bits(n) -> Nat] :
           /\ \A k \in Bits(n) : clipped[k] = (c * d[k] + x[k]) + neg[k]
           /\ \A k \in Bits(n) : neg[k] <= Below(x)[k]
           /\ \A k \in Bits(n) : d[k] > 0 => neg[k] = 0
           /\ \A k \in Bits(n) : clipped[k] \in Nat
           /\ SumFunctionOnSet(neg, Bits(n)) \in Nat
           /\ SumFunctionOnSet(clipped, Bits(n)) = c * shots + SumFunctionOnSet(neg, Bits(n))
<1>1. /\ half \in Nat /\ c \in Nat /\ half <= c
      /\ x \in [Bits(n) -> Int] /\ SumFunctionOnSet(x, Bits(n)) = 0 /\ Size(x) <= 2 * half
      /\ \A k \in Bits(n) :
           clipped[k] = IF c * d[k] + x[k] > 0 THEN c * d[k] + x[k] ELSE 0
      /\ d \in Draws(n, shots)
  BY DEF Disturbed
<1>2. /\ IsFiniteSet(Bits(n)) /\ Summable(d, Bits(n)) /\ \A k \in Bits(n) : d[k] \in Nat
      /\ SumFunctionOnSet(d, Bits(n)) = shots
  BY <1>1, DrawsAre
<1>3. \A k \in Bits(n) : /\ Above(x)[k] \in Nat /\ Above(x)[k] <= half
                         /\ Below(x)[k] \in Nat /\ Below(x)[k] <= half
                         /\ x[k] = Above(x)[k] - Below(x)[k]
  BY <1>1, HalvesAre
<1> DEFINE mean == [k \in Bits(n) |-> c * d[k] + x[k]]
           neg == [k \in Bits(n) |-> IF mean[k] < 0 THEN -mean[k] ELSE 0]
<1>4. \A k \in Bits(n) : c * d[k] \in Nat /\ (d[k] > 0 => c <= c * d[k])
  <2> TAKE k \in Bits(n)
  <2>1. PICK m \in Nat : m = d[k]
    BY <1>2
  <2>2. c * m \in Nat
    BY <1>1
  <2>3. m > 0 => c <= c * m
    <3>1. PICK one \in Nat : one = 1
      OBVIOUS
    <3>2. m > 0 => one * c <= m * c
      BY <1>1, <3>1, Factored
    <3>3. one * c = c /\ m * c = c * m
      BY <1>1, <3>1
    <3> QED
      BY <3>2, <3>3
  <2> QED
    BY <2>1, <2>2, <2>3
<1>5. \A k \in Bits(n) : mean[k] = c * d[k] + x[k] /\ mean[k] \in Int
  BY <1>1, <1>4
<1>6. \A k \in Bits(n) : neg[k] = IF mean[k] < 0 THEN -mean[k] ELSE 0
  OBVIOUS
<1> HIDE DEF mean
<1>7. neg \in [Bits(n) -> Nat]
  BY <1>5
<1> HIDE DEF neg
<1>8. \A k \in Bits(n) : clipped[k] = mean[k] + neg[k] /\ clipped[k] \in Nat
  BY <1>1, <1>5, <1>6
<1>9. \A k \in Bits(n) : neg[k] <= Below(x)[k] /\ (d[k] > 0 => neg[k] = 0)
  BY <1>1, <1>3, <1>4, <1>5, <1>6
<1>10. Summable(mean, Bits(n)) /\ Summable(neg, Bits(n)) /\ Summable(x, Bits(n))
  BY <1>1, <1>2, <1>5, <1>7 DEF Summable
<1>11. SumFunctionOnSet(clipped, Bits(n)) =
         SumFunctionOnSet(mean, Bits(n)) + SumFunctionOnSet(neg, Bits(n))
  BY <1>8, <1>10, SumPlus
<1>12. SumFunctionOnSet(mean, Bits(n)) = c * shots
  <2>1. PICK one \in Int : one = 1
    OBVIOUS
  <2>2. \A k \in Bits(n) : mean[k] = c * d[k] + one * x[k]
    BY <1>1, <1>5, <2>1
  <2>3. PICK z \in Int : z = c
    BY <1>1
  <2>4. \A k \in Bits(n) : mean[k] = z * d[k] + one * x[k]
    BY <2>2, <2>3
  <2>5. SumFunctionOnSet(mean, Bits(n)) =
          z * SumFunctionOnSet(d, Bits(n)) + one * SumFunctionOnSet(x, Bits(n))
    <3>1. Summable(d, Bits(n)) /\ Summable(x, Bits(n))
      BY <1>2, <1>10
    <3> QED
      BY <2>4, <3>1, SumLinear
  <2>6. one * 0 = 0 /\ z * shots \in Int
    BY <2>1
  <2> QED
    BY <1>1, <1>2, <2>3, <2>5, <2>6
<1>13. SumFunctionOnSet(neg, Bits(n)) \in Nat
  BY <1>2, <1>7, SumOfNaturals
<1> QED
  BY <1>5, <1>7, <1>8, <1>9, <1>11, <1>12, <1>13

\* Normalised, no entry of a clipped histogram is further from its count than
\* half the disturbance.
LEMMA ShareIs ==
  ASSUME NEW n \in Nat, NEW shots \in Nat, NEW d, NEW half, NEW c, NEW x, NEW clipped,
         Disturbed(n, shots, d, half, c, x, clipped), NEW k \in Bits(n)
  PROVE  LET all == SumFunctionOnSet(clipped, Bits(n))
         IN /\ clipped[k] * shots - d[k] * all <= half * shots
            /\ d[k] * all - clipped[k] * shots <= half * shots
<1>1. PICK neg \in [Bits(n) -> Nat] :
        /\ \A l \in Bits(n) : clipped[l] = (c * d[l] + x[l]) + neg[l]
        /\ \A l \in Bits(n) : neg[l] <= Below(x)[l]
        /\ \A l \in Bits(n) : d[l] > 0 => neg[l] = 0
        /\ \A l \in Bits(n) : clipped[l] \in Nat
        /\ SumFunctionOnSet(neg, Bits(n)) \in Nat
        /\ SumFunctionOnSet(clipped, Bits(n)) = c * shots + SumFunctionOnSet(neg, Bits(n))
  BY ClippedIs
<1>2. /\ half \in Nat /\ c \in Nat
      /\ x \in [Bits(n) -> Int] /\ SumFunctionOnSet(x, Bits(n)) = 0 /\ Size(x) <= 2 * half
      /\ d \in Draws(n, shots)
  BY DEF Disturbed
<1>3. /\ IsFiniteSet(Bits(n)) /\ \A l \in Bits(n) : d[l] \in Nat
      /\ SumFunctionOnSet(d, Bits(n)) = shots
  BY <1>2, DrawsAre
<1>4. /\ \A l \in Bits(n) : /\ Above(x)[l] \in Nat /\ Above(x)[l] <= half
                            /\ Below(x)[l] \in Nat /\ Below(x)[l] <= half
                            /\ x[l] = Above(x)[l] - Below(x)[l]
      /\ SumFunctionOnSet(Below(x), Bits(n)) \in Nat
      /\ SumFunctionOnSet(Below(x), Bits(n)) <= half
  BY <1>2, HalvesAre
<1>5. \A l \in Bits(n) : Below(x)[l] > 0 => x[l] = -Below(x)[l]
  BY <1>2 DEF Below
<1>6. PICK D \in Nat, X \in Int, N \in Nat, g \in Nat, b \in Nat, cd \in Nat :
        /\ D = d[k] /\ X = x[k] /\ N = SumFunctionOnSet(neg, Bits(n)) /\ g = neg[k]
        /\ b = Below(x)[k] /\ cd = c * d[k]
  <2>1. c * d[k] \in Nat
    BY <1>2, <1>3
  <2> QED
    BY <1>1, <1>2, <1>3, <1>4, <2>1
<1>7. /\ clipped[k] = (cd + X) + g
      /\ SumFunctionOnSet(clipped, Bits(n)) = c * shots + N
  BY <1>1, <1>6
<1>8. X <= half /\ -half <= X /\ g <= b /\ b <= half /\ (D > 0 => g = 0) /\ (b > 0 => X = -b)
      /\ -b <= X
  <2>1. PICK a \in Nat : a = Above(x)[k] /\ a <= half /\ X = a - b /\ b <= half
    BY <1>4, <1>6
  <2>2. g <= b /\ (D > 0 => g = 0) /\ (b > 0 => X = -b)
    BY <1>1, <1>5, <1>6
  <2> QED
    BY <1>2, <2>1, <2>2
<1>9. N <= half /\ (D > 0 => N + b <= half)
  <2>1. \A l \in Bits(n) : neg[l] \in Nat /\ Below(x)[l] \in Nat
    BY <1>1, <1>4
  <2>2. Summable(neg, Bits(n)) /\ Summable(Below(x), Bits(n))
    BY <1>3, <2>1 DEF Summable
  <2>3. N <= SumFunctionOnSet(Below(x), Bits(n))
    BY <1>1, <1>6, <2>2, SumMonotone
  <2>4. ASSUME D > 0
        PROVE  N + b <= half
    <3> DEFINE f == Below(x)
               rest == Bits(n) \ {k}
    <3>1. /\ SumFunctionOnSet(neg, Bits(n)) = neg[k] + SumFunctionOnSet(neg, rest)
          /\ SumFunctionOnSet(f, Bits(n)) = f[k] + SumFunctionOnSet(f, rest)
      <4>1. \A l \in Bits(n) : neg[l] \in Int /\ f[l] \in Int
        BY <2>1
      <4> HIDE DEF f
      <4> QED
        BY <1>3, <4>1, SumRemove
    <3>2. IsFiniteSet(rest)
      BY <1>3, FS_Subset
    <3>3. \A l \in rest : neg[l] \in Nat /\ f[l] \in Nat /\ neg[l] <= f[l]
      BY <1>1, <2>1
    <3> HIDE DEF f, rest
    <3>4. Summable(neg, rest) /\ Summable(f, rest)
      BY <3>2, <3>3 DEF Summable
    <3>5. SumFunctionOnSet(neg, rest) <= SumFunctionOnSet(f, rest)
      BY <3>3, <3>4, SumMonotone
    <3>6. SumFunctionOnSet(neg, rest) \in Int /\ SumFunctionOnSet(f, rest) \in Int
      BY <3>2, <3>3, SumType
    <3>7. neg[k] = 0
      BY <1>6, <1>8, <2>4
    <3>8. f[k] = b /\ SumFunctionOnSet(f, Bits(n)) <= half
      BY <1>4, <1>6 DEF f
    <3>9. N = SumFunctionOnSet(neg, rest)
      BY <1>6, <3>1, <3>6, <3>7
    <3>10. SumFunctionOnSet(f, Bits(n)) = b + SumFunctionOnSet(f, rest)
      BY <3>1, <3>8
    <3> QED
      BY <1>2, <3>5, <3>6, <3>8, <3>9, <3>10
  <2> QED
    BY <1>2, <1>4, <2>3, <2>4
<1>10. D <= shots
  BY <1>3, <1>6, TermBounded
<1>11. PICK u \in Int : u = X + g
  OBVIOUS
<1>12. PICK all \in Nat : all = c * shots + N
  BY <1>2
\* the deviation, with the part that is in proportion cancelled
<1>13. clipped[k] * shots - D * all = u * shots - D * N
  <2>1. clipped[k] = cd + u
    BY <1>7, <1>11
  <2>2. (cd + u) * shots = cd * shots + u * shots
    OBVIOUS
  <2>3. D * (c * shots + N) = D * (c * shots) + D * N
    BY <1>2
  <2>4. cd * shots = D * (c * shots)
    <3>1. cd = c * D
      BY <1>6
    <3>2. (c * D) * shots = D * (c * shots)
      BY <1>2
    <3> QED
      BY <3>1, <3>2
  <2>5. cd * shots \in Int /\ u * shots \in Int /\ D * N \in Int
    OBVIOUS
  <2> QED
    BY <1>12, <2>1, <2>2, <2>3, <2>4, <2>5
<1>14. /\ u * shots - D * N <= half * shots
       /\ D * N - u * shots <= half * shots
  <2>1. D * N \in Nat /\ u * shots \in Int /\ half * shots \in Nat /\ N * shots \in Nat
    BY <1>2
  <2>2. D * N <= N * shots
    <3>1. D * N <= shots * N
      BY <1>10, Factored
    <3> QED
      BY <3>1
  <2>3. u * shots <= half * shots
    <3>1. u <= half
      BY <1>2, <1>8, <1>11
    <3> QED
      BY <1>2, <3>1, Factored
  <2>4. CASE D > 0
    <3>1. N - u <= half
      BY <1>2, <1>6, <1>8, <1>9, <1>11, <2>4
    <3>2. (N - u) * shots <= half * shots
      BY <1>2, <3>1, Factored
    <3>3. (N - u) * shots = N * shots - u * shots
      OBVIOUS
    <3> QED
      BY <2>1, <2>2, <2>3, <3>2, <3>3
  <2>5. CASE D = 0
    <3>1. u >= 0
      <4>1. cd = 0
        BY <1>2, <1>6, <2>5
      <4>2. (cd + X) + g \in Nat
        BY <1>1, <1>7
      <4> QED
        BY <1>11, <4>1, <4>2
    <3>2. u * shots \in Nat /\ D * N = 0
      BY <2>5, <3>1
    <3> QED
      BY <2>1, <2>3, <3>2
  <2> QED
    BY <2>4, <2>5
<1>15. SumFunctionOnSet(clipped, Bits(n)) = all /\ d[k] = D
  BY <1>6, <1>7, <1>12
<1>16. clipped[k] * shots \in Int /\ D * all \in Int /\ half * shots \in Int
  BY <1>1, <1>2
<1> QED
  BY <1>2, <1>13, <1>14, <1>15, <1>16

\* A function with two values that are not zero sums up to these.
LEMMA SumOfTwo ==
  ASSUME NEW f, NEW S, IsFiniteSet(S), \A k \in S : f[k] \in Int,
         NEW i \in S, NEW j \in S, i # j, \A k \in S : k # i /\ k # j => f[k] = 0
  PROVE  SumFunctionOnSet(f, S) = f[i] + f[j]
<1> DEFINE rest == S \ {i}
<1>1. SumFunctionOnSet(f, S) = f[i] + SumFunctionOnSet(f, rest)
  BY SumRemove
<1>2. IsFiniteSet(rest) /\ j \in rest /\ f[j] \in Int /\ \A k \in rest : k # j => f[k] = 0
  BY FS_Subset
<1> HIDE DEF rest
<1>3. SumFunctionOnSet(f, rest) = f[j]
  BY <1>2, SumSingle
<1> QED
  BY <1>1, <1>3

\* read differs from mean by a disturbance v of h misreadings.
Differs(n, mean, read, v, h) ==
  /\ v \in [Bits(n) -> Int] /\ h \in {0, 1}
  /\ \A k \in Bits(n) : read[k] = mean[k] + v[k]
  /\ SumFunctionOnSet(v, Bits(n)) = 0 /\ Size(v) <= 2 * h

\* A reading is the mean, or moves one count from one key to another.
LEMMA ReadingIs ==
  ASSUME NEW n \in Nat, n > 0, NEW d \in [Bits(n) -> Int], NEW read \in Readings(n, d)
  PROVE  /\ read \in [Bits(n) -> Int]
         /\ \E v, h : /\ Differs(n, Expected(n, d), read, v, h)
                      /\ h = 0 <=> read = Expected(n, d)
<1> DEFINE mean == Expected(n, d)
<1>1. mean \in [Bits(n) -> Int] /\ DOMAIN d = Bits(n) /\ IsFiniteSet(Bits(n))
  BY ExpectedIs, BitsFinite
<1>2. \/ read = mean
      \/ \E k \in Bits(n) : read = [mean EXCEPT ![k] = @ - 1, ![Flip(k, 1)] = @ + 1]
  BY <1>1 DEF Readings
<1> HIDE DEF mean
<1>3. CASE read = mean
  <2> DEFINE v == [k \in Bits(n) |-> 0]
  <2>1. v \in [Bits(n) -> Int] /\ DOMAIN v = Bits(n) /\ \A k \in Bits(n) : v[k] = 0 /\ Abs(v[k]) = 0
    BY DEF Abs
  <2> DEFINE w == [k \in Bits(n) |-> Abs(v[k])]
  <2>2. DOMAIN w = Bits(n) /\ \A k \in Bits(n) : w[k] = 0 /\ w[k] = Abs(v[k])
    BY <2>1
  <2> HIDE DEF v, w
  <2>3. SumFunctionOnSet(v, Bits(n)) = 0
    BY <1>1, <2>1, SumNothing, SumOfDomain
  <2>4. SumFunctionOnSet(w, Bits(n)) = 0
    BY <1>1, <2>2, SumNothing, SumOfDomain
  <2>5. Size(v) = SumFunctionOnSet(w, Bits(n))
    BY <2>1, <2>2, SizeIs
  <2>6. PICK h \in Nat : h = 0
    OBVIOUS
  <2>7. Differs(n, mean, read, v, h)
    <3>1. \A k \in Bits(n) : read[k] = mean[k] + v[k]
      BY <1>1, <1>3, <2>1
    <3>2. Size(v) <= 2 * h
      BY <2>4, <2>5, <2>6
    <3> QED
      BY <2>1, <2>3, <2>6, <3>1, <3>2 DEF Differs
  <2> QED
    BY <1>1, <1>3, <2>6, <2>7 DEF mean
<1>4. ASSUME NEW k \in Bits(n), read = [mean EXCEPT ![k] = @ - 1, ![Flip(k, 1)] = @ + 1]
      PROVE  /\ read \in [Bits(n) -> Int]
             /\ \E v, h : Differs(n, mean, read, v, h) /\ (h = 0 <=> read = mean)
  <2>1. PICK l \in Bits(n) : l = Flip(k, 1) /\ l # k
    <3>1. 1 \in 1..n
      OBVIOUS
    <3> QED
      BY <3>1, FlipIs
  <2>2. read = [mean EXCEPT ![k] = @ - 1, ![l] = @ + 1]
    BY <1>4, <2>1
  <2>3. /\ read \in [Bits(n) -> Int] /\ read[k] = mean[k] - 1 /\ read[l] = mean[l] + 1
        /\ \A m \in Bits(n) : m # k /\ m # l => read[m] = mean[m]
    BY <1>1, <2>1, <2>2
  <2> DEFINE v == [m \in Bits(n) |-> IF m = k THEN -1 ELSE IF m = l THEN 1 ELSE 0]
  <2>4. /\ v \in [Bits(n) -> Int] /\ v[k] = -1 /\ v[l] = 1
        /\ \A m \in Bits(n) : v[m] \in Int /\ (m # k /\ m # l => v[m] = 0)
    BY <2>1
  <2> DEFINE w == [m \in Bits(n) |-> Abs(v[m])]
  <2>5. /\ w[k] = 1 /\ w[l] = 1
        /\ \A m \in Bits(n) : w[m] = Abs(v[m]) /\ w[m] \in Int /\ (m # k /\ m # l => w[m] = 0)
    <3>1. \A m \in Bits(n) : w[m] = Abs(v[m])
      OBVIOUS
    <3> HIDE DEF v, w
    <3> QED
      BY <2>4, <3>1 DEF Abs
  <2> HIDE DEF v, w
  <2>6. SumFunctionOnSet(v, Bits(n)) = v[k] + v[l]
    BY <1>1, <2>1, <2>4, SumOfTwo
  <2>7. SumFunctionOnSet(w, Bits(n)) = w[k] + w[l]
    BY <1>1, <2>1, <2>5, SumOfTwo
  <2>8. Size(v) = SumFunctionOnSet(w, Bits(n))
    BY <2>4, <2>5, SizeIs
  <2>9. PICK h \in Nat : h = 1
    OBVIOUS
  <2>10. Differs(n, mean, read, v, h)
    <3>1. \A m \in Bits(n) : read[m] = mean[m] + v[m]
      BY <1>1, <2>3, <2>4
    <3>2. Size(v) <= 2 * h
      BY <2>5, <2>7, <2>8, <2>9
    <3>3. SumFunctionOnSet(v, Bits(n)) = 0
      BY <2>4, <2>6
    <3> QED
      BY <2>4, <2>9, <3>1, <3>2, <3>3 DEF Differs
  <2>11. read # mean
    <3>1. mean[k] \in Int
      BY <1>1
    <3> QED
      BY <2>3, <3>1
  <2> QED
    BY <2>3, <2>9, <2>10, <2>11
<1> QED
  BY <1>2, <1>3, <1>4 DEF mean

\* Reading loses no shot: there are Power(Reads, n) for each that was drawn.
LEMMA TotalRead ==
  ASSUME NEW n \in Nat, NEW shots \in Nat, NEW d \in Draws(n, shots)
  PROVE  SumFunctionOnSet(Expected(n, d), Bits(n)) = Power(Reads, n) * shots
<1> DEFINE e == Expected(n, d)
           corrected == Corrected(n, e)
<1>1. d \in [Bits(n) -> Int] /\ Summable(d, Bits(n)) /\ SumFunctionOnSet(d, Bits(n)) = shots
  BY DrawsAre DEF Draws
<1>2. e \in [Bits(n) -> Int] /\ IsFiniteSet(Bits(n))
  BY <1>1, ExpectedIs, BitsFinite
<1>3. PICK p \in Nat, g \in Nat : /\ p = Power(Reads, n) /\ g = Power(Reads - 2 * Misread, n)
                                  /\ g > 0
  BY ReadoutIs, PowerPositive
<1>4. PICK c \in Int : c = Power(Reads * (Reads - 2 * Misread), n) /\ c = p * g
  <2>1. Reads \in Int /\ Reads - 2 * Misread \in Int
    BY ReadoutIs
  <2>2. Power(Reads * (Reads - 2 * Misread), n) = p * g
    BY <1>3, <2>1, PowerTimes
  <2>3. p * g \in Int
    OBVIOUS
  <2> QED
    BY <2>2, <2>3
<1>5. \A k \in Bits(n) : corrected[k] = c * d[k]
  BY <1>1, <1>4, CorrectedExact
<1>6. SumFunctionOnSet(corrected, Bits(n)) = g * SumFunctionOnSet(e, Bits(n))
  BY <1>2, <1>3, CorrectedIs
<1> HIDE DEF corrected, e
<1>7. SumFunctionOnSet(corrected, Bits(n)) = c * SumFunctionOnSet(d, Bits(n))
  BY <1>1, <1>5, SumScale
<1>8. PICK s \in Int : s = SumFunctionOnSet(e, Bits(n))
  <2>1. \A k \in Bits(n) : e[k] \in Int
    BY <1>2
  <2> QED
    BY <1>2, <2>1, SumType
<1>9. g * s = (p * g) * shots
  BY <1>1, <1>4, <1>6, <1>7, <1>8
<1>10. s = p * shots
  <2>1. PICK z \in Nat : z = p * shots
    OBVIOUS
  <2>2. (p * g) * shots = z * g /\ g * s = s * g
    BY <2>1
  <2>3. s * g = z * g
    BY <1>9, <2>2
  <2>4. s * g <= z * g /\ z * g <= s * g
    <3>1. s * g \in Int
      OBVIOUS
    <3> QED
      BY <2>3, <3>1
  <2>5. s <= z /\ z <= s
    BY <1>3, <2>4, Factored
  <2> QED
    BY <2>1, <2>5
<1> QED
  BY <1>3, <1>8, <1>10 DEF e

\* The corrected counts are those that were drawn, c times, and the correction
\* of what the reading differs from its mean by.
LEMMA CorrectionIs ==
  ASSUME NEW n \in Nat, n > 0, NEW shots \in Nat, NEW d \in Draws(n, shots),
         NEW read \in Readings(n, d), NEW v, NEW h,
         Differs(n, Expected(n, d), read, v, h),
         NEW half, half = Power(Reads, n) * h,
         NEW c, c = Power(Reads, n) * Power(Reads - 2 * Misread, n),
         NEW clipped,
         \A k \in Bits(n) : clipped[k] = Max({0, Corrected(n, read)[k]})
  PROVE  Disturbed(n, shots, d, half, c, Corrected(n, v), clipped)
<1> DEFINE e == Expected(n, d)
           x == Corrected(n, v)
           y == Corrected(n, read)
           z == Corrected(n, e)
<1>1. d \in [Bits(n) -> Int] /\ \A k \in Bits(n) : d[k] \in Nat
  BY DrawsAre DEF Draws
<1>2. /\ e \in [Bits(n) -> Int] /\ read \in [Bits(n) -> Int]
  BY <1>1, ExpectedIs, ReadingIs
<1>3. /\ v \in [Bits(n) -> Int] /\ h \in {0, 1} /\ \A k \in Bits(n) : read[k] = e[k] + v[k]
      /\ SumFunctionOnSet(v, Bits(n)) = 0 /\ Size(v) <= 2 * h
  BY DEF Differs
<1>4. PICK p \in Nat, g \in Nat : /\ p = Power(Reads, n) /\ g = Power(Reads - 2 * Misread, n)
                                  /\ p > 0 /\ g > 0
  BY ReadoutIs, PowerPositive
<1>5. half = p * h /\ half \in Nat /\ half <= p
  <2>1. half = p * h
    BY <1>4
  <2>2. p * h \in Nat /\ p * h <= p
    BY <1>3
  <2> QED
    BY <2>1, <2>2
<1>6. c = p * g /\ c \in Nat /\ p <= c
  <2>1. c = p * g
    BY <1>4
  <2>2. PICK one \in Nat : one = 1 /\ one <= g
    BY <1>4
  <2>3. one * p <= g * p
    BY <2>2, Factored
  <2>4. one * p = p /\ g * p = p * g /\ p * g \in Nat
    BY <2>2
  <2> QED
    BY <2>1, <2>3, <2>4
<1>7. c = Power(Reads * (Reads - 2 * Misread), n)
  <2>1. Reads \in Int /\ Reads - 2 * Misread \in Int
    BY ReadoutIs
  <2> QED
    BY <2>1, PowerTimes
<1>8. \A k \in Bits(n) : z[k] = c * d[k]
  BY <1>1, <1>7, CorrectedExact
<1>9. /\ x \in [Bits(n) -> Int]
      /\ SumFunctionOnSet(x, Bits(n)) = g * SumFunctionOnSet(v, Bits(n))
      /\ Size(x) <= p * Size(v)
  BY <1>3, <1>4, CorrectedIs
<1>10. \A k \in Bits(n) : y[k] = z[k] + x[k]
  BY <1>2, <1>3, CorrectedPlus
<1> HIDE DEF e, x, y, z
<1>11. SumFunctionOnSet(x, Bits(n)) = 0
  BY <1>3, <1>9
<1>12. Size(x) <= 2 * half
  <2>1. PICK s \in Nat : s = Size(v)
    BY <1>3, SizeIs
  <2>2. PICK t \in Nat : t = Size(x)
    BY <1>9, SizeIs
  <2>3. s * p <= (2 * h) * p
    BY <1>3, <2>1, Factored
  <2>4. s * p = p * s /\ (2 * h) * p = 2 * (p * h)
    BY <1>3
  <2> QED
    BY <1>5, <1>9, <2>1, <2>2, <2>3, <2>4
<1>13. \A k \in Bits(n) :
         clipped[k] = IF c * d[k] + x[k] > 0 THEN c * d[k] + x[k] ELSE 0
  <2> TAKE k \in Bits(n)
  <2>1. PICK m \in Int : m = c * d[k] + x[k]
    <3>1. c * d[k] \in Int
      BY <1>1, <1>6
    <3> QED
      BY <1>9, <3>1
  <2>2. y[k] = m
    BY <1>8, <1>10, <2>1
  <2>3. PICK o \in Int : o = 0
    OBVIOUS
  <2>4. Max({o, m}) = IF o >= m THEN o ELSE m
    BY SmallerAndLarger
  <2>5. clipped[k] = Max({o, m})
    BY <2>2, <2>3 DEF y
  <2> QED
    BY <2>1, <2>3, <2>4, <2>5
<1>14. half <= c
  BY <1>4, <1>5, <1>6
<1> QED
  BY <1>5, <1>6, <1>9, <1>11, <1>12, <1>13, <1>14 DEF Disturbed, x

\* A count that is off by off is off by no more than the disturbance and the
\* rounding of the share give.
LEMMA OffBy ==
  ASSUME NEW off \in Int, NEW all \in Nat, all > 0, NEW p \in Nat, NEW g \in Nat,
         NEW shots \in Nat, NEW w \in Int,
         2 * (off * all) <= all + 2 * (p * w), w <= p * shots, (p * g) * shots <= all
  PROVE  (2 * off - 1) * g <= 2 * p
<1>1. PICK o \in Int : o = 2 * off - 1
  OBVIOUS
<1>2. o * all <= 2 * (p * w)
  <2>1. PICK z \in Int : z = off * all
    OBVIOUS
  <2>2. (2 * off - 1) * all = 2 * z - all
    BY <2>1
  <2>3. p * w \in Int
    OBVIOUS
  <2> QED
    BY <1>1, <2>1, <2>2, <2>3
<1>3. w * g <= all
  <2>1. w * g <= (p * shots) * g
    <3>1. p * shots \in Int
      OBVIOUS
    <3> QED
      BY <3>1, Factored
  <2>2. (p * shots) * g = (p * g) * shots
    OBVIOUS
  <2>3. w * g \in Int /\ (p * shots) * g \in Int
    OBVIOUS
  <2> QED
    BY <2>1, <2>2, <2>3
<1>4. (w * g) * (2 * p) <= all * (2 * p)
  <2>1. w * g \in Int /\ 2 * p \in Nat
    OBVIOUS
  <2> QED
    BY <1>3, <2>1, Factored
<1>5. (o * all) * g <= (2 * (p * w)) * g
  <2>1. o * all \in Int /\ 2 * (p * w) \in Int
    OBVIOUS
  <2> QED
    BY <1>2, <2>1, Factored
<1>6. /\ (o * all) * g = (o * g) * all
      /\ (2 * (p * w)) * g = (w * g) * (2 * p)
      /\ all * (2 * p) = (2 * p) * all
  OBVIOUS
<1>7. (o * g) * all <= (2 * p) * all
  <2>1. (o * g) * all \in Int /\ (w * g) * (2 * p) \in Int /\ (2 * p) * all \in Int
    OBVIOUS
  <2> QED
    BY <1>4, <1>5, <1>6, <2>1
<1>8. o * g <= 2 * p
  <2>1. o * g \in Int /\ 2 * p \in Int
    OBVIOUS
  <2> QED
    BY <1>7, <2>1, Factored
<1> QED
  BY <1>1, <1>8

\* The mitigated counts of a reading.
LEMMA MitigatedIs ==
  ASSUME NEW n \in Nat, n > 0, NEW shots \in Nat, shots > 0, 2 * shots < Parts,
         NEW d \in Draws(n, shots),
         NEW read \in Readings(n, d), NEW k \in Bits(n), NEW p, p = Power(Reads, n),
         NEW g, g = Power(Reads - 2 * Misread, n)
  PROVE  \E m \in Nat :
           /\ Mitigate(n, read)[k] = m
           /\ read = Expected(n, d) => m = p * d[k]
           /\ (2 * (m - p * d[k]) - 1) * g <= 2 * p
           /\ (2 * (p * d[k] - m) - 1) * g <= 2 * p
<1>1. d \in [Bits(n) -> Int] /\ \A l \in Bits(n) : d[l] \in Nat
  BY DrawsAre DEF Draws
<1>2. PICK v, h : Differs(n, Expected(n, d), read, v, h) /\ (h = 0 <=> read = Expected(n, d))
  BY <1>1, ReadingIs
<1>3. h \in {0, 1} /\ read \in [Bits(n) -> Int] /\ DOMAIN read = Bits(n) /\ IsFiniteSet(Bits(n))
  BY <1>1, <1>2, ReadingIs, BitsFinite DEF Differs
<1>4. p \in Nat /\ g \in Nat /\ p > 0 /\ g > 0
  BY ReadoutIs, PowerPositive
<1>5. PICK half \in Nat, c \in Nat : half = p * h /\ c = p * g
  <2>1. p * h \in Nat /\ p * g \in Nat
    BY <1>3, <1>4
  <2> QED
    BY <2>1
<1> DEFINE x == Corrected(n, v)
           clipped == [l \in Bits(n) |-> Max({0, Corrected(n, read)[l]})]
           all == SumFunctionOnSet(clipped, Bits(n))
<1>6. Disturbed(n, shots, d, half, c, x, clipped)
  <2>1. \A l \in Bits(n) : clipped[l] = Max({0, Corrected(n, read)[l]})
    OBVIOUS
  <2> HIDE DEF clipped
  <2> QED
    BY <1>2, <1>5, <2>1, CorrectionIs
<1>7. Mitigate(n, read)[k] =
        IF Parts * clipped[k] > Max({1, Total(clipped)})
          THEN Round(clipped[k] * Total(read), Max({1, Total(clipped)})) ELSE 0
  BY <1>3 DEF Mitigate
<1>8. DOMAIN clipped = Bits(n)
  OBVIOUS
<1> HIDE DEF x, clipped
<1>9. Total(clipped) = all
  BY <1>8, SumOfDomain DEF Total
<1>10. Total(read) = p * shots
  <2>1. Total(read) = SumFunctionOnSet(read, Bits(n))
    BY <1>3, SumOfDomain DEF Total
  <2>2. /\ v \in [Bits(n) -> Int] /\ SumFunctionOnSet(v, Bits(n)) = 0
        /\ \A l \in Bits(n) : read[l] = Expected(n, d)[l] + v[l]
    BY <1>2 DEF Differs
  <2> DEFINE e == Expected(n, d)
  <2>3. e \in [Bits(n) -> Int] /\ SumFunctionOnSet(e, Bits(n)) = p * shots
    BY <1>1, ExpectedIs, TotalRead
  <2>4. \A l \in Bits(n) : read[l] = e[l] + v[l]
    BY <2>2
  <2> HIDE DEF e
  <2>5. Summable(e, Bits(n)) /\ Summable(v, Bits(n))
    BY <1>3, <2>2, <2>3 DEF Summable
  <2>6. SumFunctionOnSet(read, Bits(n)) =
          SumFunctionOnSet(e, Bits(n)) + SumFunctionOnSet(v, Bits(n))
    BY <2>4, <2>5, SumPlus
  <2>7. p * shots \in Int
    BY <1>4
  <2> QED
    BY <2>1, <2>2, <2>3, <2>6, <2>7
<1>11. clipped[k] \in Nat /\ all \in Nat /\ c * shots <= all
  <2>1. PICK neg \in [Bits(n) -> Nat] :
          /\ \A l \in Bits(n) : clipped[l] \in Nat
          /\ SumFunctionOnSet(neg, Bits(n)) \in Nat
          /\ SumFunctionOnSet(clipped, Bits(n)) = c * shots + SumFunctionOnSet(neg, Bits(n))
    BY <1>6, ClippedIs
  <2>2. c * shots \in Nat
    OBVIOUS
  <2> QED
    BY <2>1, <2>2
<1>12. all > 0
  <2>1. c > 0
    BY <1>4, <1>5
  <2>2. c * shots > 0 /\ c * shots \in Nat
    BY <2>1
  <2> QED
    BY <1>11, <2>2
<1>13. Max({1, all}) = all
  <2>1. PICK one \in Int, a \in Int : one = 1 /\ a = all
    BY <1>11
  <2>2. Max({one, a}) = IF one >= a THEN one ELSE a
    BY SmallerAndLarger
  <2>3. Max({one, a}) = a
    BY <1>12, <2>1, <2>2
  <2> QED
    BY <2>1, <2>3
<1>14. PICK a \in Nat, s \in Nat, D \in Nat : a = all /\ s = clipped[k] /\ D = d[k]
  BY <1>1, <1>11
<1>15. /\ s * shots - D * a <= half * shots
       /\ D * a - s * shots <= half * shots
  BY <1>6, <1>14, ShareIs
<1>16. PICK num \in Nat : num = s * (p * shots)
  BY <1>4
<1>17. PICK m \in Nat :
         m = Round(num, a) /\ Mitigate(n, read)[k] = IF Parts * s > a THEN m ELSE 0
  <2>1. Mitigate(n, read)[k] = IF Parts * s > a THEN Round(num, a) ELSE 0
    BY <1>7, <1>9, <1>10, <1>13, <1>14, <1>16
  <2>2. Round(num, a) \in Nat
    <3>1. a \in Nat \ {0}
      BY <1>12, <1>14
    <3> QED
      BY <3>1, RoundIs
  <2> QED
    BY <2>1, <2>2
<1>18. PICK w \in Int : w = s * shots - D * a
  OBVIOUS
\* what is rounded, and how far that is from the count
<1>19. num = (p * D) * a + p * w
  <2>1. s * shots = D * a + w
    <3>1. D * a \in Int /\ s * shots \in Int
      OBVIOUS
    <3> QED
      BY <1>18, <3>1
  <2>2. s * (p * shots) = p * (s * shots)
    BY <1>4
  <2>3. p * (D * a + w) = (p * D) * a + p * w
    BY <1>4
  <2> QED
    BY <1>16, <2>1, <2>2, <2>3
<1>20. read = Expected(n, d) => m = p * D
  <2> SUFFICES ASSUME read = Expected(n, d) PROVE m = p * D
    OBVIOUS
  <2>1. half = 0
    BY <1>2, <1>4, <1>5
  <2>2. w = 0
    <3>1. half * shots = 0
      BY <2>1
    <3>2. s * shots \in Int /\ D * a \in Int
      OBVIOUS
    <3> QED
      BY <1>15, <1>18, <3>1, <3>2
  <2>3. PICK z \in Nat : z = p * D
    BY <1>4
  <2>4. num = z * a
    <3>1. p * 0 = 0 /\ z * a \in Int
      BY <1>4
    <3> QED
      BY <1>19, <2>2, <2>3, <3>1
  <2> QED
    BY <1>12, <1>14, <1>17, <2>3, <2>4, RoundExact
<1>21. PICK z \in Nat, pw \in Int : z = p * D /\ pw = p * w
  <2>1. p * D \in Nat /\ p * w \in Int
    BY <1>4
  <2> QED
    BY <2>1
<1>22. PICK ma \in Int, za \in Int : /\ ma = m * a /\ za = z * a /\ num = za + pw
                                     /\ 2 * ma <= 2 * num + a /\ 2 * num <= 2 * ma + a
  <2>1. 2 * (m * a) <= 2 * num + a /\ 2 * num <= 2 * (m * a) + a
    <3>1. a \in Nat \ {0}
      BY <1>12, <1>14
    <3>2. /\ 2 * (Round(num, a) * a) <= 2 * num + a
          /\ 2 * num <= 2 * (Round(num, a) * a) + a
      BY <3>1, RoundIs
    <3> QED
      BY <1>17, <3>2
  <2>2. m * a \in Int /\ z * a \in Int
    OBVIOUS
  <2> QED
    BY <1>19, <1>21, <2>1, <2>2
<1>23. w <= p * shots /\ -w <= p * shots /\ (p * g) * shots <= a
  <2>1. half * shots <= p * shots
    <3>1. half <= p
      BY <1>3, <1>4, <1>5
    <3> QED
      BY <1>4, <3>1, Factored
  <2>2. s * shots \in Int /\ D * a \in Int /\ half * shots \in Int /\ p * shots \in Int
    BY <1>4
  <2> QED
    BY <1>5, <1>11, <1>14, <1>15, <1>18, <2>1, <2>2
<1>24. (2 * (m - z) - 1) * g <= 2 * p
  <2>1. PICK off \in Int : off = m - z
    OBVIOUS
  <2>2. off * a = ma - za
    BY <1>22, <2>1
  <2>3. 2 * (off * a) <= a + 2 * (p * w)
    BY <1>21, <1>22, <2>2
  <2>4. (2 * off - 1) * g <= 2 * p
    BY <1>4, <1>12, <1>14, <1>23, <2>3, OffBy
  <2> QED
    BY <2>1, <2>4
<1>25. (2 * (z - m) - 1) * g <= 2 * p
  <2>1. PICK off \in Int, u \in Int : off = z - m /\ u = -w
    OBVIOUS
  <2>2. off * a = za - ma
    BY <1>22, <2>1
  <2>3. p * u = -pw
    BY <1>4, <1>21, <2>1
  <2>4. 2 * (off * a) <= a + 2 * (p * u)
    BY <1>22, <2>2, <2>3
  <2>5. u <= p * shots
    BY <1>23, <2>1
  <2>6. (2 * off - 1) * g <= 2 * p
    BY <1>4, <1>12, <1>14, <1>23, <2>4, <2>5, OffBy
  <2> QED
    BY <2>1, <2>6
\* an entry that is dropped
<1>26. ASSUME ~(Parts * s > a)
       PROVE  /\ read = Expected(n, d) => D = 0
              /\ (2 * z - 1) * g <= 2 * p
  <2>1. 2 * (s * shots) < a
    <3>1. CASE s = 0
      <4>1. s * shots = 0
        BY <3>1
      <4> QED
        BY <1>12, <1>14, <4>1
    <3>2. CASE s > 0
      <4>1. (2 * shots + 1) * s <= Parts * s
        <5>1. 2 * shots + 1 <= Parts /\ 2 * shots + 1 \in Int /\ Parts \in Int
          BY ReadoutAssumption
        <5> QED
          BY <5>1, Factored
      <4>2. (2 * shots + 1) * s = 2 * (s * shots) + s /\ s * shots \in Int
        OBVIOUS
      <4> QED
        BY <1>26, <3>2, <4>1, <4>2, ReadoutAssumption
    <3> QED
      BY <3>1, <3>2
  <2>2. PICK hs \in Nat, Da \in Nat : hs = half * shots /\ Da = D * a
    OBVIOUS
  <2>3. 2 * Da - a < 2 * hs
    <3>1. s * shots \in Int
      OBVIOUS
    <3> QED
      BY <1>15, <2>1, <2>2, <3>1
  <2>4. ASSUME D > 0 PROVE D = 1 /\ g = 1 /\ half > 0
    <3>1. PICK E \in Nat : D = E + 1
      <4>1. D - 1 \in Nat /\ D = (D - 1) + 1
        BY <2>4
      <4> QED
        BY <4>1
    <3>2. Da = E * a + a /\ E * a \in Nat
      BY <2>2, <3>1
    <3>3. 2 * (E * a) + a < 2 * hs
      BY <2>3, <3>2
    <3>4. half > 0
      <4>1. half = 0 => hs = 0
        BY <2>2
      <4> QED
        BY <3>2, <3>3, <4>1
    <3>5. PICK ps \in Nat : ps = p * shots /\ hs <= ps /\ ps > 0
      <4>1. half <= p
        BY <1>3, <1>4, <1>5
      <4>2. half * shots <= p * shots
        BY <1>4, <4>1, Factored
      <4>3. p * shots \in Nat /\ p * shots > 0
        BY <1>4
      <4> QED
        BY <2>2, <4>2, <4>3
    <3>6. ps * g <= a
      <4>1. (p * g) * shots = ps * g
        BY <1>4, <3>5
      <4> QED
        BY <1>23, <4>1
    <3>7. ASSUME g >= 2 PROVE FALSE
      <4>1. PICK two \in Nat : two = 2
        OBVIOUS
      <4>2. two * ps <= g * ps
        BY <1>4, <3>7, <4>1, Factored
      <4>3. g * ps = ps * g /\ ps * g \in Nat /\ two * ps = 2 * ps
        BY <1>4, <4>1
      <4> QED
        BY <3>2, <3>3, <3>5, <3>6, <4>2, <4>3
    <3>8. g = 1
      BY <1>4, <3>7
    <3>9. ps <= a
      BY <3>6, <3>8
    <3>10. ASSUME E >= 1 PROVE FALSE
      <4>1. PICK one \in Nat : one = 1
        OBVIOUS
      <4>2. one * a <= E * a
        BY <3>10, <4>1, Factored
      <4>3. one * a = a
        BY <4>1
      <4> QED
        BY <3>2, <3>3, <3>5, <3>9, <4>2, <4>3
    <3> QED
      BY <3>1, <3>4, <3>8, <3>10
  <2>5. read = Expected(n, d) => half = 0
    BY <1>2, <1>4, <1>5
  <2>6. CASE D = 0
    <3>1. z = 0
      BY <1>4, <1>21, <2>6
    <3>2. (2 * z - 1) * g = -g
      BY <1>4, <3>1
    <3> QED
      BY <1>4, <2>6, <3>2
  <2>7. CASE D > 0
    <3>1. z = p /\ g = 1
      BY <1>4, <1>21, <2>4, <2>7
    <3>2. (2 * z - 1) * g = 2 * p - 1
      BY <1>4, <3>1
    <3> QED
      BY <1>4, <2>4, <2>5, <2>7, <3>2
  <2> QED
    BY <2>6, <2>7
<1>27. CASE Parts * s > a
  BY <1>14, <1>17, <1>20, <1>21, <1>24, <1>25, <1>27
<1>28. CASE ~(Parts * s > a)
  <2>1. PICK o \in Nat : o = 0
    OBVIOUS
  <2>2. Mitigate(n, read)[k] = o
    BY <1>17, <1>28, <2>1
  <2>3. read = Expected(n, d) => o = z
    <3>1. D = 0 => z = 0
      BY <1>4, <1>21
    <3> QED
      BY <1>26, <1>28, <2>1, <3>1
  <2>4. (2 * (z - o) - 1) * g <= 2 * p
    <3>1. z - o = z
      BY <2>1
    <3> QED
      BY <1>26, <1>28, <3>1
  <2>5. (2 * (o - z) - 1) * g <= 2 * p
    <3>1. PICK y \in Nat : y = 2 * z + 1
      OBVIOUS
    <3>2. 2 * (o - z) - 1 = -y
      BY <2>1, <3>1
    <3>3. (-y) * g = -(y * g) /\ y * g \in Nat
      BY <1>4
    <3> QED
      BY <1>4, <3>2, <3>3
  <2> QED
    BY <1>14, <1>21, <2>2, <2>3, <2>4, <2>5
<1> QED
  BY <1>27, <1>28

\* The noisy pass of the simulator is mitigated so.
LEMMA PassInverts == SampInv => MitigationInverts
<1> SUFFICES ASSUME SampInv, noisy # None, 2 * Shots < Parts
             PROVE  MitigationInverts
  BY DEF MitigationInverts
<1>1. qubo \in Qubos /\ qubo.n \in Nat /\ qubo.n > 0 /\ Shots \in Nat /\ Shots > 0
  BY SamplingAssumption DEF SampInv, IsQubo
<1>2. PICK n \in Nat : n = qubo.n
  BY <1>1
<1>3. PICK d \in Draws(n, Shots) : \E read \in Readings(n, d) :
        noisy = [outcomes |-> d, read |-> read, mitigated |-> Mitigate(n, read)]
  BY <1>2 DEF SampInv, NoisyInv
<1> PICK read \in Readings(n, d) :
      noisy = [outcomes |-> d, read |-> read, mitigated |-> Mitigate(n, read)]
  BY <1>3
<1>4. noisy.outcomes = d /\ noisy.read = read /\ noisy.mitigated = Mitigate(n, read)
  OBVIOUS
<1>5. PICK p \in Nat, g \in Nat : p = Power(Reads, n) /\ g = Power(Reads - 2 * Misread, n)
  BY ReadoutIs, PowerPositive
<1>6. ASSUME NEW k \in Bits(n)
      PROVE  LET off == Max({noisy.mitigated[k] - p * d[k], p * d[k] - noisy.mitigated[k]})
             IN IF read = Expected(n, d) THEN off = 0 ELSE (2 * off - 1) * g <= 2 * p
  <2>1. PICK m \in Nat :
          /\ Mitigate(n, read)[k] = m
          /\ read = Expected(n, d) => m = p * d[k]
          /\ (2 * (m - p * d[k]) - 1) * g <= 2 * p
          /\ (2 * (p * d[k] - m) - 1) * g <= 2 * p
    BY <1>1, <1>2, <1>5, MitigatedIs
  <2>2. PICK z \in Nat : z = p * d[k]
    <3>1. d[k] \in Nat
      BY <1>1, DrawsAre
    <3> QED
      BY <3>1
  <2>3. PICK i \in Int, j \in Int : i = m - z /\ j = z - m
    OBVIOUS
  <2>4. Max({i, j}) = IF i >= j THEN i ELSE j
    BY SmallerAndLarger
  <2>5. noisy.mitigated[k] = m
    BY <1>4, <2>1
  <2>6. Max({i, j}) = Max({noisy.mitigated[k] - p * d[k], p * d[k] - noisy.mitigated[k]})
    BY <2>2, <2>3, <2>5
  <2>7. PICK off \in Int : off = Max({i, j}) /\ off \in {i, j}
    BY <2>4
  <2>8. (2 * off - 1) * g <= 2 * p
    BY <2>1, <2>2, <2>3, <2>7
  <2>9. read = Expected(n, d) => off = 0
    BY <2>1, <2>2, <2>3, <2>7
  <2> QED
    BY <2>6, <2>7, <2>8, <2>9
<1> QED
  BY <1>2, <1>4, <1>5, <1>6 DEF MitigationInverts

\* The mitigation takes back what the misreadings do on average, to every count,
\* and of one misreading more no count is off by more than the inverse confusion
\* amplifies it to, and the half of the rounding: for every number of qubits and
\* shots and every readout error the mitigation treats (quantum.py:150-171).
THEOREM MitigationTakesBack == Spec => []MitigationInverts
BY SamplingInvariant, PassInverts, PTL

=============================================================================
