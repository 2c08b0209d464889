------------------------------ MODULE QuboProofs ------------------------------
(***************************************************************************)
(* Theorems about the operators of module Qubo, and what they rest on:     *)
(* sums over finite sets, recursion over the numbers, sorting, and squares *)
(* of linear forms.  They are stated for every number of variables and for *)
(* all integer coefficients.                                               *)
(*                                                                         *)
(* A sum is a fold, defined by recursion over the subsets of a finite set; *)
(* SumUnfolds justifies the recursion by well-founded induction, and every *)
(* later fact about sums follows from it by SubsetInduction.               *)
(***************************************************************************)
EXTENDS Qubo, FiniteSetTheorems, SequenceTheorems, WellFoundedInduction, TLAPS

-----------------------------------------------------------------------------
(* Sums over finite sets                                                   *)

\* Induction over a finite set S: a set of subsets of S that has the empty one, and any
\* other one if it has what is left of that without an element, has S.
LEMMA SubsetInduction ==
  ASSUME NEW S, IsFiniteSet(S), NEW good, {} \in good,
         \A T \in SUBSET S : T # {} /\ (\A x \in T : T \ {x} \in good) => T \in good
  PROVE  S \in good
<1> DEFINE bad == {T \in SUBSET S : T \notin good}
<1> SUFFICES ASSUME S \notin good
             PROVE  FALSE
  OBVIOUS
<1>1. bad \subseteq FiniteSubsetsOf(S) /\ bad # {}
  BY FS_FiniteSubsetsOfFinite
<1>2. IsWellFoundedOn(StrictSubsetOrdering(S), FiniteSubsetsOf(S))
  BY FS_StrictSubsetOrderingWellFounded, FS_FiniteSubsetsOfFinite
<1>3. PICK T \in bad : \A U \in bad : ~(<<U, T>> \in StrictSubsetOrdering(S))
  <2> HIDE DEF bad
  <2> QED
    BY <1>1, <1>2, WFMin
<1>4. ASSUME NEW x \in T
      PROVE  T \ {x} \in good
  <2>1. <<T \ {x}, T>> \in StrictSubsetOrdering(S) /\ T \ {x} \in SUBSET S
    BY <1>3 DEF StrictSubsetOrdering
  <2> QED
    BY <1>3, <2>1
<1> QED
  BY <1>3, <1>4

\* An element of a set as the folds choose it.
First(s) == CHOOSE x \in s : TRUE

\* It is an element.
LEMMA FirstIn == \A s : s # {} => First(s) \in s
BY DEF First

\* h holds the sums of f over the subsets of S, each unfolded by one element.
Unfolding(h, f, S) ==
  \A s \in SUBSET S : h[s] = IF s = {} THEN 0 ELSE f[First(s)] + h[s \ {First(s)}]

\* The sum over a finite set unfolds as its recursive definition says.
LEMMA SumUnfolds ==
  ASSUME NEW f, NEW S, IsFiniteSet(S), \A x \in S : f[x] \in Int
  PROVE  \E h \in [SUBSET S -> Int] : Unfolding(h, f, S) /\ SumFunctionOnSet(f, S) = h[S]
<1> DEFINE Is(h) == h = [s \in SUBSET S |->
                          IF s = {} THEN 0 ELSE f[First(s)] + h[s \ {First(s)}]]
           small(n) == {s \in SUBSET S : Cardinality(s) <= n}
           Begun(n) == \E h \in [small(n) -> Int] :
                         \A s \in small(n) :
                           h[s] = IF s = {} THEN 0 ELSE f[First(s)] + h[s \ {First(s)}]
<1>1. \A s \in SUBSET S : IsFiniteSet(s) /\ Cardinality(s) \in Nat
  BY FS_Subset, FS_CardinalityType
<1>2. Begun(0)
  <2>1. \A s \in small(0) : s = {}
    BY <1>1, FS_EmptySet
  <2>2. [s \in small(0) |-> 0] \in [small(0) -> Int]
    OBVIOUS
  <2> QED
    BY <2>1, <2>2
<1>3. ASSUME NEW n \in Nat, Begun(n)
      PROVE  Begun(n + 1)
  <2>1. PICK h \in [small(n) -> Int] :
          \A s \in small(n) :
            h[s] = IF s = {} THEN 0 ELSE f[First(s)] + h[s \ {First(s)}]
    BY <1>3
  <2> DEFINE g == [s \in small(n + 1) |->
                    IF s = {} THEN 0 ELSE f[First(s)] + h[s \ {First(s)}]]
  <2>2. ASSUME NEW s \in small(n + 1), s # {}
        PROVE  s \ {First(s)} \in small(n) /\ f[First(s)] \in Int
    <3>1. First(s) \in s
      BY <2>2, FirstIn
    <3>2. Cardinality(s \ {First(s)}) = Cardinality(s) - 1
      BY <1>1, <3>1, FS_RemoveElement
    <3> QED
      BY <1>1, <3>1, <3>2
  <2>3. g \in [small(n + 1) -> Int]
    BY <2>2
  <2>4. ASSUME NEW s \in small(n)
        PROVE  s \in small(n + 1) /\ g[s] = h[s]
    BY <1>1, <2>1
  <2>5. \A s \in small(n + 1) :
          g[s] = IF s = {} THEN 0 ELSE f[First(s)] + g[s \ {First(s)}]
    BY <2>2, <2>4
  <2> QED
    BY <2>3, <2>5
<1>4. \A n \in Nat : Begun(n)
  <2> DEFINE missing == {n \in Nat : ~Begun(n)}
  <2> SUFFICES ASSUME missing # {}
               PROVE  FALSE
    OBVIOUS
  <2>1. PICK n \in missing : \A m \in missing : ~(<<m, n>> \in OpToRel(<, Nat))
    <3>1. missing \subseteq Nat
      OBVIOUS
    <3> HIDE DEF missing
    <3> QED
      BY <3>1, NatLessThanWellFounded, WFMin
  <2> HIDE DEF Begun
  <2>2. n \in Nat /\ ~Begun(n) /\ n # 0
    BY <1>2, <2>1
  <2>3. n - 1 \in Nat /\ (n - 1) + 1 = n /\ <<n - 1, n>> \in OpToRel(<, Nat)
    BY <2>2 DEF OpToRel
  <2>4. Begun(n - 1)
    BY <2>1, <2>3
  <2> QED
    BY <1>3, <2>2, <2>3, <2>4
<1>5. \E h \in [SUBSET S -> Int] : Unfolding(h, f, S)
  <2>1. small(Cardinality(S)) = SUBSET S
    BY <1>1, FS_Subset
  <2>2. Begun(Cardinality(S))
    BY <1>1, <1>4
  <2> QED
    BY <2>1, <2>2 DEF Unfolding
<1>6. \E h : Is(h)
  BY <1>5 DEF Unfolding
<1>7. Is(CHOOSE h : Is(h))
  BY <1>6
<1>8. SumFunctionOnSet(f, S) = (CHOOSE h : Is(h))[S]
  BY DEF SumFunctionOnSet, FoldFunctionOnSet, MapThenFoldSet, First
<1> DEFINE k == CHOOSE h : Is(h)
<1> HIDE DEF k
<1>9. Unfolding(k, f, S) /\ k = [s \in SUBSET S |-> k[s]]
  BY <1>7 DEF Unfolding, k
<1>10. ASSUME NEW s \in SUBSET S
       PROVE  k[s] \in Int
  <2> DEFINE good == {t \in SUBSET s : k[t] \in Int}
  <2>1. k[{}] = 0 /\ \A t \in SUBSET s : t # {} =>
                       k[t] = f[First(t)] + k[t \ {First(t)}]
    BY <1>9 DEF Unfolding
  <2>2. ASSUME NEW t \in SUBSET s, t # {}, \A x \in t : t \ {x} \in good
        PROVE  t \in good
    <3>1. First(t) \in t /\ f[First(t)] \in Int /\ k[t \ {First(t)}] \in Int
      BY <2>2, FirstIn
    <3>2. k[t] \in Int
      BY <2>1, <2>2, <3>1
    <3> QED
      BY <3>2
  <2>3. {} \in good
    BY <2>1
  <2> HIDE DEF good
  <2>4. s \in good
    BY <1>1, <2>2, <2>3, SubsetInduction
  <2> QED
    BY <2>4 DEF good
<1> QED
  BY <1>8, <1>9, <1>10 DEF k

\* The sums over the subsets of a finite set, by one function.
LEMMA SumsOfSubsets ==
  ASSUME NEW f, NEW S, IsFiniteSet(S), \A x \in S : f[x] \in Int
  PROVE  \E h \in [SUBSET S -> Int] :
           Unfolding(h, f, S) /\ \A T \in SUBSET S : SumFunctionOnSet(f, T) = h[T]
<1>1. PICK h \in [SUBSET S -> Int] : Unfolding(h, f, S)
  BY SumUnfolds
<1>2. ASSUME NEW T \in SUBSET S
      PROVE  SumFunctionOnSet(f, T) = h[T]
  <2>1. IsFiniteSet(T) /\ \A x \in T : f[x] \in Int
    BY FS_Subset
  <2>2. PICK g \in [SUBSET T -> Int] : Unfolding(g, f, T) /\ SumFunctionOnSet(f, T) = g[T]
    BY <2>1, SumUnfolds
  <2> DEFINE good == {t \in SUBSET T : g[t] = h[t]}
  <2>3. g[{}] = 0 /\ h[{}] = 0
    BY <1>1, <2>2 DEF Unfolding
  <2>4. {} \in good
    BY <2>3
  <2>5. ASSUME NEW t \in SUBSET T, t # {}, \A x \in t : t \ {x} \in good
        PROVE  t \in good
    <3>1. t \in SUBSET S /\ First(t) \in t
      BY <2>5, FirstIn
    <3>2. g[t] = f[First(t)] + g[t \ {First(t)}]
      BY <2>2, <2>5 DEF Unfolding
    <3>3. h[t] = f[First(t)] + h[t \ {First(t)}]
      BY <1>1, <2>5, <3>1 DEF Unfolding
    <3>4. g[t \ {First(t)}] = h[t \ {First(t)}]
      BY <2>5, <3>1
    <3> QED
      BY <3>2, <3>3, <3>4
  <2> HIDE DEF good
  <2>6. T \in good
    BY <2>1, <2>4, <2>5, SubsetInduction
  <2> QED
    BY <2>2, <2>6 DEF good
<1> QED
  BY <1>1, <1>2

\* What a sum over no elements is, and that of integers.
LEMMA SumType ==
  /\ \A f : SumFunctionOnSet(f, {}) = 0
  /\ \A f, S : IsFiniteSet(S) /\ (\A x \in S : f[x] \in Int) => SumFunctionOnSet(f, S) \in Int
<1>1. ASSUME NEW f, NEW S, IsFiniteSet(S), \A x \in S : f[x] \in Int
      PROVE  SumFunctionOnSet(f, S) \in Int /\ SumFunctionOnSet(f, {}) = 0
  <2>1. PICK h \in [SUBSET S -> Int] :
          Unfolding(h, f, S) /\ \A T \in SUBSET S : SumFunctionOnSet(f, T) = h[T]
    BY <1>1, SumsOfSubsets
  <2>2. h[{}] = 0
    BY <2>1 DEF Unfolding
  <2> QED
    BY <2>1, <2>2
<1>2. ASSUME NEW f
      PROVE  SumFunctionOnSet(f, {}) = 0
  <2>1. IsFiniteSet({}) /\ \A x \in {} : f[x] \in Int
    BY FS_EmptySet
  <2> QED
    BY <1>1, <2>1
<1> QED
  BY <1>1, <1>2

\* Any summand may be taken out of a sum.
LEMMA SumRemove ==
  ASSUME NEW f, NEW S, IsFiniteSet(S), \A x \in S : f[x] \in Int
  PROVE  \A x \in S : SumFunctionOnSet(f, S) = f[x] + SumFunctionOnSet(f, S \ {x})
<1>1. PICK h \in [SUBSET S -> Int] :
        Unfolding(h, f, S) /\ \A T \in SUBSET S : SumFunctionOnSet(f, T) = h[T]
  BY SumsOfSubsets
<1> DEFINE good == {T \in SUBSET S : \A x \in T : h[T] = f[x] + h[T \ {x}]}
<1>2. {} \in good
  OBVIOUS
<1>3. ASSUME NEW T \in SUBSET S, T # {}, \A x \in T : T \ {x} \in good
      PROVE  T \in good
  <2> DEFINE c == First(T)
  <2>1. c \in T
    BY <1>3, FirstIn
  <2>2. h[T] = f[c] + h[T \ {c}]
    BY <1>1, <1>3 DEF Unfolding
  <2> HIDE DEF c
  <2>3. ASSUME NEW x \in T, x # c
        PROVE  h[T] = f[x] + h[T \ {x}]
    <3>1. T \ {c} \in good /\ x \in T \ {c} /\ T \ {x} \in good /\ c \in T \ {x}
      BY <1>3, <2>1, <2>3
    <3> DEFINE rest == (T \ {c}) \ {x}
    <3>2. rest = (T \ {x}) \ {c} /\ rest \in SUBSET S
      OBVIOUS
    <3> HIDE DEF rest
    <3>3. h[T \ {c}] = f[x] + h[rest]
      BY <3>1 DEF rest
    <3>4. h[T \ {x}] = f[c] + h[rest]
      BY <3>1, <3>2
    <3>5. f[x] \in Int /\ f[c] \in Int /\ h[rest] \in Int
      BY <2>1, <3>2
    <3> QED
      BY <2>2, <3>3, <3>4, <3>5
  <2> QED
    BY <2>2, <2>3
<1> HIDE DEF good
<1>4. S \in good
  BY <1>2, <1>3, SubsetInduction
<1>5. \A x \in S : h[S] = f[x] + h[S \ {x}]
  BY <1>4 DEF good
<1> QED
  BY <1>1, <1>5

\* What is to be added up are finitely many integers.
Summable(f, S) == IsFiniteSet(S) /\ \A x \in S : f[x] \in Int

\* Two functions with the same values have the same sum.
LEMMA SumAgree ==
  ASSUME NEW f, NEW g, NEW S, Summable(f, S), \A x \in S : g[x] = f[x]
  PROVE  SumFunctionOnSet(g, S) = SumFunctionOnSet(f, S)
<1> DEFINE good == {T \in SUBSET S : SumFunctionOnSet(g, T) = SumFunctionOnSet(f, T)}
<1>1. {} \in good
  BY SumType
<1>2. ASSUME NEW T \in SUBSET S, T # {}, \A x \in T : T \ {x} \in good
      PROVE  T \in good
  <2>1. PICK x \in T : TRUE
    BY <1>2
  <2>2. IsFiniteSet(T) /\ \A y \in T : f[y] \in Int /\ g[y] \in Int
    BY FS_Subset DEF Summable
  <2>3. /\ SumFunctionOnSet(f, T) = f[x] + SumFunctionOnSet(f, T \ {x})
        /\ SumFunctionOnSet(g, T) = g[x] + SumFunctionOnSet(g, T \ {x})
    BY <2>2, SumRemove
  <2> QED
    BY <1>2, <2>3
<1> HIDE DEF good
<1>3. S \in good
  BY <1>1, <1>2, SubsetInduction DEF Summable
<1> QED
  BY <1>3 DEF good

\* The sum of the sums of two functions is the sum of their sums.
LEMMA SumPlus ==
  ASSUME NEW S, NEW f, NEW g, NEW k, Summable(f, S), Summable(g, S),
         \A x \in S : k[x] = f[x] + g[x]
  PROVE  SumFunctionOnSet(k, S) = SumFunctionOnSet(f, S) + SumFunctionOnSet(g, S)
<1> DEFINE good == {T \in SUBSET S : SumFunctionOnSet(k, T) =
                                     SumFunctionOnSet(f, T) + SumFunctionOnSet(g, T)}
<1>1. {} \in good
  BY SumType
<1>2. ASSUME NEW T \in SUBSET S, T # {}, \A x \in T : T \ {x} \in good
      PROVE  T \in good
  <2>1. PICK x \in T : TRUE
    BY <1>2
  <2>2. IsFiniteSet(T) /\ IsFiniteSet(T \ {x})
    BY FS_Subset DEF Summable
  <2>3. \A e \in {f, g, k} : SumFunctionOnSet(e, T) = e[x] + SumFunctionOnSet(e, T \ {x})
                             /\ SumFunctionOnSet(e, T \ {x}) \in Int
    BY <2>2, SumRemove, SumType DEF Summable
  <2>4. SumFunctionOnSet(k, T \ {x}) =
          SumFunctionOnSet(f, T \ {x}) + SumFunctionOnSet(g, T \ {x})
    BY <1>2
  <2>5. f[x] \in Int /\ g[x] \in Int /\ k[x] = f[x] + g[x]
    BY DEF Summable
  <2>6. SumFunctionOnSet(k, T) = SumFunctionOnSet(f, T) + SumFunctionOnSet(g, T)
    BY <2>3, <2>4, <2>5
  <2> QED
    BY <2>6
<1> HIDE DEF good
<1>3. S \in good
  BY <1>1, <1>2, SubsetInduction DEF Summable
<1> QED
  BY <1>3 DEF good

\* A common factor may be taken out of a sum.
LEMMA SumScale ==
  ASSUME NEW S, NEW f, NEW k, NEW c \in Int, Summable(f, S), \A x \in S : k[x] = c * f[x]
  PROVE  SumFunctionOnSet(k, S) = c * SumFunctionOnSet(f, S)
<1> DEFINE good == {T \in SUBSET S : SumFunctionOnSet(k, T) = c * SumFunctionOnSet(f, T)}
<1>1. {} \in good
  BY SumType
<1>2. ASSUME NEW T \in SUBSET S, T # {}, \A x \in T : T \ {x} \in good
      PROVE  T \in good
  <2>1. PICK x \in T : TRUE
    BY <1>2
  <2>2. IsFiniteSet(T) /\ IsFiniteSet(T \ {x}) /\ \A y \in S : k[y] \in Int
    BY FS_Subset DEF Summable
  <2>3. \A e \in {f, k} : SumFunctionOnSet(e, T) = e[x] + SumFunctionOnSet(e, T \ {x})
                          /\ SumFunctionOnSet(e, T \ {x}) \in Int
    BY <2>2, SumRemove, SumType DEF Summable
  <2>4. SumFunctionOnSet(k, T \ {x}) = c * SumFunctionOnSet(f, T \ {x})
    BY <1>2
  <2>5. f[x] \in Int /\ k[x] = c * f[x]
    BY DEF Summable
  <2>6. c * (f[x] + SumFunctionOnSet(f, T \ {x})) = c * f[x] + c * SumFunctionOnSet(f, T \ {x})
    BY <2>3, <2>5
  <2>7. SumFunctionOnSet(k, T) = c * SumFunctionOnSet(f, T)
    BY <2>3, <2>4, <2>5, <2>6
  <2> QED
    BY <2>7
<1> HIDE DEF good
<1>3. S \in good
  BY <1>1, <1>2, SubsetInduction DEF Summable
<1> QED
  BY <1>3 DEF good

\* The sum over two disjoint sets.
LEMMA SumUnion ==
  ASSUME NEW f, NEW S, NEW R, Summable(f, S), Summable(f, R), S \cap R = {}
  PROVE  SumFunctionOnSet(f, S \cup R) = SumFunctionOnSet(f, S) + SumFunctionOnSet(f, R)
<1> DEFINE good == {T \in SUBSET R : SumFunctionOnSet(f, S \cup T) =
                                     SumFunctionOnSet(f, S) + SumFunctionOnSet(f, T)}
<1>1. SumFunctionOnSet(f, S) \in Int
  BY SumType DEF Summable
<1>2. {} \in good
  <2>1. S \cup {} = S
    OBVIOUS
  <2> QED
    BY <1>1, <2>1, SumType
<1>3. ASSUME NEW T \in SUBSET R, T # {}, \A x \in T : T \ {x} \in good
      PROVE  T \in good
  <2>1. PICK x \in T : TRUE
    BY <1>3
  <2>2. /\ IsFiniteSet(T) /\ IsFiniteSet(T \ {x}) /\ IsFiniteSet(S \cup T)
        /\ \A y \in S \cup T : f[y] \in Int
    BY FS_Subset, FS_Union DEF Summable
  <2>3. (S \cup T) \ {x} = S \cup (T \ {x}) /\ x \in S \cup T
    BY <2>1
  <2>4. SumFunctionOnSet(f, S \cup T) = f[x] + SumFunctionOnSet(f, S \cup (T \ {x}))
    BY <2>2, <2>3, SumRemove
  <2>5. /\ SumFunctionOnSet(f, T) = f[x] + SumFunctionOnSet(f, T \ {x})
        /\ SumFunctionOnSet(f, T \ {x}) \in Int /\ f[x] \in Int
    BY <2>2, SumRemove, SumType
  <2>6. SumFunctionOnSet(f, S \cup (T \ {x})) =
          SumFunctionOnSet(f, S) + SumFunctionOnSet(f, T \ {x})
    BY <1>3
  <2>7. SumFunctionOnSet(f, S \cup T) = SumFunctionOnSet(f, S) + SumFunctionOnSet(f, T)
    BY <1>1, <2>4, <2>5, <2>6
  <2> QED
    BY <2>7
<1> HIDE DEF good
<1>4. R \in good
  BY <1>2, <1>3, SubsetInduction DEF Summable
<1> QED
  BY <1>4 DEF good

\* Summands that are 0 do not count.
LEMMA SumZeros ==
  ASSUME NEW f, NEW S, NEW T \in SUBSET S, Summable(f, T), IsFiniteSet(S),
         \A x \in S \ T : f[x] = 0
  PROVE  SumFunctionOnSet(f, S) = SumFunctionOnSet(f, T)
<1> DEFINE good == {R \in SUBSET (S \ T) : SumFunctionOnSet(f, R) = 0}
<1>1. {} \in good
  BY SumType
<1>2. ASSUME NEW R \in SUBSET (S \ T), R # {}, \A x \in R : R \ {x} \in good
      PROVE  R \in good
  <2>1. PICK x \in R : TRUE
    BY <1>2
  <2>2. IsFiniteSet(R) /\ \A y \in R : f[y] = 0
    BY FS_Subset
  <2>3. SumFunctionOnSet(f, R) = f[x] + SumFunctionOnSet(f, R \ {x})
    BY <2>2, SumRemove
  <2> QED
    BY <1>2, <2>2, <2>3
<1> HIDE DEF good
<1>3. S \ T \in good
  BY <1>1, <1>2, FS_Subset, SubsetInduction
<1>4. SumFunctionOnSet(f, S \ T) = 0
  BY <1>3 DEF good
<1>5. Summable(f, S \ T) /\ T \cup (S \ T) = S /\ T \cap (S \ T) = {}
  BY FS_Subset DEF Summable
<1>6. SumFunctionOnSet(f, S) = SumFunctionOnSet(f, T) + SumFunctionOnSet(f, S \ T)
  BY <1>5, SumUnion
<1> QED
  BY <1>4, <1>6, SumType DEF Summable

\* The elements of a sum may be renamed.
LEMMA SumRenamed ==
  ASSUME NEW f, NEW g, NEW m, NEW S, IsFiniteSet(S), \A x \in S : f[m[x]] \in Int,
         \A x, y \in S : m[x] = m[y] => x = y, \A x \in S : g[x] = f[m[x]]
  PROVE  SumFunctionOnSet(f, {m[x] : x \in S}) = SumFunctionOnSet(g, S)
<1> DEFINE good == {T \in SUBSET S : SumFunctionOnSet(f, {m[x] : x \in T}) =
                                     SumFunctionOnSet(g, T)}
<1>1. {} \in good
  <2>1. {m[x] : x \in {}} = {}
    OBVIOUS
  <2> QED
    BY <2>1, SumType
<1>2. ASSUME NEW T \in SUBSET S, T # {}, \A x \in T : T \ {x} \in good
      PROVE  T \in good
  <2>1. PICK x \in T : TRUE
    BY <1>2
  <2>2. IsFiniteSet(T) /\ \A y \in T : g[y] \in Int
    BY FS_Subset
  <2> DEFINE image == {m[y] : y \in T}
  <2>3. image \ {m[x]} = {m[y] : y \in T \ {x}} /\ m[x] \in image
    OBVIOUS
  <2>4. IsFiniteSet(image) /\ \A y \in image : f[y] \in Int
    <3>1. [y \in T |-> m[y]] \in Surjection(T, image)
      BY DEF Surjection
    <3> QED
      BY <2>2, <3>1, FS_Surjection
  <2> HIDE DEF image
  <2>5. SumFunctionOnSet(f, image) = f[m[x]] + SumFunctionOnSet(f, image \ {m[x]})
    BY <2>3, <2>4, SumRemove
  <2>6. SumFunctionOnSet(g, T) = g[x] + SumFunctionOnSet(g, T \ {x})
    BY <2>2, SumRemove
  <2>7. SumFunctionOnSet(f, image \ {m[x]}) = SumFunctionOnSet(g, T \ {x})
    BY <1>2, <2>3
  <2> QED
    BY <2>5, <2>6, <2>7 DEF image
<1> HIDE DEF good
<1>3. S \in good
  BY <1>1, <1>2, SubsetInduction
<1> QED
  BY <1>3 DEF good

\* The order of two sums may be changed.
LEMMA SumSwap ==
  ASSUME NEW S, NEW R, NEW f \in [S \X R -> Int], IsFiniteSet(S), IsFiniteSet(R)
  PROVE  SumFunctionOnSet([x \in S |-> SumFunctionOnSet([y \in R |-> f[x, y]], R)], S) =
         SumFunctionOnSet([y \in R |-> SumFunctionOnSet([x \in S |-> f[x, y]], S)], R)
<1> DEFINE row(x) == SumFunctionOnSet([y \in R |-> f[x, y]], R)
           rows == [x \in S |-> row(x)]
           column(T) == [y \in R |-> SumFunctionOnSet([x \in S |-> f[x, y]], T)]
           good == {T \in SUBSET S : SumFunctionOnSet(rows, T) =
                                     SumFunctionOnSet(column(T), R)}
<1>1. \A x \in S : row(x) \in Int
  BY SumType
<1>2. ASSUME NEW T \in SUBSET S
      PROVE  IsFiniteSet(T) /\ Summable(column(T), R)
  BY FS_Subset, SumType DEF Summable
<1>3. {} \in good
  <2>1. \A y \in R : column({})[y] = 0
    BY SumType
  <2> HIDE DEF column
  <2>2. SumFunctionOnSet(column({}), R) = 0
    BY <2>1, SumZeros, SumType, FS_EmptySet DEF Summable
  <2> QED
    BY <2>2, SumType
<1>4. ASSUME NEW T \in SUBSET S, T # {}, \A x \in T : T \ {x} \in good
      PROVE  T \in good
  <2>1. PICK x \in T : TRUE
    BY <1>4
  <2>2. SumFunctionOnSet(rows, T) = row(x) + SumFunctionOnSet(rows, T \ {x})
    <3>1. IsFiniteSet(T) /\ (\A z \in T : rows[z] \in Int) /\ rows[x] = row(x)
      BY <1>1, <1>2
    <3> HIDE DEF rows, row
    <3> QED
      BY <3>1, SumRemove
  <2>3. \A y \in R : column(T)[y] = f[x, y] + column(T \ {x})[y]
    <3> TAKE y \in R
    <3> DEFINE c == [z \in S |-> f[z, y]]
    <3>1. IsFiniteSet(T) /\ (\A z \in T : c[z] \in Int) /\ c[x] = f[x, y]
      BY <1>2
    <3> HIDE DEF c
    <3>2. \A z \in T : SumFunctionOnSet(c, T) = c[z] + SumFunctionOnSet(c, T \ {z})
      BY <3>1, SumRemove
    <3> QED
      BY <3>1, <3>2 DEF c
  <2>4. SumFunctionOnSet(column(T), R) = row(x) + SumFunctionOnSet(column(T \ {x}), R)
    <3> DEFINE r == [y \in R |-> f[x, y]]
    <3>1. Summable(r, R) /\ Summable(column(T \ {x}), R)
      BY <1>2 DEF Summable
    <3>2. \A y \in R : column(T)[y] = r[y] + column(T \ {x})[y]
      BY <2>3
    <3> HIDE DEF column, r
    <3>3. SumFunctionOnSet(column(T), R) =
            SumFunctionOnSet(r, R) + SumFunctionOnSet(column(T \ {x}), R)
      BY <3>1, <3>2, SumPlus
    <3> QED
      BY <3>3 DEF r
  <2>5. SumFunctionOnSet(rows, T \ {x}) = SumFunctionOnSet(column(T \ {x}), R)
    BY <1>4
  <2> QED
    BY <2>2, <2>4, <2>5
<1> HIDE DEF good
<1>5. S \in good
  BY <1>3, <1>4, SubsetInduction
<1>6. SumFunctionOnSet(rows, S) = SumFunctionOnSet(column(S), R)
  BY <1>5 DEF good
<1> QED
  BY <1>6

\* The sum over a single element.
LEMMA SumOne ==
  ASSUME NEW f, NEW x, f[x] \in Int
  PROVE  SumFunctionOnSet(f, {x}) = f[x]
<1> DEFINE one == {x}
           none == one \ {x}
<1>1. IsFiniteSet(one) /\ x \in one /\ (\A y \in one : f[y] \in Int) /\ none = {}
  BY FS_Singleton
<1> HIDE DEF one
<1>2. SumFunctionOnSet(f, one) = f[x] + SumFunctionOnSet(f, none)
  BY <1>1, SumRemove
<1> HIDE DEF none
<1>3. SumFunctionOnSet(f, none) = 0
  BY <1>1, SumType
<1> QED
  BY <1>2, <1>3 DEF one

\* A sum of natural numbers is one, and no smaller than a part of it.
LEMMA SumOfNaturals ==
  ASSUME NEW f, NEW S, IsFiniteSet(S), \A x \in S : f[x] \in Nat
  PROVE  /\ SumFunctionOnSet(f, S) \in Nat
         /\ \A T \in SUBSET S : SumFunctionOnSet(f, T) \in Nat
                                /\ SumFunctionOnSet(f, T) <= SumFunctionOnSet(f, S)
<1> DEFINE good == {T \in SUBSET S : SumFunctionOnSet(f, T) \in Nat}
<1>1. {} \in good
  BY SumType
<1>2. ASSUME NEW T \in SUBSET S, T # {}, \A x \in T : T \ {x} \in good
      PROVE  T \in good
  <2>1. PICK x \in T : TRUE
    BY <1>2
  <2>2. IsFiniteSet(T) /\ \A y \in T : f[y] \in Int
    BY FS_Subset
  <2>3. \A y \in T : SumFunctionOnSet(f, T) = f[y] + SumFunctionOnSet(f, T \ {y})
    BY <2>2, SumRemove
  <2>4. SumFunctionOnSet(f, T \ {x}) \in Nat
    BY <1>2, <2>1
  <2>5. SumFunctionOnSet(f, T) = f[x] + SumFunctionOnSet(f, T \ {x})
    BY <2>1, <2>3
  <2> QED
    BY <2>1, <2>4, <2>5
<1> HIDE DEF good
<1>3. \A T \in SUBSET S : T \in good
  <2> TAKE T \in SUBSET S
  <2>1. IsFiniteSet(T)
    BY FS_Subset
  <2>2. \A R \in SUBSET T : R # {} /\ (\A x \in R : R \ {x} \in good) => R \in good
    BY <1>2
  <2> QED
    BY <1>1, <2>1, <2>2, SubsetInduction
<1>4. ASSUME NEW T \in SUBSET S
      PROVE  SumFunctionOnSet(f, T) <= SumFunctionOnSet(f, S)
  <2> DEFINE rest == S \ T
  <2>1. rest \in SUBSET S /\ T \cup rest = S /\ T \cap rest = {}
        /\ IsFiniteSet(T) /\ IsFiniteSet(rest)
    BY FS_Subset
  <2>2. Summable(f, T) /\ Summable(f, rest)
    BY <2>1 DEF Summable
  <2> HIDE DEF rest
  <2>3. SumFunctionOnSet(f, T \cup rest) = SumFunctionOnSet(f, T) + SumFunctionOnSet(f, rest)
    BY <2>1, <2>2, SumUnion
  <2>4. SumFunctionOnSet(f, T) \in Nat /\ SumFunctionOnSet(f, rest) \in Nat
    BY <1>3, <2>1 DEF good
  <2>5. SumFunctionOnSet(f, T \cup rest) = SumFunctionOnSet(f, S)
    BY <2>1
  <2> QED
    BY <2>3, <2>4, <2>5
<1> QED
  BY <1>3, <1>4 DEF good

\* The sum of a function over its domain.
LEMMA SumOfDomain ==
  ASSUME NEW f, NEW S, DOMAIN f = S
  PROVE  SumFunction(f) = SumFunctionOnSet(f, S)
BY DEF SumFunction

\* A sum of ones is the number of its terms.
LEMMA SumOfOnes ==
  ASSUME NEW f, NEW S, IsFiniteSet(S), \A x \in S : f[x] = 1
  PROVE  SumFunctionOnSet(f, S) = Cardinality(S)
<1> DEFINE good == {T \in SUBSET S : SumFunctionOnSet(f, T) = Cardinality(T)}
<1>1. {} \in good
  BY SumType, FS_EmptySet
<1>2. ASSUME NEW T \in SUBSET S, T # {}, \A x \in T : T \ {x} \in good
      PROVE  T \in good
  <2>1. PICK x \in T : TRUE
    BY <1>2
  <2> DEFINE rest == T \ {x}
  <2>2. IsFiniteSet(T) /\ \A y \in T : f[y] \in Int /\ f[y] = 1
    BY FS_Subset
  <2>3. \A y \in T : SumFunctionOnSet(f, T) = f[y] + SumFunctionOnSet(f, T \ {y})
    BY <2>2, SumRemove
  <2>4. SumFunctionOnSet(f, rest) = Cardinality(rest)
    BY <1>2, <2>1
  <2>5. SumFunctionOnSet(f, T) = 1 + SumFunctionOnSet(f, rest)
    BY <2>1, <2>2, <2>3
  <2>6. Cardinality(rest) = Cardinality(T) - 1 /\ Cardinality(T) \in Nat
    BY <2>1, <2>2, FS_RemoveElement, FS_CardinalityType
  <2> HIDE DEF rest
  <2>7. SumFunctionOnSet(f, T) = Cardinality(T)
    BY <2>4, <2>5, <2>6
  <2> QED
    BY <2>7
<1> HIDE DEF good
<1>3. S \in good
  BY <1>1, <1>2, SubsetInduction
<1> QED
  BY <1>3 DEF good

\* f is a on T and zero on the rest of S.
IsConstantOn(f, S, T, a) ==
  /\ IsFiniteSet(S) /\ T \in SUBSET S /\ a \in Int
  /\ \A x \in T : f[x] = a
  /\ \A x \in S \ T : f[x] = 0

\* Such a sum counts the elements of T.
LEMMA SumCounts ==
  ASSUME NEW f, NEW S, NEW T, NEW a, IsConstantOn(f, S, T, a)
  PROVE  SumFunctionOnSet(f, S) = a * Cardinality(T) /\ IsFiniteSet(T) /\ Cardinality(T) \in Nat
<1> DEFINE one == [x \in T |-> 1]
<1>1. /\ IsFiniteSet(S) /\ T \in SUBSET S /\ a \in Int
      /\ \A x \in T : f[x] = a
      /\ \A x \in S \ T : f[x] = 0
  BY DEF IsConstantOn
<1>2. IsFiniteSet(T) /\ Cardinality(T) \in Nat
  BY <1>1, FS_Subset, FS_CardinalityType
<1>3. \A x \in T : one[x] = 1 /\ one[x] \in Int /\ f[x] = a * one[x] /\ f[x] \in Int
  BY <1>1
<1> HIDE DEF one
<1>4. SumFunctionOnSet(f, S) = SumFunctionOnSet(f, T)
  BY <1>1, <1>2, <1>3, SumZeros DEF Summable
<1>5. SumFunctionOnSet(f, T) = a * SumFunctionOnSet(one, T)
  BY <1>1, <1>2, <1>3, SumScale DEF Summable
<1>6. SumFunctionOnSet(one, T) = Cardinality(T)
  BY <1>2, <1>3, SumOfOnes
<1> QED
  BY <1>2, <1>4, <1>5, <1>6

\* A sum with a single term that may not be zero.
LEMMA SumSingle ==
  ASSUME NEW f, NEW x, NEW S, IsFiniteSet(S), x \in S, f[x] \in Int,
         \A y \in S : y # x => f[y] = 0
  PROVE  SumFunctionOnSet(f, S) = f[x]
<1> DEFINE T == {x}
<1>1. T \in SUBSET S /\ IsFiniteSet(T) /\ (\A y \in T : f[y] \in Int)
      /\ (\A y \in S \ T : f[y] = 0)
  BY FS_Singleton
<1>2. SumFunctionOnSet(f, T) = f[x]
  BY SumOne
<1> HIDE DEF T
<1>3. SumFunctionOnSet(f, S) = SumFunctionOnSet(f, T)
  BY <1>1, SumZeros DEF Summable
<1> QED
  BY <1>2, <1>3

\* m maps S one to one onto image.
Renames(m, S, image) ==
  /\ IsFiniteSet(S)
  /\ \A x, y \in S : m[x] = m[y] => x = y
  /\ \A x \in S : m[x] \in image
  /\ \A z \in image : \E x \in S : m[x] = z

\* Then the two sets have the same size.
LEMMA SameSize ==
  ASSUME NEW m, NEW S, NEW image, Renames(m, S, image)
  PROVE  IsFiniteSet(image) /\ Cardinality(image) = Cardinality(S)
<1> DEFINE f == [x \in S |-> m[x]]
<1>1. f \in Surjection(S, image)
  BY DEF Surjection, Renames
<1>2. f \in Injection(S, image)
  BY DEF Injection, IsInjective, Renames
<1>3. IsFiniteSet(S)
  BY DEF Renames
<1> HIDE DEF f
<1> QED
  BY <1>1, <1>2, <1>3, FS_Surjection

\* A set with one element.
LEMMA OneSlot ==
  ASSUME NEW S, IsFiniteSet(S)
  PROVE  (Cardinality(S) = 1) <=> \E s \in S : S = {s}
<1>1. ASSUME Cardinality(S) = 1 PROVE \E s \in S : S = {s}
  <2>1. PICK s : S = {s}
    BY <1>1, FS_Singleton
  <2> QED
    BY <2>1
<1>2. ASSUME NEW s \in S, S = {s} PROVE Cardinality(S) = 1
  BY <1>2, FS_Singleton
<1> QED
  BY <1>1, <1>2

\* Of finitely many numbers, one is the least and one the greatest.
LEMMA LeastAndGreatest ==
  ASSUME NEW f, NEW S, Summable(f, S), S # {}
  PROVE  /\ \E x \in S : \A y \in S : f[x] <= f[y]
         /\ \E x \in S : \A y \in S : f[x] >= f[y]
<1> DEFINE least(T) == \E x \in T : \A y \in T : f[x] <= f[y]
           greatest(T) == \E x \in T : \A y \in T : f[x] >= f[y]
           good == {T \in SUBSET S : T = {} \/ (least(T) /\ greatest(T))}
<1>1. {} \in good
  OBVIOUS
<1>2. ASSUME NEW T \in SUBSET S, T # {}, \A x \in T : T \ {x} \in good
      PROVE  T \in good
  <2>1. PICK x \in T : TRUE
    BY <1>2
  <2> DEFINE rest == T \ {x}
  <2>2. rest = {} \/ (least(rest) /\ greatest(rest))
    BY <1>2
  <2>3. /\ T = rest \cup {x} /\ rest \in SUBSET S /\ x \in S
        /\ \A y \in T : y = x \/ y \in rest
        /\ \A y \in S : f[y] \in Int
    BY <2>1 DEF Summable
  <2> HIDE DEF rest
  <2>4. CASE rest = {}
    BY <2>3, <2>4
  <2>5. CASE least(rest) /\ greatest(rest)
    <3>1. PICK u \in rest : \A y \in rest : f[u] <= f[y]
      BY <2>5
    <3>2. PICK v \in rest : \A y \in rest : f[v] >= f[y]
      BY <2>5
    <3>3. f[u] \in Int /\ f[v] \in Int /\ f[x] \in Int /\ \A y \in rest : f[y] \in Int
      BY <2>3
    <3>4. least(T)
      <4>1. CASE f[x] <= f[u]
        <5>1. \A y \in T : f[x] <= f[y]
          BY <2>3, <3>1, <3>3, <4>1
        <5> QED
          BY <5>1
      <4>2. CASE f[u] < f[x]
        <5>1. \A y \in T : f[u] <= f[y]
          BY <2>3, <3>1, <3>3, <4>2
        <5> QED
          BY <2>3, <5>1
      <4> QED
        BY <3>3, <4>1, <4>2
    <3>5. greatest(T)
      <4>1. CASE f[x] >= f[v]
        <5>1. \A y \in T : f[x] >= f[y]
          BY <2>3, <3>2, <3>3, <4>1
        <5> QED
          BY <5>1
      <4>2. CASE f[v] > f[x]
        <5>1. \A y \in T : f[v] >= f[y]
          BY <2>3, <3>2, <3>3, <4>2
        <5> QED
          BY <2>3, <5>1
      <4> QED
        BY <3>3, <4>1, <4>2
    <3> QED
      BY <3>4, <3>5
  <2> QED
    BY <2>2, <2>4, <2>5
<1> HIDE DEF good
<1>3. S \in good
  BY <1>1, <1>2, SubsetInduction DEF Summable
<1> QED
  BY <1>3 DEF good

\* Of finitely many numbers one is the greatest, and it is within a bound if and
\* only if all are.
LEMMA GreatestDecides ==
  ASSUME NEW f, NEW S, Summable(f, S), S # {}
  PROVE  (\E x \in S : f[x] <= 0 /\ \A y \in S : f[x] >= f[y]) <=> \A y \in S : f[y] <= 0
<1>1. PICK x \in S : \A y \in S : f[x] >= f[y]
  BY LeastAndGreatest
<1>2. \A y \in S : f[y] \in Int
  BY DEF Summable
<1>3. ASSUME \A y \in S : f[y] <= 0
      PROVE  f[x] <= 0
  BY <1>3
<1>4. ASSUME NEW z \in S, f[z] <= 0, \A y \in S : f[z] >= f[y], NEW y \in S
      PROVE  f[y] <= 0
  <2>1. f[z] >= f[y] /\ f[z] \in Int /\ f[y] \in Int
    BY <1>2, <1>4
  <2> QED
    BY <1>4, <2>1
<1> QED
  BY <1>1, <1>3, <1>4

\* The smallest of finitely many numbers is one of them.
LEMMA SmallestOf ==
  ASSUME NEW f, NEW S, NEW values, Summable(f, S), S # {}, values = {f[x] : x \in S}
  PROVE  Min(values) \in values /\ Min(values) \in Int
<1>1. PICK x \in S : \A y \in S : f[x] <= f[y]
  BY LeastAndGreatest
<1>2. f[x] \in values /\ \A v \in values : f[x] <= v
  BY <1>1
<1>3. Min(values) \in values
  BY <1>2 DEF Min
<1> QED
  BY <1>3 DEF Summable

-----------------------------------------------------------------------------
(* Numbers, and functions defined by recursion over them                   *)

\* The smaller and the larger of two numbers.
LEMMA SmallerAndLarger ==
  ASSUME NEW i \in Int, NEW j \in Int
  PROVE  /\ Min({i, j}) = IF i <= j THEN i ELSE j
         /\ Max({i, j}) = IF i >= j THEN i ELSE j
<1>1. Min({i, j}) \in {i, j} /\ \A x \in {i, j} : Min({i, j}) <= x
  <2>1. \E m \in {i, j} : \A x \in {i, j} : m <= x
    OBVIOUS
  <2> QED
    BY <2>1 DEF Min
<1>2. Max({i, j}) \in {i, j} /\ \A x \in {i, j} : Max({i, j}) >= x
  <2>1. \E m \in {i, j} : \A x \in {i, j} : m >= x
    OBVIOUS
  <2> QED
    BY <2>1 DEF Max
<1> QED
  BY <1>1, <1>2

\* A set of natural numbers that has 0, and with a number the next, has all.
LEMMA NumbersInduction ==
  ASSUME NEW good, 0 \in good, \A n \in Nat : n \in good => n + 1 \in good
  PROVE  \A n \in Nat : n \in good
<1> DEFINE missing == {n \in Nat : n \notin good}
<1> SUFFICES ASSUME missing # {}
             PROVE  FALSE
  OBVIOUS
<1>1. PICK n \in missing : \A m \in missing : ~(<<m, n>> \in OpToRel(<, Nat))
  <2>1. missing \subseteq Nat
    OBVIOUS
  <2> HIDE DEF missing
  <2> QED
    BY <2>1, NatLessThanWellFounded, WFMin
<1>2. n \in Nat /\ n \notin good /\ n # 0
  BY <1>1
<1>3. n - 1 \in Nat /\ (n - 1) + 1 = n /\ <<n - 1, n>> \in OpToRel(<, Nat)
  BY <1>2 DEF OpToRel
<1>4. n - 1 \in good
  BY <1>1, <1>3
<1> QED
  BY <1>2, <1>3, <1>4

\* step maps a number up to n and a state to a state.
IsStep(step, St, n) == \A i \in 1..n : \A s \in St : step[<<i, s>>] \in St

\* A function that is defined by recursion over the numbers up to n exists.
LEMMA Recursion ==
  ASSUME NEW St, NEW start \in St, NEW n \in Nat, NEW step, IsStep(step, St, n)
  PROVE  \E h \in [0..n -> St] : h[0] = start /\ \A i \in 1..n : h[i] = step[<<i, h[i - 1]>>]
<1> DEFINE Begun(m) == \E h \in [0..m -> St] :
                         h[0] = start /\ \A i \in 1..m : h[i] = step[<<i, h[i - 1]>>]
           good == {m \in Nat : m <= n => Begun(m)}
<1> \A i \in 1..n : \A s \in St : step[<<i, s>>] \in St
  BY DEF IsStep
<1>1. Begun(0)
  <2> DEFINE h == [i \in 0..0 |-> start]
  <2>1. h \in [0..0 -> St] /\ h[0] = start /\ \A i \in 1..0 : FALSE
    OBVIOUS
  <2> HIDE DEF h
  <2> QED
    BY <2>1
<1>2. ASSUME NEW m \in Nat, m + 1 <= n, Begun(m)
      PROVE  Begun(m + 1)
  <2>1. PICK h \in [0..m -> St] : h[0] = start /\ \A i \in 1..m : h[i] = step[<<i, h[i - 1]>>]
    BY <1>2
  <2> DEFINE g == [i \in 0..m + 1 |-> IF i <= m THEN h[i] ELSE step[<<m + 1, h[m]>>]]
  <2>2. /\ \A i \in 0..m : g[i] = h[i] /\ h[i] \in St
        /\ g[m + 1] = step[<<m + 1, h[m]>>]
        /\ step[<<m + 1, h[m]>>] \in St
    <3>1. m + 1 \in 1..n /\ m \in 0..m /\ ~(m + 1 <= m) /\ m + 1 \in 0..m + 1
      <4>1. m + 1 <= n
        BY <1>2
      <4> QED
        BY <4>1
    <3>2. \A i \in 0..m : i \in 0..m + 1 /\ i <= m
      OBVIOUS
    <3>3. h[m] \in St
      BY <3>1
    <3>4. step[<<m + 1, h[m]>>] \in St
      BY <3>1, <3>3
    <3> QED
      BY <3>1, <3>2, <3>4
  <2>3. g \in [0..m + 1 -> St]
    <3>1. \A i \in 0..m + 1 : i <= m => i \in 0..m
      OBVIOUS
    <3> QED
      BY <2>2, <3>1
  <2> HIDE DEF g
  <2>4. g[0] = start
    <3>1. 0 \in 0..m
      OBVIOUS
    <3> QED
      BY <2>1, <2>2, <3>1
  <2>5. \A i \in 1..m + 1 : g[i] = step[<<i, g[i - 1]>>]
    <3> TAKE i \in 1..m + 1
    <3>1. CASE i <= m
      <4>1. i \in 1..m /\ i \in 0..m /\ i - 1 \in 0..m
        BY <3>1
      <4> QED
        BY <2>1, <2>2, <4>1
    <3>2. CASE i = m + 1
      <4>1. i - 1 = m /\ m \in 0..m
        BY <3>2
      <4> QED
        BY <2>2, <3>2, <4>1
    <3>3. i <= m \/ i = m + 1
      OBVIOUS
    <3> QED
      BY <3>1, <3>2, <3>3
  <2> QED
    BY <2>3, <2>4, <2>5
<1> HIDE DEF Begun
<1>3. 0 \in good
  BY <1>1
<1>4. ASSUME NEW m \in Nat, m \in good
      PROVE  m + 1 \in good
  <2>1. m + 1 <= n => m <= n
    OBVIOUS
  <2> QED
    BY <1>2, <1>4, <2>1
<1> HIDE DEF good
<1>5. n \in good
  BY <1>3, <1>4, NumbersInduction
<1>6. Begun(n)
  BY <1>5 DEF good
<1> QED
  BY <1>6 DEF Begun

\* Multiplying by a number keeps the order.
LEMMA Larger ==
  ASSUME NEW a \in Nat, NEW b \in Nat, NEW m \in Nat, a <= b
  PROVE  a * m <= b * m /\ a * m \in Nat /\ b * m \in Nat
<1>1. b * m = a * m + (b - a) * m
  OBVIOUS
<1>2. b - a \in Nat
  OBVIOUS
<1>3. (b - a) * m \in Nat /\ a * m \in Nat
  BY <1>2
<1> QED
  BY <1>1, <1>3

\* What integer division leaves fits.
LEMMA Divided ==
  ASSUME NEW a \in Nat, NEW n \in Nat \ {0}
  PROVE  /\ a \div n \in Nat /\ (a \div n) * n <= a
         /\ n <= a => a \div n >= 1
<1>1. a \div n \in Int /\ n * (a \div n) <= a /\ a < n * (a \div n) + n
  OBVIOUS
<1> DEFINE q == a \div n
<1> HIDE DEF q
<1>2. q \in Int /\ n * q <= a /\ a < n * q + n
  BY <1>1 DEF q
<1>3. q \in Nat
  <2> SUFFICES ASSUME q <= -1 PROVE FALSE
    BY <1>2
  <2>1. n * q <= -n
    BY <1>2
  <2> QED
    BY <1>2, <2>1
<1>4. n <= a => q >= 1
  <2> SUFFICES ASSUME n <= a, q = 0 PROVE FALSE
    BY <1>3
  <2> QED
    BY <1>2
<1> QED
  BY <1>2, <1>3, <1>4 DEF q

\* Quotient and remainder tell where an index lies in rows of length R.
LEMMA RowAndColumn ==
  ASSUME NEW T \in Nat, NEW R \in Nat \ {0}, NEW v \in 1..T * R
  PROVE  /\ (v - 1) \div R \in 0..T - 1 /\ (v - 1) % R \in 0..R - 1
         /\ v - 1 = R * ((v - 1) \div R) + ((v - 1) % R)
<1> DEFINE u == v - 1
           a == u \div R
           c == u % R
<1>1. T * R \in Nat
  OBVIOUS
<1>2. u \in Nat /\ u < T * R
  BY <1>1
<1> HIDE DEF u
<1>3. a \in Int /\ c \in 0..R - 1 /\ u = R * a + c
  BY <1>2
<1> HIDE DEF a, c
<1>4. a >= 0
  <2>1. \A x, y \in Int : x <= -1 /\ y \in Nat \ {0} => y * x <= -y
    OBVIOUS
  <2>2. a <= -1 => R * a <= -R
    BY <1>3, <2>1
  <2>3. R * a \in Int
    BY <1>3
  <2> QED
    BY <1>2, <1>3, <2>2, <2>3
<1>5. a < T
  <2>1. \A x, y, z \in Int : x >= y /\ z \in Nat \ {0} => z * x >= z * y
    OBVIOUS
  <2>2. a >= T => R * a >= R * T
    BY <1>3, <2>1
  <2>3. R * a \in Int /\ R * T = T * R
    BY <1>3
  <2> QED
    BY <1>1, <1>2, <1>3, <2>2, <2>3
<1> QED
  BY <1>3, <1>4, <1>5 DEF u, a, c

-----------------------------------------------------------------------------
(* Sequences: first elements, sorting, selecting                           *)

\* The first elements of a sequence.
LEMMA FirstOnes ==
  ASSUME NEW T, NEW s \in Seq(T), NEW n \in 0..Len(s)
  PROVE  /\ SubSeq(s, 1, n) \in Seq(T) /\ Len(SubSeq(s, 1, n)) = n
         /\ \A i \in 1..n : SubSeq(s, 1, n)[i] = s[i]
<1>1. n \in Int /\ 1 \in Int /\ \A i \in 1..n : s[i] \in T
  BY ElementOfSeq
<1> DEFINE one == 1
<1>2. one \in Int /\ one = 1
  OBVIOUS
<1> HIDE DEF one
<1>3. \A i \in one..n : s[i] \in T
  BY <1>1, <1>2
<1>4. /\ SubSeq(s, one, n) \in Seq(T)
      /\ Len(SubSeq(s, one, n)) = IF one <= n THEN n - one + 1 ELSE 0
      /\ \A i \in 1..n - one + 1 : SubSeq(s, one, n)[i] = s[one + i - 1]
  BY <1>1, <1>2, <1>3, SubSeqProperties
<1> QED
  BY <1>1, <1>2, <1>4

\* The first elements of a sequence, on their own.
LEMMA PrefixIs ==
  ASSUME NEW T, NEW s \in Seq(T), NEW n \in 0..Len(s)
  PROVE  LET r == SubSeq(s, 1, n)
         IN  r \in Seq(ToSet(r)) /\ Len(r) = n /\ ToSet(r) \subseteq T /\ (n > 0 => r # <<>>)
<1> DEFINE r == SubSeq(s, 1, n)
<1>1. r \in Seq(T) /\ Len(r) = n
  BY FirstOnes
<1> HIDE DEF r
<1>2. r \in Seq(ToSet(r))
  BY <1>1, SeqOfRange DEF Range, ToSet
<1>3. ToSet(r) \subseteq T
  BY <1>1, ElementOfSeq, LenProperties DEF ToSet
<1>4. n > 0 => r # <<>>
  <2>1. Len(<<>>) = 0
    BY EmptySeq
  <2> QED
    BY <1>1, <2>1
<1> QED
  BY <1>1, <1>2, <1>3, <1>4 DEF r

\* What appending an element does to the elements of a sequence.
LEMMA AppendSet ==
  ASSUME NEW T, NEW s \in Seq(T), NEW x \in T
  PROVE  /\ ToSet(Append(s, x)) = ToSet(s) \cup {x} /\ Append(s, x) # <<>>
         /\ Len(Append(s, x)) = Len(s) + 1 /\ Len(s) \in Nat
<1> DEFINE r == Append(s, x)
           n == Len(s)
<1>1. /\ r \in Seq(T) /\ Len(r) = n + 1 /\ n \in Nat /\ r # <<>>
      /\ \A i \in 1..n : r[i] = s[i]
      /\ r[n + 1] = x
  BY AppendProperties, LenProperties
<1>2. DOMAIN r = 1..n + 1 /\ DOMAIN s = 1..n
  BY <1>1, LenProperties
<1> HIDE DEF r, n
<1>3. \A i \in 1..n + 1 : i \in 1..n \/ i = n + 1
  BY <1>1
<1>4. \A i \in 1..n : i \in 1..n + 1
  BY <1>1
<1>5. n + 1 \in 1..n + 1
  BY <1>1
<1>6. ToSet(r) = ToSet(s) \cup {x}
  BY <1>1, <1>2, <1>3, <1>4, <1>5 DEF ToSet
<1> QED
  BY <1>1, <1>6 DEF r, n

\* A sequence has finitely many elements.
LEMMA ElementsFinite ==
  ASSUME NEW T, NEW s \in Seq(T)
  PROVE  IsFiniteSet(ToSet(s)) /\ IsFiniteSet(DOMAIN s)
<1>1. Len(s) \in Nat /\ DOMAIN s = 1..Len(s)
  BY LenProperties
<1>2. IsFiniteSet(DOMAIN s)
  BY <1>1, FS_Interval
<1>3. s \in Surjection(DOMAIN s, ToSet(s))
  <2>1. s \in [DOMAIN s -> ToSet(s)]
    BY LenProperties DEF ToSet
  <2>2. \A x \in ToSet(s) : \E i \in DOMAIN s : s[i] = x
    BY DEF ToSet
  <2> QED
    BY <2>1, <2>2 DEF Surjection
<1> QED
  BY <1>2, <1>3, FS_Surjection

\* The places of N before place i when places are ordered by B and, where B does
\* not decide, by position.
Preceding(B, N, i) ==
  {j \in N : <<j, i>> \in B \/ (<<i, j>> \notin B /\ j < i)}

\* B is a strict order in which undecided elements form classes.
IsWeakOrder(B, N) ==
  /\ \A i, j \in N : ~(<<i, j>> \in B /\ <<j, i>> \in B)
  /\ \A i, j, k \in N : <<i, j>> \notin B /\ <<j, k>> \notin B => <<i, k>> \notin B

\* Every place has a rank of its own, and every rank a place.
LEMMA RanksAre ==
  ASSUME NEW N, IsFiniteSet(N), N \subseteq Int, NEW B, IsWeakOrder(B, N)
  PROVE  \E rank \in Bijection(N, 0..Cardinality(N) - 1) :
           \A i \in N : rank[i] = Cardinality(Preceding(B, N, i))
<1> DEFINE n == Cardinality(N)
           before(i) == Preceding(B, N, i)
           rank == [i \in N |-> Cardinality(before(i))]
<1>1. n \in Nat /\ IsFiniteSet(0..n - 1) /\ Cardinality(0..n - 1) = n
  <2>1. n \in Nat
    BY FS_CardinalityType
  <2>2. 0 \in Int /\ n - 1 \in Int /\ (n - 1) - 0 + 1 = n /\ (0 > n - 1 => n = 0)
    BY <2>1
  <2>3. IsFiniteSet(0..n - 1)
        /\ Cardinality(0..n - 1) = IF 0 > n - 1 THEN 0 ELSE (n - 1) - 0 + 1
    BY <2>2, FS_Interval
  <2> QED
    BY <2>1, <2>2, <2>3
<1>2. ASSUME NEW i \in N
      PROVE  /\ IsFiniteSet(before(i)) /\ rank[i] = Cardinality(before(i))
             /\ rank[i] \in 0..n - 1
  <2>1. before(i) \subseteq N /\ before(i) # N
    <3>1. i \notin before(i)
      BY DEF Preceding, IsWeakOrder
    <3> QED
      BY <3>1 DEF Preceding
  <2>2. IsFiniteSet(before(i)) /\ Cardinality(before(i)) <= n /\ Cardinality(before(i)) # n
    BY <1>1, <2>1, FS_Subset
  <2> QED
    BY <2>2, FS_CardinalityType
<1>3. ASSUME NEW i \in N, NEW j \in N, j \in before(i)
      PROVE  rank[j] < rank[i]
  <2>1. before(j) \subseteq before(i)
    <3> SUFFICES ASSUME NEW k \in before(j)
                 PROVE  k \in before(i)
      OBVIOUS
    <3>1. i \in Int /\ j \in Int /\ k \in N /\ k \in Int
      BY DEF Preceding
    <3>2. <<k, j>> \in B \/ (<<j, k>> \notin B /\ k < j)
      BY DEF Preceding
    <3>3. <<j, i>> \in B \/ (<<i, j>> \notin B /\ j < i)
      BY <1>3 DEF Preceding
    <3>4. <<k, i>> \in B \/ (<<i, k>> \notin B /\ k < i)
      BY <3>1, <3>2, <3>3 DEF IsWeakOrder
    <3> QED
      BY <3>1, <3>4 DEF Preceding
  <2>2. j \notin before(j)
    BY DEF Preceding, IsWeakOrder
  <2>3. Cardinality(before(j)) <= Cardinality(before(i))
        /\ Cardinality(before(j)) # Cardinality(before(i))
    BY <1>2, <1>3, <2>1, <2>2, FS_Subset
  <2> QED
    BY <1>2, <2>3
<1>4. ASSUME NEW i \in N, NEW j \in N, i # j
      PROVE  rank[i] # rank[j]
  <2>1. i \in before(j) \/ j \in before(i)
    BY <1>4 DEF Preceding, IsWeakOrder
  <2> QED
    BY <1>2, <1>3, <2>1
<1>5. rank \in Injection(N, 0..n - 1)
  BY <1>2, <1>4 DEF Injection, IsInjective
<1>6. rank \in Surjection(N, 0..n - 1)
  BY <1>1, <1>5, FS_Injection
<1>7. rank \in Bijection(N, 0..n - 1)
  BY <1>5, <1>6 DEF Bijection
<1> QED
  BY <1>2, <1>7

\* s in the order B.
SortedBy(s, B) ==
  [k \in 1..Len(s) |->
    s[CHOOSE i \in 1..Len(s) : Cardinality(Preceding(B, 1..Len(s), i)) = k - 1]]

\* The sequence r has the elements of s, in some order.
Permutes(r, s) == r \in Seq(ToSet(s)) /\ Len(r) = Len(s) /\ ToSet(r) = ToSet(s)

\* Sorting keeps the elements of a sequence.
LEMMA SortingPermutes ==
  ASSUME NEW T, NEW s \in Seq(T), NEW B, IsWeakOrder(B, 1..Len(s))
  PROVE  Permutes(SortedBy(s, B), s)
<1> DEFINE n == Len(s)
           r == SortedBy(s, B)
           at(k) == CHOOSE i \in 1..n : Cardinality(Preceding(B, 1..n, i)) = k - 1
<1>1. n \in Nat /\ DOMAIN s = 1..n
  OBVIOUS
<1>2. PICK rank \in Bijection(1..n, 0..n - 1) :
        \A i \in 1..n : rank[i] = Cardinality(Preceding(B, 1..n, i))
  <2> DEFINE N == 1..n
  <2>1. IsFiniteSet(N) /\ N \subseteq Int /\ Cardinality(N) = n /\ IsWeakOrder(B, N)
    BY <1>1, FS_Interval
  <2> HIDE DEF N
  <2>2. \E rank \in Bijection(N, 0..n - 1) :
          \A i \in N : rank[i] = Cardinality(Preceding(B, N, i))
    BY <2>1, RanksAre
  <2> QED
    BY <2>2 DEF N
<1>3. ASSUME NEW k \in 1..n
      PROVE  at(k) \in 1..n /\ rank[at(k)] = k - 1 /\ r[k] = s[at(k)]
  <2>1. \E i \in 1..n : rank[i] = k - 1
    BY <1>1, <1>2 DEF Bijection, Surjection
  <2>2. \E i \in 1..n : Cardinality(Preceding(B, 1..n, i)) = k - 1
    BY <1>2, <2>1
  <2>3. at(k) \in 1..n /\ Cardinality(Preceding(B, 1..n, at(k))) = k - 1
    BY <2>2
  <2> QED
    BY <1>2, <2>3 DEF SortedBy
<1>4. ASSUME NEW i \in 1..n
      PROVE  \E k \in 1..n : r[k] = s[i]
  <2>1. rank[i] + 1 \in 1..n /\ (rank[i] + 1) - 1 = rank[i]
    BY <1>1, <1>2 DEF Bijection, Injection
  <2>2. rank[at(rank[i] + 1)] = rank[i]
    BY <1>3, <2>1
  <2>3. at(rank[i] + 1) = i
    BY <1>2, <1>3, <2>1, <2>2 DEF Bijection, Injection, IsInjective
  <2> QED
    BY <1>3, <2>1, <2>3
<1>5. r \in [1..n -> ToSet(s)]
  BY <1>1, <1>3 DEF SortedBy, ToSet
<1>6. r \in Seq(ToSet(s)) /\ Len(r) = n /\ DOMAIN r = 1..n
  BY <1>1, <1>5
<1>7. ToSet(r) = ToSet(s)
  <2>1. \A x \in ToSet(s) : x \in ToSet(r)
    <3> TAKE x \in ToSet(s)
    <3>1. PICK i \in 1..n : x = s[i]
      BY <1>1 DEF ToSet
    <3> HIDE DEF r
    <3> QED
      BY <1>4, <1>6, <3>1 DEF ToSet
  <2>2. \A x \in ToSet(r) : x \in ToSet(s)
    <3> TAKE x \in ToSet(r)
    <3>1. PICK k \in 1..n : x = r[k]
      BY <1>6 DEF ToSet
    <3> HIDE DEF r, at
    <3> QED
      BY <1>1, <1>3, <3>1 DEF ToSet
  <2> QED
    BY <2>1, <2>2
<1> QED
  BY <1>6, <1>7 DEF Permutes

\* A sequence has the elements of s at the places kept, in whatever order.
KeepsOnly(r, s, kept) ==
  /\ r \in Seq(ToSet(s)) /\ Len(r) = Cardinality(kept)
  /\ \A k \in 1..Len(r) : \E i \in kept : r[k] = s[i]
  /\ \A i \in kept : \E k \in 1..Len(r) : r[k] = s[i]
  /\ \A k, l \in 1..Len(r) : k # l => \E i, j \in kept : i # j /\ r[k] = s[i] /\ r[l] = s[j]

\* Kept does.
LEMMA KeptIs ==
  ASSUME NEW T, NEW s \in Seq(T), NEW kept \in SUBSET (DOMAIN s)
  PROVE  KeepsOnly(Kept(s, kept), s, kept)
<1> DEFINE n == Cardinality(kept)
           r == Kept(s, kept)
           at(k) == CHOOSE i \in kept : Cardinality(Preceding({}, kept, i)) = k - 1
<1>1. DOMAIN s = 1..Len(s) /\ Len(s) \in Nat /\ IsFiniteSet(kept) /\ n \in Nat /\ kept \subseteq Int
  <2>1. DOMAIN s = 1..Len(s) /\ Len(s) \in Nat
    OBVIOUS
  <2>2. IsFiniteSet(DOMAIN s) /\ kept \subseteq Int
    BY <2>1, FS_Interval
  <2> QED
    BY <2>1, <2>2, FS_Subset, FS_CardinalityType
<1>2. PICK rank \in Bijection(kept, 0..n - 1) :
        \A i \in kept : rank[i] = Cardinality(Preceding({}, kept, i))
  <2>1. IsWeakOrder({}, kept)
    BY DEF IsWeakOrder
  <2> QED
    BY <1>1, <2>1, RanksAre
<1>3. r = [k \in 1..n |-> s[at(k)]]
  <2>1. \A i \in kept : {j \in kept : j < i} = Preceding({}, kept, i)
    BY DEF Preceding
  <2> DEFINE place(k) == CHOOSE i \in kept : Cardinality({j \in kept : j < i}) = k - 1
  <2>2. \A k \in 1..n : place(k) = at(k)
    BY <2>1
  <2>3. r = [k \in 1..n |-> s[place(k)]]
    BY DEF Kept
  <2> HIDE DEF r, at, place
  <2> QED
    BY <2>2, <2>3
<1>4. ASSUME NEW k \in 1..n
      PROVE  at(k) \in kept /\ rank[at(k)] = k - 1 /\ r[k] = s[at(k)]
  <2>1. \E i \in kept : rank[i] = k - 1
    <3>1. k - 1 \in 0..n - 1
      BY <1>1
    <3> QED
      BY <1>2, <3>1 DEF Bijection, Surjection
  <2>2. \E i \in kept : Cardinality(Preceding({}, kept, i)) = k - 1
    BY <1>2, <2>1
  <2>3. at(k) \in kept /\ Cardinality(Preceding({}, kept, at(k))) = k - 1
    BY <2>2
  <2> HIDE DEF at, r
  <2> QED
    BY <1>2, <1>3, <2>3
<1>5. ASSUME NEW i \in kept
      PROVE  \E k \in 1..n : r[k] = s[i]
  <2>1. rank[i] + 1 \in 1..n /\ (rank[i] + 1) - 1 = rank[i]
    BY <1>1, <1>2 DEF Bijection, Injection
  <2>2. rank[at(rank[i] + 1)] = rank[i]
    BY <1>4, <2>1
  <2>3. at(rank[i] + 1) = i
    BY <1>2, <1>4, <2>1, <2>2 DEF Bijection, Injection, IsInjective
  <2> QED
    BY <1>4, <2>1, <2>3
<1> HIDE DEF at, r
<1>6. \A k, l \in 1..n : k # l => at(k) # at(l)
  BY <1>4
<1>7. r \in [1..n -> ToSet(s)]
  BY <1>1, <1>3, <1>4 DEF ToSet
<1>8. r \in Seq(ToSet(s)) /\ Len(r) = n /\ DOMAIN r = 1..n
  BY <1>1, <1>7
<1>9. KeepsOnly(r, s, kept)
  BY <1>4, <1>5, <1>6, <1>8 DEF KeepsOnly
<1> QED
  BY <1>9 DEF r

-----------------------------------------------------------------------------
(* Energies                                                                *)

\* The key of Q that stands for the variables i and j.
Pair(i, j) == IF i <= j THEN <<i, j>> ELSE <<j, i>>

\* The keys of Q for two variables of V.
Within(V) == {p \in V \X V : p[1] <= p[2]}

\* There are finitely many variables and keys.
LEMMA PairsFinite ==
  ASSUME NEW n \in Nat
  PROVE  /\ IsFiniteSet(1..n) /\ IsFiniteSet(Pairs(n)) /\ Pairs(n) = Within(1..n)
         /\ \A V \in SUBSET (1..n) : IsFiniteSet(V) /\ Within(V) \subseteq Pairs(n)
                                     /\ IsFiniteSet(Within(V))
<1>1. IsFiniteSet(1..n) /\ IsFiniteSet((1..n) \X (1..n))
  <2>1. IsFiniteSet(1..n)
    BY FS_Interval
  <2> QED
    BY <2>1, FS_Product
<1>2. Pairs(n) = Within(1..n) /\ Pairs(n) \subseteq (1..n) \X (1..n)
  BY DEF Pairs, Within
<1>3. ASSUME NEW V \in SUBSET (1..n)
      PROVE  Within(V) \subseteq Pairs(n) /\ Within(V) \subseteq (1..n) \X (1..n)
  BY DEF Pairs, Within
<1> QED
  BY <1>1, <1>2, <1>3, FS_Subset

\* The parts of a key.
LEMMA PairsIn ==
  ASSUME NEW n, NEW p \in Pairs(n)
  PROVE  p[1] \in 1..n /\ p[2] \in 1..n
BY DEF Pairs

\* The annealer looks up the coupling of i and j under their key.
LEMMA CouplingPair ==
  ASSUME NEW i \in Int, NEW j \in Int
  PROVE  <<Min({i, j}), Max({i, j})>> = Pair(i, j)
<1>1. Min({i, j}) \in {i, j} /\ \A x \in {i, j} : Min({i, j}) <= x
  <2>1. \E m \in {i, j} : \A x \in {i, j} : m <= x
    OBVIOUS
  <2> QED
    BY <2>1 DEF Min
<1>2. Max({i, j}) \in {i, j} /\ \A x \in {i, j} : Max({i, j}) >= x
  <2>1. \E m \in {i, j} : \A x \in {i, j} : m >= x
    OBVIOUS
  <2> QED
    BY <2>1 DEF Max
<1> QED
  BY <1>1, <1>2 DEF Pair

\* For the pairs within V, f has integers, and g[j] is that for x and j.
IsStar(f, g, n, V, x, rest) ==
  /\ n \in Nat /\ V \in SUBSET (1..n) /\ x \in V /\ rest = V \ {x}
  /\ \A p \in Pairs(n) : f[p] \in Int
  /\ \A j \in rest : g[j] = f[Pair(x, j)]

\* A sum over pairs, by the pairs that have a part x and those that have not.
LEMMA SumStar ==
  ASSUME NEW f, NEW g, NEW n, NEW V, NEW x, NEW rest, IsStar(f, g, n, V, x, rest)
  PROVE  SumFunctionOnSet(f, Within(V)) =
           SumFunctionOnSet(f, Within(rest)) + f[<<x, x>>] + SumFunctionOnSet(g, rest)
<1> DEFINE star == [j \in rest |-> Pair(x, j)]
           rays == {star[j] : j \in rest}
<1>1. /\ n \in Nat /\ V \in SUBSET (1..n) /\ x \in V /\ rest = V \ {x}
      /\ \A p \in Pairs(n) : f[p] \in Int
      /\ \A j \in rest : g[j] = f[Pair(x, j)]
  BY DEF IsStar
<1>2. x \in Int /\ (\A j \in V : j \in Int) /\ rest = V \ {x} /\ rest \in SUBSET (1..n)
  BY <1>1
<1>3. \A j \in rest : star[j] = Pair(x, j) /\ Pair(x, j) \in Within(V)
  BY <1>1, <1>2 DEF Pair, Within
<1>4. \A i, j \in rest : star[i] = star[j] => i = j
  BY <1>2, <1>3 DEF Pair
<1>5. Within(V) = (Within(rest) \cup {<<x, x>>}) \cup rays
  <2>1. \A p \in Within(V) : p \in Within(rest) \/ p = <<x, x>> \/ p \in rays
    <3> TAKE p \in Within(V)
    <3>1. p = <<p[1], p[2]>> /\ p[1] \in V /\ p[2] \in V /\ p[1] <= p[2]
      BY DEF Within
    <3>2. CASE p[1] # x /\ p[2] # x
      BY <1>2, <3>1, <3>2 DEF Within
    <3>3. CASE p[1] = x /\ p[2] # x
      BY <1>2, <1>3, <3>1, <3>3 DEF Pair
    <3>4. CASE p[1] # x /\ p[2] = x
      <4>1. ~(x <= p[1])
        BY <1>2, <3>1, <3>4
      <4>2. p = star[p[1]]
        BY <1>2, <1>3, <3>1, <3>4, <4>1 DEF Pair
      <4> QED
        BY <1>2, <3>1, <3>4, <4>2
    <3>5. CASE p[1] = x /\ p[2] = x
      BY <3>1, <3>5
    <3> QED
      BY <3>2, <3>3, <3>4, <3>5
  <2>2. Within(rest) \subseteq Within(V) /\ <<x, x>> \in Within(V) /\ rays \subseteq Within(V)
    BY <1>1, <1>2, <1>3 DEF Within
  <2> HIDE DEF rays
  <2> QED
    BY <2>1, <2>2
<1>6. (Within(rest) \cup {<<x, x>>}) \cap rays = {} /\ Within(rest) \cap {<<x, x>>} = {}
  BY <1>1, <1>2, <1>3 DEF Within, Pair
<1>7. IsFiniteSet(Within(V)) /\ Within(V) \subseteq Pairs(n) /\ IsFiniteSet(rest)
  BY <1>1, <1>2, PairsFinite
<1>8. \A j \in rest : f[star[j]] \in Int /\ g[j] = f[star[j]]
  BY <1>1, <1>3, <1>7
<1> HIDE DEF rays, star
<1>9. SumFunctionOnSet(f, rays) = SumFunctionOnSet(g, rest)
  BY <1>4, <1>7, <1>8, SumRenamed DEF rays
<1>10. /\ Summable(f, Within(rest)) /\ Summable(f, {<<x, x>>}) /\ Summable(f, rays)
       /\ Summable(f, Within(rest) \cup {<<x, x>>})
  BY <1>1, <1>5, <1>7, FS_Subset DEF Summable
<1>11. SumFunctionOnSet(f, {<<x, x>>}) = f[<<x, x>>] /\ f[<<x, x>>] \in Int
  <2>1. {<<x, x>>} \ {<<x, x>>} = {}
    OBVIOUS
  <2>2. f[<<x, x>>] \in Int
    BY <1>10 DEF Summable
  <2>3. SumFunctionOnSet(f, {<<x, x>>}) = f[<<x, x>>] + SumFunctionOnSet(f, {})
    BY <1>10, <2>1, SumRemove DEF Summable
  <2> QED
    BY <2>2, <2>3, SumType
<1>12. SumFunctionOnSet(f, Within(V)) =
         SumFunctionOnSet(f, Within(rest) \cup {<<x, x>>}) + SumFunctionOnSet(f, rays)
  BY <1>5, <1>6, <1>10, SumUnion
<1>13. SumFunctionOnSet(f, Within(rest) \cup {<<x, x>>}) =
         SumFunctionOnSet(f, Within(rest)) + f[<<x, x>>]
  BY <1>6, <1>10, <1>11, SumUnion
<1> QED
  BY <1>9, <1>12, <1>13

\* The terms of an energy, by the keys of Q.
Terms(q, b) == [p \in Pairs(q.n) |-> q.Q[p] * b[p[1]] * b[p[2]]]

\* Bits are numbers, and their own squares.
LEMMA BitsAre ==
  ASSUME NEW n \in Nat, NEW b \in Bits(n), NEW i \in 1..n
  PROVE  b[i] \in Int /\ b[i] \in {0, 1} /\ b[i] * b[i] = b[i]
BY DEF Bits

\* An energy is the sum of integer terms and the offset, and an integer.
LEMMA TermsAre ==
  ASSUME NEW q, IsQubo(q), NEW b \in Bits(q.n)
  PROVE  /\ \A p \in Pairs(q.n) : Terms(q, b)[p] \in Int
         /\ Summable(Terms(q, b), Pairs(q.n))
         /\ Energy(q, b) = q.offset + SumFunctionOnSet(Terms(q, b), Pairs(q.n))
         /\ Energy(q, b) \in Int
<1>1. ASSUME NEW p \in Pairs(q.n)
      PROVE  Terms(q, b)[p] \in Int
  <2>1. p[1] \in 1..q.n /\ p[2] \in 1..q.n /\ q.Q[p] \in Int
    BY DEF Pairs, IsQubo
  <2>2. b[p[1]] \in Int /\ b[p[2]] \in Int
    BY <2>1, BitsAre DEF IsQubo
  <2> QED
    BY <2>1, <2>2 DEF Terms
<1>2. Summable(Terms(q, b), Pairs(q.n))
  BY <1>1, PairsFinite DEF Summable, IsQubo
<1>3. Energy(q, b) = q.offset + SumFunctionOnSet(Terms(q, b), Pairs(q.n))
  BY DEF Energy, Terms, SumFunction
<1> QED
  BY <1>1, <1>2, <1>3, SumType DEF Summable, IsQubo

\* The encoding of a degenerate instance.
LEMMA NoneIsQubo == IsQubo(NoEncoding)
<1>1. NoEncoding.n = 0 /\ NoEncoding.Q = <<>> /\ NoEncoding.offset = 0
  BY DEF NoEncoding, Encoding
<1>2. Pairs(0) = {}
  BY DEF Pairs
<1>3. <<>> \in [{} -> Int]
  OBVIOUS
<1> QED
  BY <1>1, <1>2, <1>3 DEF IsQubo

\* Bits of at least one variable are not the empty sequence.
LEMMA BitsAreSome ==
  ASSUME NEW n \in Nat, n > 0, NEW b \in Bits(n)
  PROVE  b # <<>>
<1>1. DOMAIN b = 1..n /\ 1 \in 1..n
  BY DEF Bits
<1>2. DOMAIN <<>> = {}
  OBVIOUS
<1> QED
  BY <1>1, <1>2

\* There are finitely many bit strings.
LEMMA BitsFinite ==
  ASSUME NEW n \in Nat
  PROVE  IsFiniteSet(Bits(n)) /\ Bits(n) # {}
<1> DEFINE N == 1..n
           m == [V \in SUBSET N |-> [i \in N |-> IF i \in V THEN 1 ELSE 0]]
<1>1. IsFiniteSet(SUBSET N)
  <2>1. IsFiniteSet(N)
    BY PairsFinite
  <2> HIDE DEF N
  <2> QED
    BY <2>1, FS_SUBSET
<1>2. m \in Surjection(SUBSET N, Bits(n))
  <2>1. m \in [SUBSET N -> Bits(n)]
    BY DEF Bits
  <2>2. ASSUME NEW b \in Bits(n)
        PROVE  \E V \in SUBSET N : m[V] = b
    <3> DEFINE V == {i \in N : b[i] = 1}
    <3>1. b \in [N -> {0, 1}] /\ V \in SUBSET N
      BY DEF Bits
    <3>2. m[V] = [i \in N |-> IF i \in V THEN 1 ELSE 0]
      BY <3>1
    <3>3. m[V] = b
      BY <3>1, <3>2
    <3> QED
      BY <3>1, <3>3
  <2> QED
    BY <2>1, <2>2 DEF Surjection
<1>3. IsFiniteSet(Bits(n))
  <2> HIDE DEF N, m
  <2> QED
    BY <1>1, <1>2, FS_Surjection
<1>4. [i \in N |-> 0] \in Bits(n)
  BY DEF Bits
<1> QED
  BY <1>3, <1>4

\* The number that a bit string stands for is one.
LEMMA MaskType ==
  ASSUME NEW n \in Nat, NEW b \in Bits(n)
  PROVE  Mask(b) \in Int
<1> DEFINE f == [i \in 1..n |-> b[i] * 2^(i - 1)]
<1>1. DOMAIN b = 1..n /\ \A i \in 1..n : b[i] \in Int
  BY DEF Bits
<1>2. ASSUME NEW i \in 1..n PROVE f[i] \in Int
  <2>1. i - 1 \in Nat
    OBVIOUS
  <2>2. 2^(i - 1) \in Int
    BY <2>1
  <2> QED
    BY <1>1, <2>2
<1>3. IsFiniteSet(1..n)
  BY PairsFinite
<1>4. Mask(b) = SumFunctionOnSet(f, 1..n)
  <2>1. Mask(b) = SumFunction(f)
    BY <1>1 DEF Mask
  <2> QED
    BY <2>1, SumOfDomain
<1> HIDE DEF f
<1> QED
  BY <1>2, <1>3, <1>4, SumType

\* brute_force_qubo returns a bit string of the least energy, the first of them.
LEMMA GroundIsLeast ==
  ASSUME NEW q, IsQubo(q)
  PROVE  /\ BruteForce(q) \in Bits(q.n)
         /\ \A a \in Bits(q.n) : Energy(q, BruteForce(q)) <= Energy(q, a)
<1> DEFINE all == Bits(q.n)
           E == [b \in all |-> Energy(q, b)]
           minima == {b \in all : \A a \in all : E[b] <= E[a]}
           masks == [b \in minima |-> Mask(b)]
           ground == CHOOSE b \in minima : \A a \in minima : Mask(b) <= Mask(a)
<1>1. q.n \in Nat
  BY DEF IsQubo
<1>2. IsFiniteSet(all) /\ all # {}
  BY <1>1, BitsFinite
<1>3. BruteForce(q) = ground
  BY DEF BruteForce
<1>4. \A b \in all : E[b] = Energy(q, b) /\ E[b] \in Int
  BY TermsAre
<1>5. \E b \in all : \A a \in all : E[b] <= E[a]
  <2> HIDE DEF E, all
  <2>1. Summable(E, all)
    BY <1>2, <1>4 DEF Summable
  <2> QED
    BY <1>2, <2>1, LeastAndGreatest
<1>6. minima # {} /\ minima \in SUBSET all
  BY <1>5
<1>7. \E b \in minima : \A a \in minima : Mask(b) <= Mask(a)
  <2> HIDE DEF minima, all
  <2>1. \A b \in minima : masks[b] = Mask(b) /\ masks[b] \in Int
    <3>1. \A b \in minima : Mask(b) \in Int
      BY <1>1, <1>6, MaskType DEF all
    <3> QED
      BY <3>1
  <2>2. IsFiniteSet(minima)
    BY <1>2, <1>6, FS_Subset
  <2> HIDE DEF masks
  <2>3. Summable(masks, minima)
    BY <2>1, <2>2 DEF Summable
  <2>4. \E b \in minima : \A a \in minima : masks[b] <= masks[a]
    BY <1>6, <2>3, LeastAndGreatest
  <2> QED
    BY <2>1, <2>4
<1>8. ground \in minima
  <2> HIDE DEF minima
  <2> QED
    BY <1>7
<1> HIDE DEF ground
<1>9. ground \in all /\ \A a \in all : E[ground] <= E[a]
  BY <1>8
<1> HIDE DEF E
<1> QED
  BY <1>3, <1>4, <1>9

-----------------------------------------------------------------------------
(* The Ising form                                                          *)

\* The spins of bits are numbers.
LEMMA SpinsAre ==
  ASSUME NEW n \in Nat, NEW b \in Bits(n)
  PROVE  /\ DOMAIN b = 1..n
         /\ \A i \in 1..n : Spins(b)[i] = 1 - 2 * b[i] /\ Spins(b)[i] \in Int
BY DEF Bits, Spins

\* The keys for two different variables.
Off(n) == {p \in Pairs(n) : p[1] # p[2]}

\* Those of them that variable i is part of.
OffWith(n, i) == {p \in Pairs(n) : i \in {p[1], p[2]} /\ p[1] # p[2]}

\* What the coefficient under key p contributes to the field of variable i, for spins z.
FieldShare(q, z, i, p) ==
  IF p[1] = p[2] THEN IF p[1] = i THEN 2 * q.Q[p] * z[i] ELSE 0
  ELSE IF i \in {p[1], p[2]} THEN q.Q[p] * z[i] ELSE 0

\* Key by key, the contributions come to the term of the field of variable i.
LEMMA FieldOf ==
  ASSUME NEW q, IsQubo(q), NEW z \in [1..q.n -> Int], NEW i \in 1..q.n
  PROVE  /\ Ising(q).h[i] \in Int
         /\ SumFunctionOnSet([p \in Pairs(q.n) |-> FieldShare(q, z, i, p)], Pairs(q.n)) =
              -(Ising(q).h[i] * z[i])
<1> DEFINE n == q.n
           f == [p \in Pairs(n) |-> FieldShare(q, z, i, p)]
           with == OffWith(n, i)
           all == Pairs(n)
           one == {<<i, i>>}
           some == one \cup with
<1>1. /\ n \in Nat /\ IsFiniteSet(all) /\ i \in Int /\ z[i] \in Int
      /\ \A p \in all : q.Q[p] \in Int /\ p \in (1..n) \X (1..n)
  BY PairsFinite DEF IsQubo, Pairs
<1>2. <<i, i>> \in all /\ with \in SUBSET all /\ one \cap with = {} /\ some \in SUBSET all
  BY <1>1 DEF Pairs, OffWith
<1>3. IsFiniteSet(with) /\ IsFiniteSet(some) /\ IsFiniteSet(one)
  BY <1>1, <1>2, FS_Subset
<1>4. \A p \in all : f[p] \in Int
  BY <1>1 DEF FieldShare
<1>5. \A p \in all \ some : f[p] = 0
  <2> TAKE p \in all \ some
  <2>1. p = <<p[1], p[2]>>
    BY <1>1
  <2>2. ~(p[1] = i /\ p[2] = i)
    BY <2>1
  <2>3. p[1] # p[2] => i \notin {p[1], p[2]}
    BY DEF OffWith
  <2> QED
    BY <2>2, <2>3 DEF FieldShare
<1>6. f[<<i, i>>] = 2 * q.Q[<<i, i>>] * z[i]
  BY <1>2 DEF FieldShare
<1>7. \A p \in with : f[p] = z[i] * q.Q[p]
  BY <1>1, <1>2 DEF FieldShare, OffWith
<1> DEFINE links == SumFunctionOnSet(q.Q, with)
<1>8. Ising(q).h[i] = -2 * q.Q[<<i, i>>] - links
  BY DEF Ising, OffWith
<1>9. Summable(q.Q, with) /\ Summable(f, with) /\ Summable(f, one) /\ Summable(f, some)
  BY <1>1, <1>2, <1>3, <1>4 DEF Summable
<1> HIDE DEF f, with, all, one, some
<1>10. SumFunctionOnSet(f, all) = SumFunctionOnSet(f, some)
  BY <1>1, <1>2, <1>5, <1>9, SumZeros
<1>11. SumFunctionOnSet(f, some) = SumFunctionOnSet(f, one) + SumFunctionOnSet(f, with)
  BY <1>2, <1>9, SumUnion DEF some
<1>12. SumFunctionOnSet(f, one) = f[<<i, i>>]
  BY <1>2, <1>4, SumOne DEF one
<1>13. SumFunctionOnSet(f, with) = z[i] * links
  BY <1>1, <1>7, <1>9, SumScale
<1>14. links \in Int /\ q.Q[<<i, i>>] \in Int
  BY <1>1, <1>2, <1>9, SumType DEF Summable
<1> HIDE DEF links
<1>15. Ising(q).h[i] \in Int
  BY <1>8, <1>14
<1>16. SumFunctionOnSet(f, all) = 2 * q.Q[<<i, i>>] * z[i] + z[i] * links
  BY <1>6, <1>10, <1>11, <1>12, <1>13
<1>17. -(Ising(q).h[i] * z[i]) = 2 * q.Q[<<i, i>>] * z[i] + z[i] * links
  <2>1. ASSUME NEW u \in Int, NEW v \in Int, NEW w \in Int
        PROVE  -((-2 * u - v) * w) = 2 * u * w + w * v
    OBVIOUS
  <2> QED
    BY <1>1, <1>8, <1>14, <2>1
<1> QED
  BY <1>15, <1>16, <1>17 DEF f, all

\* Variable by variable, they come to the coefficient times the two spins.
LEMMA FieldsAt ==
  ASSUME NEW q, IsQubo(q), NEW z \in [1..q.n -> Int], NEW p \in Pairs(q.n)
  PROVE  SumFunctionOnSet([i \in 1..q.n |-> FieldShare(q, z, i, p)], 1..q.n) =
           q.Q[p] * (z[p[1]] + z[p[2]])
<1> DEFINE n == q.n
           all == 1..n
           f == [i \in all |-> FieldShare(q, z, i, p)]
           u == p[1]
           v == p[2]
           ends == {u} \cup {v}
<1>1. /\ IsFiniteSet(all) /\ u \in all /\ v \in all /\ q.Q[p] \in Int
      /\ z[u] \in Int /\ z[v] \in Int /\ ends \in SUBSET all
  BY PairsFinite DEF IsQubo, Pairs
<1>2. \A i \in all : f[i] \in Int
  <2>1. \A i \in all : z[i] \in Int
    OBVIOUS
  <2> QED
    BY <1>1, <2>1 DEF FieldShare
<1>3. \A i \in all \ ends : f[i] = 0
  BY DEF FieldShare
<1>4. u = v => f[u] = 2 * q.Q[p] * z[u]
  BY <1>1 DEF FieldShare
<1>5. u # v => f[u] = q.Q[p] * z[u] /\ f[v] = q.Q[p] * z[v]
  BY <1>1 DEF FieldShare
<1>6. Summable(f, ends) /\ Summable(f, {u}) /\ Summable(f, {v})
  <2>1. IsFiniteSet(ends) /\ IsFiniteSet({u}) /\ IsFiniteSet({v})
    BY <1>1, FS_Subset, FS_Singleton, FS_Union DEF ends
  <2> HIDE DEF f
  <2> QED
    BY <1>1, <1>2, <2>1 DEF Summable
<1> HIDE DEF f, all, u, v, ends
<1>7. SumFunctionOnSet(f, all) = SumFunctionOnSet(f, ends)
  BY <1>1, <1>3, <1>6, SumZeros
<1>8. SumFunctionOnSet(f, {u}) = f[u] /\ SumFunctionOnSet(f, {v}) = f[v]
  BY <1>1, <1>2, SumOne
<1>9. SumFunctionOnSet(f, ends) = q.Q[p] * (z[u] + z[v])
  <2>1. CASE u = v
    <3>1. ends = {u}
      BY <2>1 DEF ends
    <3>2. SumFunctionOnSet(f, ends) = 2 * q.Q[p] * z[u]
      BY <1>4, <1>8, <2>1, <3>1
    <3> QED
      BY <1>1, <2>1, <3>2
  <2>2. CASE u # v
    <3>1. SumFunctionOnSet(f, ends) = SumFunctionOnSet(f, {u}) + SumFunctionOnSet(f, {v})
      BY <1>6, <2>2, SumUnion DEF ends
    <3>2. SumFunctionOnSet(f, ends) = q.Q[p] * z[u] + q.Q[p] * z[v]
      BY <1>5, <1>8, <2>2, <3>1
    <3> QED
      BY <1>1, <3>2
  <2> QED
    BY <2>1, <2>2
<1> QED
  BY <1>7, <1>9 DEF f, all, u, v

\* For every encoding and every bit string: the Ising form has the energy of the QUBO.
LEMMA IsingExact ==
  ASSUME NEW q, IsQubo(q), NEW b \in Bits(q.n)
  PROVE  4 * Energy(q, b) = IsingEnergy(Ising(q), Spins(b))
<1> DEFINE n == q.n
           P == Pairs(n)
           N == 1..n
           O == Off(n)
           z == Spins(b)
           h == Ising(q).h
           t == Terms(q, b)
           four == [p \in P |-> 4 * t[p]]
           const == [p \in P |-> IF p[1] = p[2] THEN 2 * q.Q[p] ELSE q.Q[p]]
           coupled == [p \in P |-> IF p[1] = p[2] THEN 0 ELSE q.Q[p] * z[p[1]] * z[p[2]]]
           J == [p \in O |-> q.Q[p] * z[p[1]] * z[p[2]]]
           share == [c \in N \X P |-> FieldShare(q, z, c[1], c[2])]
           ofPair == [p \in P |-> SumFunctionOnSet([i \in N |-> share[i, p]], N)]
           ofSpin == [i \in N |-> SumFunctionOnSet([p \in P |-> share[i, p]], P)]
           field == [i \in N |-> h[i] * z[i]]
           both == [p \in P |-> four[p] + ofPair[p]]
<1>1. /\ n \in Nat /\ IsFiniteSet(P) /\ IsFiniteSet(N) /\ O \in SUBSET P /\ IsFiniteSet(O)
      /\ q.offset \in Int /\ \A p \in P : q.Q[p] \in Int /\ p[1] \in N /\ p[2] \in N
  <2>1. n \in Nat /\ q.offset \in Int /\ \A p \in P : q.Q[p] \in Int
    BY DEF IsQubo
  <2>2. O \in SUBSET P /\ \A p \in P : p[1] \in N /\ p[2] \in N
    BY DEF Off, Pairs
  <2> QED
    BY <2>1, <2>2, PairsFinite, FS_Subset
<1>2. z \in [N -> Int] /\ \A i \in N : z[i] = 1 - 2 * b[i] /\ b[i] \in {0, 1}
  <2>1. DOMAIN b = N /\ \A i \in N : z[i] = 1 - 2 * b[i] /\ z[i] \in Int /\ b[i] \in {0, 1}
    BY <1>1, SpinsAre, BitsAre
  <2> QED
    BY <2>1 DEF Spins
<1>3. share \in [N \X P -> Int] /\ \A i \in N : \A p \in P : share[i, p] = FieldShare(q, z, i, p)
  <2>1. \A i \in N : \A p \in P : FieldShare(q, z, i, p) \in Int
    BY <1>1, <1>2 DEF FieldShare
  <2> QED
    BY <2>1
<1>4. \A p \in P : ofPair[p] = q.Q[p] * (z[p[1]] + z[p[2]])
  <2> TAKE p \in P
  <2> DEFINE f == [i \in N |-> FieldShare(q, z, i, p)]
             g == [i \in N |-> share[i, p]]
  <2>1. g = f
    BY <1>3
  <2>2. SumFunctionOnSet(f, N) = q.Q[p] * (z[p[1]] + z[p[2]])
    BY <1>2, FieldsAt
  <2>3. ofPair[p] = SumFunctionOnSet(g, N)
    OBVIOUS
  <2> HIDE DEF f, g, ofPair
  <2> QED
    BY <2>1, <2>2, <2>3
<1>5. \A i \in N : h[i] \in Int /\ ofSpin[i] = -(h[i] * z[i])
  <2> TAKE i \in N
  <2> DEFINE f == [p \in P |-> FieldShare(q, z, i, p)]
             g == [p \in P |-> share[i, p]]
  <2>1. g = f
    BY <1>3
  <2>2. h[i] \in Int /\ SumFunctionOnSet(f, P) = -(h[i] * z[i])
    BY <1>2, FieldOf
  <2>3. ofSpin[i] = SumFunctionOnSet(g, P)
    OBVIOUS
  <2> HIDE DEF f, g, ofSpin
  <2> QED
    BY <2>1, <2>2, <2>3
<1>6. SumFunctionOnSet(ofSpin, N) = SumFunctionOnSet(ofPair, P)
  <2> HIDE DEF share, N, P
  <2> QED
    BY <1>1, <1>3, SumSwap
<1> HIDE DEF share, ofPair, ofSpin, h
<1>7. SumFunctionOnSet(ofSpin, N) = -SumFunctionOnSet(field, N) /\ SumFunctionOnSet(field, N) \in Int
  <2>1. \A i \in N : field[i] \in Int /\ ofSpin[i] = (-1) * field[i]
    BY <1>2, <1>5
  <2> HIDE DEF field
  <2>2. SumFunctionOnSet(ofSpin, N) = (-1) * SumFunctionOnSet(field, N)
    BY <1>1, <2>1, SumScale DEF Summable
  <2>3. SumFunctionOnSet(field, N) \in Int
    BY <1>1, <2>1, SumType
  <2> QED
    BY <2>2, <2>3
<1>8. SumFunctionOnSet(coupled, P) = SumFunctionOnSet(J, O) /\ SumFunctionOnSet(J, O) \in Int
  <2>1. \A p \in O : J[p] \in Int /\ coupled[p] = J[p]
    BY <1>1, <1>2 DEF Off
  <2>2. \A p \in P \ O : coupled[p] = 0
    BY DEF Off
  <2> HIDE DEF J, coupled, O
  <2>3. SumFunctionOnSet(coupled, P) = SumFunctionOnSet(coupled, O)
    BY <1>1, <2>1, <2>2, SumZeros DEF Summable
  <2>4. SumFunctionOnSet(coupled, O) = SumFunctionOnSet(J, O)
    BY <1>1, <2>1, SumAgree DEF Summable
  <2> QED
    BY <1>1, <2>1, <2>3, <2>4, SumType
<1>9. ASSUME NEW p \in P
      PROVE  /\ four[p] \in Int /\ ofPair[p] \in Int /\ const[p] \in Int /\ coupled[p] \in Int
             /\ t[p] \in Int /\ four[p] = 4 * t[p]
             /\ both[p] = four[p] + ofPair[p] /\ both[p] = const[p] + coupled[p]
  <2>1. /\ t[p] = q.Q[p] * b[p[1]] * b[p[2]] /\ q.Q[p] \in Int
        /\ ofPair[p] = q.Q[p] * (z[p[1]] + z[p[2]])
    BY <1>1, <1>4 DEF Terms
  <2>2. /\ z[p[1]] = 1 - 2 * b[p[1]] /\ z[p[2]] = 1 - 2 * b[p[2]]
        /\ b[p[1]] \in {0, 1} /\ b[p[2]] \in {0, 1}
    BY <1>1, <1>2
  <2>3. /\ four[p] = 4 * t[p] /\ const[p] = IF p[1] = p[2] THEN 2 * q.Q[p] ELSE q.Q[p]
        /\ coupled[p] = IF p[1] = p[2] THEN 0 ELSE q.Q[p] * z[p[1]] * z[p[2]]
        /\ both[p] = four[p] + ofPair[p]
    OBVIOUS
  <2> HIDE DEF four, const, coupled, both, t, z
  <2>4. ASSUME NEW c \in Int, NEW x \in {0, 1}, NEW y \in {0, 1}
        PROVE  /\ 4 * (c * x * x) + c * ((1 - 2 * x) + (1 - 2 * x)) = 2 * c
               /\ 4 * (c * x * y) + c * ((1 - 2 * x) + (1 - 2 * y)) =
                    c + c * (1 - 2 * x) * (1 - 2 * y)
    <3>1. x = 0 \/ x = 1
      BY <2>4
    <3>2. y = 0 \/ y = 1
      BY <2>4
    <3> QED
      BY <3>1, <3>2
  <2>5. four[p] + ofPair[p] = const[p] + coupled[p]
    <3>1. CASE p[1] = p[2]
      <4>1. four[p] + ofPair[p] = 2 * q.Q[p]
        BY <2>1, <2>2, <2>3, <2>4, <3>1
      <4> QED
        BY <2>1, <2>3, <3>1, <4>1
    <3>2. CASE p[1] # p[2]
      BY <2>1, <2>2, <2>3, <2>4, <3>2
    <3> QED
      BY <3>1, <3>2
  <2>6. four[p] \in Int /\ ofPair[p] \in Int /\ const[p] \in Int /\ coupled[p] \in Int /\ t[p] \in Int
    <3>1. z[p[1]] \in Int /\ z[p[2]] \in Int /\ b[p[1]] \in Int /\ b[p[2]] \in Int
      BY <2>2
    <3> QED
      BY <2>1, <2>3, <3>1
  <2> QED
    BY <2>3, <2>5, <2>6
<1> HIDE DEF four, const, coupled, both
<1>10. SumFunctionOnSet(both, P) = SumFunctionOnSet(four, P) + SumFunctionOnSet(ofPair, P)
  BY <1>1, <1>9, SumPlus DEF Summable
<1>11. SumFunctionOnSet(both, P) = SumFunctionOnSet(const, P) + SumFunctionOnSet(coupled, P)
  BY <1>1, <1>9, SumPlus DEF Summable
<1> HIDE DEF t
<1>12. SumFunctionOnSet(four, P) = 4 * SumFunctionOnSet(t, P)
  BY <1>1, <1>9, SumScale DEF Summable
<1>13. Energy(q, b) = q.offset + SumFunctionOnSet(t, P)
  BY TermsAre DEF t
<1>14. IsingEnergy(Ising(q), z) =
         (4 * q.offset + SumFunctionOnSet(const, P)) + SumFunctionOnSet(field, N)
           + SumFunctionOnSet(J, O)
  <2>1. /\ Ising(q).const = 4 * q.offset + SumFunctionOnSet(const, P)
        /\ DOMAIN Ising(q).h = N
        /\ DOMAIN Ising(q).J = O /\ \A p \in O : Ising(q).J[p] = q.Q[p]
    BY DEF Ising, SumFunction, const, Off
  <2>2. [i \in DOMAIN Ising(q).h |-> Ising(q).h[i] * z[i]] = field
    BY <2>1 DEF h
  <2>3. [p \in DOMAIN Ising(q).J |-> Ising(q).J[p] * z[p[1]] * z[p[2]]] = J
    BY <2>1
  <2>4. DOMAIN field = N /\ DOMAIN J = O
    OBVIOUS
  <2> HIDE DEF field, J, z
  <2> QED
    BY <2>1, <2>2, <2>3, <2>4 DEF IsingEnergy, SumFunction
<1> DEFINE St == SumFunctionOnSet(t, P)
           Sc == SumFunctionOnSet(const, P)
           Sx == SumFunctionOnSet(coupled, P)
           Sp == SumFunctionOnSet(ofPair, P)
           Sf == SumFunctionOnSet(field, N)
<1>15. St \in Int /\ Sc \in Int /\ Sx \in Int /\ Sp \in Int
  BY <1>1, <1>9, SumType
<1>16. 4 * St + Sp = Sc + Sx
  BY <1>10, <1>11, <1>12
<1>17. Sp = -Sf /\ Sf \in Int
  BY <1>6, <1>7
<1>18. IsingEnergy(Ising(q), z) = (4 * q.offset + Sc) + Sf + Sx /\ Energy(q, b) = q.offset + St
  BY <1>8, <1>13, <1>14
<1> HIDE DEF St, Sc, Sx, Sp, Sf, z
<1>19. 4 * Energy(q, b) = IsingEnergy(Ising(q), z)
  <2>1. q.offset \in Int
    BY <1>1
  <2>2. ASSUME NEW u \in Int, NEW st \in Int, NEW sc \in Int, NEW sx \in Int, NEW sp \in Int,
               NEW sf \in Int, 4 * st + sp = sc + sx, sp = -sf
        PROVE  4 * (u + st) = (4 * u + sc) + sf + sx
    BY <2>2
  <2> QED
    BY <1>15, <1>16, <1>17, <1>18, <2>1, <2>2
<1> QED
  BY <1>19 DEF z

-----------------------------------------------------------------------------
(* Encodings made of squares of linear forms                               *)

\* The value of the linear form c for bits b.
Linear(n, c, b) == SumFunctionOnSet([v \in 1..n |-> c[v] * b[v]], 1..n)

\* f are the terms that the square of the linear form c and const leaves in Q.
IsSquare(f, n, b, c, const) ==
  /\ n \in Nat /\ b \in Bits(n) /\ const \in Int /\ \A v \in 1..n : c[v] \in Int
  /\ \A p \in Pairs(n) : f[p] = Square(n, c, const)[p] * b[p[1]] * b[p[2]]

\* Those terms come to the square, but for the square of the constant.
LEMMA SquareSum ==
  ASSUME NEW c, NEW f, NEW n, NEW b, NEW const, IsSquare(f, n, b, c, const)
  PROVE  /\ \A p \in Pairs(n) : f[p] \in Int
         /\ Linear(n, c, b) \in Int
         /\ SumFunctionOnSet(f, Pairs(n)) =
              Linear(n, c, b) * Linear(n, c, b) + 2 * const * Linear(n, c, b)
<1> DEFINE N == 1..n
           lin == [v \in N |-> c[v] * b[v]]
           L(V) == SumFunctionOnSet(lin, V)
           good == {V \in SUBSET N : SumFunctionOnSet(f, Within(V)) =
                                     L(V) * L(V) + 2 * const * L(V)}
<1> n \in Nat /\ b \in Bits(n) /\ const \in Int /\ \A v \in 1..n : c[v] \in Int
  BY DEF IsSquare
<1> \A p \in Pairs(n) : f[p] = Square(n, c, const)[p] * b[p[1]] * b[p[2]]
  BY DEF IsSquare
<1>1. /\ IsFiniteSet(N) /\ Pairs(n) = Within(N)
      /\ \A V \in SUBSET N : IsFiniteSet(V) /\ IsFiniteSet(Within(V))
  BY PairsFinite
<1>2. \A v \in N : b[v] \in Int /\ lin[v] \in Int /\ lin[v] = c[v] * b[v]
  <2>1. \A v \in N : b[v] \in Int
    BY BitsAre
  <2> QED
    BY <2>1
<1>3. ASSUME NEW x \in N, NEW y \in N, x # y
      PROVE  Pair(x, y) \in Pairs(n) /\ f[Pair(x, y)] = (2 * lin[x]) * lin[y]
  <2>1. Pair(x, y) \in Pairs(n)
    BY DEF Pair, Pairs
  <2>2. f[Pair(x, y)] = 2 * c[x] * c[y] * b[x] * b[y]
    <3>1. c[x] \in Int /\ c[y] \in Int /\ b[x] \in Int /\ b[y] \in Int
      BY <1>2
    <3>2. CASE x <= y
      BY <1>3, <2>1, <3>1, <3>2 DEF Pair, Square
    <3>3. CASE ~(x <= y)
      <4>1. f[Pair(x, y)] = 2 * c[y] * c[x] * b[y] * b[x]
        BY <1>3, <2>1, <3>1, <3>3 DEF Pair, Square
      <4> QED
        BY <3>1, <4>1
    <3> QED
      BY <3>2, <3>3
  <2>3. ASSUME NEW cx \in Int, NEW cy \in Int, NEW bx \in Int, NEW by \in Int
        PROVE  2 * cx * cy * bx * by = (2 * (cx * bx)) * (cy * by)
    OBVIOUS
  <2> QED
    BY <1>2, <2>1, <2>2, <2>3
<1>4. ASSUME NEW x \in N
      PROVE  <<x, x>> \in Pairs(n) /\ f[<<x, x>>] = lin[x] * lin[x] + 2 * const * lin[x]
  <2>1. <<x, x>> \in Pairs(n)
    BY DEF Pairs
  <2>2. f[<<x, x>>] = (c[x] * c[x] + 2 * const * c[x]) * b[x] * b[x]
    BY <2>1 DEF Square
  <2>3. c[x] \in Int /\ b[x] \in {0, 1} /\ lin[x] = c[x] * b[x]
    BY <1>2, BitsAre
  <2>4. CASE b[x] = 0
    BY <2>1, <2>2, <2>3, <2>4
  <2>5. CASE b[x] = 1
    BY <2>1, <2>2, <2>3, <2>5
  <2> QED
    BY <2>3, <2>4, <2>5
<1>5. \A p \in Pairs(n) : f[p] \in Int
  <2> TAKE p \in Pairs(n)
  <2>1. p[1] \in N /\ p[2] \in N /\ p[1] <= p[2] /\ p = <<p[1], p[2]>>
    BY DEF Pairs
  <2>2. CASE p[1] = p[2]
    <3>1. f[p] = lin[p[1]] * lin[p[1]] + 2 * const * lin[p[1]]
      BY <1>4, <2>1, <2>2
    <3> QED
      BY <1>2, <2>1, <3>1
  <2>3. CASE p[1] # p[2]
    <3>1. f[p] = (2 * lin[p[1]]) * lin[p[2]]
      BY <1>3, <2>1, <2>3 DEF Pair
    <3> QED
      BY <1>2, <2>1, <3>1
  <2> QED
    BY <2>2, <2>3
<1> HIDE DEF lin
<1>6. {} \in good
  <2>1. Within({}) = {}
    BY DEF Within
  <2>2. L({}) = 0 /\ SumFunctionOnSet(f, Within({})) = 0
    BY <2>1, SumType
  <2> QED
    BY <2>2
<1>7. ASSUME NEW V \in SUBSET N, V # {}, \A x \in V : V \ {x} \in good
      PROVE  V \in good
  <2>1. PICK x \in V : TRUE
    BY <1>7
  <2> DEFINE rest == V \ {x}
             g == [j \in rest |-> f[Pair(x, j)]]
  <2>2. /\ rest \in SUBSET N /\ rest = V \ {x} /\ IsFiniteSet(rest) /\ IsFiniteSet(V)
        /\ x \in N /\ \A j \in rest : j \in N /\ j # x
    BY <1>1
  <2>3. \A j \in rest : g[j] = f[Pair(x, j)] /\ g[j] = (2 * lin[x]) * lin[j]
    BY <1>3, <2>2
  <2>4. SumFunctionOnSet(f, Within(rest)) = L(rest) * L(rest) + 2 * const * L(rest)
    BY <1>7
  <2> HIDE DEF g, rest, good
  <2>5. IsStar(f, g, n, V, x, rest)
    BY <1>5, <2>2, <2>3 DEF IsStar
  <2>6. SumFunctionOnSet(f, Within(V)) =
          SumFunctionOnSet(f, Within(rest)) + f[<<x, x>>] + SumFunctionOnSet(g, rest)
    BY <2>5, SumStar
  <2>7. lin[x] \in Int /\ L(rest) \in Int
    BY <1>2, <2>2, SumType
  <2>8. SumFunctionOnSet(g, rest) = (2 * lin[x]) * L(rest)
    <3> DEFINE m == 2 * lin[x]
    <3>1. m \in Int /\ Summable(lin, rest) /\ \A j \in rest : g[j] = m * lin[j]
      BY <1>2, <2>2, <2>3, <2>7 DEF Summable
    <3> HIDE DEF m
    <3>2. SumFunctionOnSet(g, rest) = m * SumFunctionOnSet(lin, rest)
      BY <3>1, SumScale
    <3> QED
      BY <3>2 DEF m
  <2>9. L(V) = lin[x] + L(rest)
    <3>1. IsFiniteSet(V) /\ \A v \in V : lin[v] \in Int
      BY <1>2, <2>2
    <3>2. \A z \in V : SumFunctionOnSet(lin, V) = lin[z] + SumFunctionOnSet(lin, V \ {z})
      BY <3>1, SumRemove
    <3> QED
      BY <3>2 DEF rest
  <2>10. f[<<x, x>>] = lin[x] * lin[x] + 2 * const * lin[x]
    BY <1>4, <2>2
  <2>11. ASSUME NEW u \in Int, NEW r \in Int
         PROVE  (r * r + 2 * const * r) + (u * u + 2 * const * u) + (2 * u) * r =
                  (u + r) * (u + r) + 2 * const * (u + r)
    OBVIOUS
  <2>12. SumFunctionOnSet(f, Within(V)) = L(V) * L(V) + 2 * const * L(V)
    BY <2>4, <2>6, <2>7, <2>8, <2>9, <2>10, <2>11
  <2> QED
    BY <2>12 DEF good
<1>8. N \in good
  <2> HIDE DEF good
  <2> QED
    BY <1>1, <1>6, <1>7, SubsetInduction
<1>9. L(N) = Linear(n, c, b) /\ L(N) \in Int
  <2>1. L(N) \in Int
    BY <1>1, <1>2, SumType
  <2> QED
    BY <2>1 DEF Linear, lin
<1> QED
  BY <1>1, <1>5, <1>8, <1>9

\* A square has integer coefficients.
LEMMA SquareType ==
  ASSUME NEW c, NEW n \in Nat, NEW const \in Int, \A v \in 1..n : c[v] \in Int
  PROVE  Square(n, c, const) \in [Pairs(n) -> Int]
<1>1. \A p \in Pairs(n) : p[1] \in 1..n /\ p[2] \in 1..n
  BY DEF Pairs
<1>2. \A p \in Pairs(n) : c[p[1]] \in Int /\ c[p[2]] \in Int
  BY <1>1
<1> QED
  BY <1>2 DEF Square

\* The terms of single variables come to a linear form.
LEMMA DiagonalSum ==
  ASSUME NEW d, NEW f, NEW n \in Nat, NEW b \in Bits(n), \A v \in 1..n : d[v] \in Int,
         \A p \in Pairs(n) : f[p] = (IF p[1] = p[2] THEN d[p[1]] ELSE 0) * b[p[1]] * b[p[2]]
  PROVE  /\ \A p \in Pairs(n) : f[p] \in Int
         /\ SumFunctionOnSet(f, Pairs(n)) = Linear(n, d, b)
<1> DEFINE N == 1..n
           twice == [v \in N |-> <<v, v>>]
           same == {twice[v] : v \in N}
           lin == [v \in N |-> d[v] * b[v]]
           P == Pairs(n)
<1>1. IsFiniteSet(N) /\ IsFiniteSet(P)
  BY PairsFinite
<1>2. \A v \in N : d[v] \in Int /\ b[v] \in Int /\ b[v] * b[v] = b[v]
  BY BitsAre
<1>3. \A p \in P : f[p] \in Int /\ p[1] \in N /\ p[2] \in N /\ p = <<p[1], p[2]>>
  <2> TAKE p \in P
  <2>1. p[1] \in N /\ p[2] \in N /\ p = <<p[1], p[2]>>
    BY DEF Pairs
  <2>2. d[p[1]] \in Int /\ b[p[1]] \in Int /\ b[p[2]] \in Int
    BY <1>2, <2>1
  <2> QED
    BY <2>1, <2>2
<1>4. ASSUME NEW v \in N
      PROVE  /\ twice[v] \in P /\ f[twice[v]] = lin[v] /\ lin[v] \in Int
             /\ twice[v][1] = v
  <2>1. twice[v] = <<v, v>> /\ <<v, v>> \in P
    BY DEF Pairs
  <2>2. f[<<v, v>>] = d[v] * b[v] * b[v]
    BY <2>1
  <2> QED
    BY <1>2, <2>1, <2>2
<1>5. \A p \in P \ same : f[p] = 0
  <2> TAKE p \in P \ same
  <2>1. p[1] # p[2]
    BY <1>3
  <2> QED
    BY <1>2, <1>3, <2>1
<1>6. same \in SUBSET P /\ IsFiniteSet(same)
  <2>1. same \in SUBSET P
    BY <1>4
  <2> QED
    BY <1>1, <2>1, FS_Subset
<1>7. \A v, w \in N : twice[v] = twice[w] => v = w
  BY <1>4
<1> HIDE DEF lin, twice
<1>8. SumFunctionOnSet(f, same) = SumFunctionOnSet(lin, N)
  <2>1. \A v \in N : f[twice[v]] \in Int /\ lin[v] = f[twice[v]]
    BY <1>4
  <2> HIDE DEF N
  <2> QED
    BY <1>1, <1>7, <2>1, SumRenamed
<1> HIDE DEF same, P
<1>9. SumFunctionOnSet(f, P) = SumFunctionOnSet(f, same)
  BY <1>1, <1>3, <1>5, <1>6, SumZeros DEF Summable
<1> QED
  BY <1>3, <1>8, <1>9 DEF P, lin, Linear

\* q is w times a sum of squares, one for each x of K, and d for each variable.
IsSumOfSquares(q, b, K, c, const, w, d, squares, misses, constSqs, missSqs) ==
  /\ IsQubo(q) /\ b \in Bits(q.n) /\ IsFiniteSet(K) /\ w \in Int
  /\ \A v \in 1..q.n : d[v] \in Int
  /\ \A x \in K : const[x] \in Int /\ \A v \in 1..q.n : c[x][v] \in Int
  /\ \A p \in Pairs(q.n) : \A x \in K : squares[p][x] = Square(q.n, c[x], const[x])[p]
  /\ \A p \in Pairs(q.n) : q.Q[p] = w * SumFunctionOnSet(squares[p], K)
                                     + IF p[1] = p[2] THEN d[p[1]] ELSE 0
  /\ \A x \in K : misses[x] = Linear(q.n, c[x], b) + const[x]
  /\ \A x \in K : constSqs[x] = const[x] * const[x] /\ missSqs[x] = misses[x] * misses[x]

\* Then its energy is the weighted sum of what the forms miss, squared, plus d.
LEMMA EnergyOfSquares ==
  ASSUME NEW q, NEW b, NEW K, NEW c, NEW const, NEW w, NEW d, NEW squares, NEW misses,
         NEW constSqs, NEW missSqs,
         IsSumOfSquares(q, b, K, c, const, w, d, squares, misses, constSqs, missSqs)
  PROVE  Energy(q, b) = q.offset - w * SumFunctionOnSet(constSqs, K)
                          + w * SumFunctionOnSet(missSqs, K) + Linear(q.n, d, b)
<1> /\ IsQubo(q) /\ b \in Bits(q.n) /\ IsFiniteSet(K) /\ w \in Int
    /\ \A v \in 1..q.n : d[v] \in Int
  BY DEF IsSumOfSquares
<1> \A x \in K : const[x] \in Int /\ \A v \in 1..q.n : c[x][v] \in Int
  BY DEF IsSumOfSquares
<1> \A p \in Pairs(q.n) : \A x \in K : squares[p][x] = Square(q.n, c[x], const[x])[p]
  BY DEF IsSumOfSquares
<1> \A p \in Pairs(q.n) : q.Q[p] = w * SumFunctionOnSet(squares[p], K)
                                    + IF p[1] = p[2] THEN d[p[1]] ELSE 0
  BY DEF IsSumOfSquares
<1> \A x \in K : misses[x] = Linear(q.n, c[x], b) + const[x]
  BY DEF IsSumOfSquares
<1> \A x \in K : constSqs[x] = const[x] * const[x] /\ missSqs[x] = misses[x] * misses[x]
  BY DEF IsSumOfSquares
<1> DEFINE n == q.n
           P == Pairs(n)
           bb == [p \in P |-> b[p[1]] * b[p[2]]]
           term(x) == [p \in P |-> Square(n, c[x], const[x])[p] * b[p[1]] * b[p[2]]]
           share == [a \in K \X P |-> term(a[1])[a[2]]]
           ofPair == [p \in P |-> SumFunctionOnSet([x \in K |-> share[x, p]], K)]
           ofSquare == [x \in K |-> SumFunctionOnSet([p \in P |-> share[x, p]], P)]
           single == [p \in P |-> (IF p[1] = p[2] THEN d[p[1]] ELSE 0) * b[p[1]] * b[p[2]]]
           scaled == [p \in P |-> w * ofPair[p]]
           t == Terms(q, b)
<1>1. /\ n \in Nat /\ IsFiniteSet(P)
      /\ \A p \in P : bb[p] \in Int /\ bb[p] = b[p[1]] * b[p[2]]
  <2>1. n \in Nat /\ IsFiniteSet(P)
    BY PairsFinite DEF IsQubo
  <2>2. \A v \in 1..n : b[v] \in Int
    BY <2>1, BitsAre
  <2>3. \A p \in P : p[1] \in 1..n /\ p[2] \in 1..n
    BY DEF Pairs
  <2> QED
    BY <2>1, <2>2, <2>3
<1>2. ASSUME NEW x \in K
      PROVE  /\ \A p \in P : term(x)[p] \in Int
             /\ Linear(n, c[x], b) \in Int
             /\ SumFunctionOnSet(term(x), P) = Linear(n, c[x], b) * Linear(n, c[x], b)
                                                 + 2 * const[x] * Linear(n, c[x], b)
  <2> DEFINE f == term(x)
             cx == c[x]
             k == const[x]
  <2>1. /\ \A p \in P : f[p] = Square(n, cx, k)[p] * b[p[1]] * b[p[2]]
        /\ \A v \in 1..n : cx[v] \in Int
        /\ k \in Int /\ b \in Bits(n) /\ n \in Nat /\ P = Pairs(n)
    BY <1>1
  <2> HIDE DEF f, cx, k, n, P
  <2>2. IsSquare(f, n, b, cx, k)
    BY <2>1 DEF IsSquare
  <2>3. /\ \A p \in Pairs(n) : f[p] \in Int
        /\ Linear(n, cx, b) \in Int
        /\ SumFunctionOnSet(f, Pairs(n)) =
             Linear(n, cx, b) * Linear(n, cx, b) + 2 * k * Linear(n, cx, b)
    BY <2>2, SquareSum
  <2> QED
    BY <2>3 DEF f, cx, k, P
<1>3. /\ share \in [K \X P -> Int]
      /\ \A x \in K : \A p \in P : share[x, p] = term(x)[p] /\ share[x, p] \in Int
  BY <1>2
<1>4. SumFunctionOnSet(ofSquare, K) = SumFunctionOnSet(ofPair, P)
  <2> HIDE DEF share
  <2> QED
    BY <1>1, <1>3, SumSwap
<1>5. \A x \in K : missSqs[x] = ofSquare[x] + constSqs[x] /\ ofSquare[x] \in Int /\ constSqs[x] \in Int
  <2> TAKE x \in K
  <2> DEFINE row == [p \in P |-> share[x, p]]
             l == Linear(n, c[x], b)
             k == const[x]
  <2>1. \A p \in P : term(x)[p] \in Int /\ row[p] = term(x)[p]
    BY <1>2, <1>3
  <2>2. ofSquare[x] = SumFunctionOnSet(row, P) /\ constSqs[x] = k * k /\ k \in Int
        /\ missSqs[x] = (l + k) * (l + k)
    OBVIOUS
  <2>3. l \in Int /\ SumFunctionOnSet(term(x), P) = l * l + 2 * k * l
    BY <1>2
  <2> HIDE DEF row, share, term, l, k, ofSquare
  <2>4. SumFunctionOnSet(row, P) = SumFunctionOnSet(term(x), P)
    BY <1>1, <2>1, SumAgree DEF Summable
  <2> QED
    BY <2>2, <2>3, <2>4
<1>6. SumFunctionOnSet(missSqs, K) = SumFunctionOnSet(ofSquare, K) + SumFunctionOnSet(constSqs, K)
  <2> HIDE DEF ofSquare
  <2> QED
    BY <1>5, SumPlus DEF Summable
<1>7. /\ \A p \in P : single[p] \in Int
      /\ SumFunctionOnSet(single, P) = Linear(n, d, b)
  <2>1. /\ \A p \in P : single[p] = (IF p[1] = p[2] THEN d[p[1]] ELSE 0) * b[p[1]] * b[p[2]]
        /\ \A v \in 1..n : d[v] \in Int
        /\ b \in Bits(n) /\ n \in Nat /\ P = Pairs(n)
    BY <1>1
  <2> HIDE DEF single, n, P
  <2>2. /\ \A p \in Pairs(n) : single[p] \in Int
        /\ SumFunctionOnSet(single, Pairs(n)) = Linear(n, d, b)
    BY <2>1, DiagonalSum
  <2> QED
    BY <2>1, <2>2
<1>8. \A p \in P : /\ ofPair[p] = SumFunctionOnSet(squares[p], K) * bb[p]
                   /\ ofPair[p] \in Int
                   /\ SumFunctionOnSet(squares[p], K) \in Int
  <2> TAKE p \in P
  <2> DEFINE column == [x \in K |-> share[x, p]]
             e == squares[p]
             m == bb[p]
  <2>1. ASSUME NEW x \in K
        PROVE  e[x] \in Int /\ column[x] = m * e[x]
    <3>1. e[x] = Square(n, c[x], const[x])[p]
      OBVIOUS
    <3>2. p \in Pairs(n) /\ p[1] \in 1..n /\ p[2] \in 1..n
      BY DEF Pairs
    <3>3. c[x][p[1]] \in Int /\ c[x][p[2]] \in Int /\ const[x] \in Int
      BY <3>2
    <3>4. e[x] \in Int
      BY <3>1, <3>2, <3>3 DEF Square
    <3>5. column[x] = e[x] * b[p[1]] * b[p[2]]
      BY <1>3, <3>1
    <3>6. b[p[1]] \in Int /\ b[p[2]] \in Int
      BY <1>1, <3>2, BitsAre
    <3>7. m = b[p[1]] * b[p[2]]
      BY <1>1
    <3> HIDE DEF e, m, column
    <3> QED
      BY <3>4, <3>5, <3>6, <3>7
  <2>2. ofPair[p] = SumFunctionOnSet(column, K) /\ m \in Int
    BY <1>1
  <2> HIDE DEF column, e, m, ofPair
  <2>3. Summable(e, K)
    BY <2>1 DEF Summable
  <2>4. SumFunctionOnSet(column, K) = m * SumFunctionOnSet(e, K)
    BY <2>1, <2>2, <2>3, SumScale
  <2>5. SumFunctionOnSet(e, K) \in Int
    BY <2>3, SumType DEF Summable
  <2> QED
    BY <2>2, <2>4, <2>5 DEF e, m
<1>9. \A p \in P : t[p] = scaled[p] + single[p] /\ scaled[p] \in Int
  <2> TAKE p \in P
  <2> DEFINE s == SumFunctionOnSet(squares[p], K)
             g == IF p[1] = p[2] THEN d[p[1]] ELSE 0
             u == b[p[1]]
             v == b[p[2]]
  <2>1. t[p] = (w * s + g) * u * v
    BY DEF Terms
  <2>2. p[1] \in 1..n /\ p[2] \in 1..n
    BY DEF Pairs
  <2>3. s \in Int /\ g \in Int /\ u \in Int /\ v \in Int /\ w \in Int
    <3>1. u \in Int /\ v \in Int
      BY <1>1, <2>2, BitsAre
    <3>2. s \in Int
      BY <1>8
    <3>3. g \in Int
      BY <2>2
    <3> QED
      BY <3>1, <3>2, <3>3
  <2>4. scaled[p] = w * (s * (u * v)) /\ single[p] = g * u * v
    BY <1>1, <1>8
  <2> HIDE DEF s, g, u, v
  <2>5. (w * s + g) * u * v = w * (s * (u * v)) + g * u * v /\ w * (s * (u * v)) \in Int
    BY <2>3
  <2> QED
    BY <2>1, <2>4, <2>5
<1>10. SumFunctionOnSet(scaled, P) = w * SumFunctionOnSet(ofPair, P)
  <2>1. \A p \in P : scaled[p] = w * ofPair[p]
    OBVIOUS
  <2> HIDE DEF scaled, ofPair
  <2> QED
    BY <1>1, <1>8, <2>1, SumScale DEF Summable
<1> HIDE DEF scaled, single, t, ofPair, ofSquare
<1>11. SumFunctionOnSet(t, P) = SumFunctionOnSet(scaled, P) + SumFunctionOnSet(single, P)
  BY <1>1, <1>7, <1>9, SumPlus DEF Summable
<1>12. Energy(q, b) = q.offset + SumFunctionOnSet(t, P)
  BY TermsAre DEF t
<1>13. /\ SumFunctionOnSet(ofSquare, K) \in Int /\ SumFunctionOnSet(constSqs, K) \in Int
       /\ SumFunctionOnSet(single, P) \in Int /\ q.offset \in Int
  BY <1>1, <1>5, <1>7, SumType DEF IsQubo
<1>14. ASSUME NEW o \in Int, NEW v \in Int, NEW u \in Int, NEW l \in Int
       PROVE  o + (w * v + l) = o - w * u + w * (v + u) + l
  OBVIOUS
<1>15. Energy(q, b) = q.offset - w * SumFunctionOnSet(constSqs, K)
                        + w * SumFunctionOnSet(missSqs, K) + Linear(n, d, b)
  <2> DEFINE o == q.offset
             v == SumFunctionOnSet(ofSquare, K)
             u == SumFunctionOnSet(constSqs, K)
             l == Linear(n, d, b)
  <2>1. o \in Int /\ v \in Int /\ u \in Int /\ l \in Int
    BY <1>7, <1>13
  <2>2. Energy(q, b) = o + (w * v + l) /\ SumFunctionOnSet(missSqs, K) = v + u
    BY <1>4, <1>6, <1>7, <1>10, <1>11, <1>12
  <2> HIDE DEF o, v, u, l
  <2>3. Energy(q, b) = o - w * u + w * (v + u) + l
    BY <1>14, <2>1, <2>2
  <2> QED
    BY <2>2, <2>3 DEF o, v, u, l
<1> QED
  BY <1>15

\* A linear form in n variables and k more: ones are the first ones that are set,
\* and tail holds the terms of the last ones.
Splits(c, b, ones, tail, n, k) ==
  /\ n \in Nat /\ k \in Nat /\ b \in Bits(n + k)
  /\ \A v \in 1..n + k : c[v] \in Int
  /\ ones = {v \in 1..n : b[v] = 1}
  /\ \A j \in 1..k : tail[j] = c[n + j] * b[n + j]

\* The value of such a form is the sum of the coefficients where the bit is set, and of the tail.
LEMMA LinearSplits ==
  ASSUME NEW c, NEW b, NEW ones, NEW tail, NEW n, NEW k, Splits(c, b, ones, tail, n, k)
  PROVE  /\ Linear(n + k, c, b) = SumFunctionOnSet(c, ones) + SumFunctionOnSet(tail, 1..k)
         /\ Summable(c, ones) /\ Summable(tail, 1..k) /\ Linear(n + k, c, b) \in Int
<1> DEFINE m == n + k
           N == 1..n
           M == 1..m
           S == (n + 1)..m
           J == 1..k
           lin == [v \in M |-> c[v] * b[v]]
           shift == [j \in J |-> n + j]
<1> /\ n \in Nat /\ k \in Nat /\ b \in Bits(n + k)
    /\ \A v \in 1..n + k : c[v] \in Int
    /\ ones = {v \in 1..n : b[v] = 1}
    /\ \A j \in 1..k : tail[j] = c[n + j] * b[n + j]
  BY DEF Splits
<1>1. /\ m \in Nat /\ IsFiniteSet(M) /\ N \subseteq M /\ S \subseteq M /\ N \cap S = {}
      /\ M = N \cup S /\ IsFiniteSet(J)
  <2>1. m \in Nat /\ N \subseteq M /\ S \subseteq M /\ N \cap S = {} /\ M = N \cup S
    OBVIOUS
  <2>2. IsFiniteSet(M) /\ IsFiniteSet(J)
    BY <2>1, PairsFinite
  <2> QED
    BY <2>1, <2>2
<1>2. \A v \in M : /\ b[v] \in Int /\ b[v] \in {0, 1} /\ c[v] \in Int
                   /\ lin[v] = c[v] * b[v] /\ lin[v] \in Int
  <2> TAKE v \in M
  <2>1. b[v] \in Int /\ b[v] \in {0, 1} /\ c[v] \in Int
    BY <1>1, BitsAre
  <2> QED
    BY <2>1
<1>3. /\ ones \in SUBSET N /\ ones \subseteq M /\ IsFiniteSet(ones) /\ IsFiniteSet(N) /\ IsFiniteSet(S)
      /\ Summable(c, ones) /\ Summable(lin, N) /\ Summable(lin, S) /\ Summable(lin, ones)
  <2>1. ones \in SUBSET N /\ ones \subseteq M
    BY <1>1
  <2>2. IsFiniteSet(ones) /\ IsFiniteSet(N) /\ IsFiniteSet(S)
    BY <1>1, <2>1, FS_Subset
  <2> HIDE DEF N, M, S, lin
  <2> QED
    BY <1>1, <1>2, <2>1, <2>2 DEF Summable
<1>4. SumFunctionOnSet(lin, N) = SumFunctionOnSet(lin, ones)
  <2>1. \A v \in N \ ones : lin[v] = 0
    <3> TAKE v \in N \ ones
    <3>1. v \in M /\ b[v] # 1
      BY <1>1
    <3>2. b[v] = 0
      BY <1>2, <3>1
    <3> QED
      BY <1>2, <3>1, <3>2
  <2> HIDE DEF N, lin
  <2> QED
    BY <1>3, <2>1, SumZeros
<1>5. SumFunctionOnSet(lin, ones) = SumFunctionOnSet(c, ones)
  <2>1. \A v \in ones : lin[v] = c[v]
    <3> TAKE v \in ones
    <3>1. b[v] = 1 /\ c[v] \in Int /\ lin[v] = c[v] * b[v]
      BY <1>2, <1>3
    <3> QED
      BY <3>1
  <2> HIDE DEF lin
  <2> QED
    BY <1>3, <2>1, SumAgree
<1>6. \A j \in J : shift[j] \in S /\ lin[shift[j]] \in Int /\ tail[j] = lin[shift[j]]
  <2> TAKE j \in J
  <2>1. shift[j] = n + j /\ n + j \in S
    BY <1>1
  <2>2. n + j \in M
    BY <1>1, <2>1
  <2> QED
    BY <1>2, <2>1, <2>2
<1> DEFINE shifted == {shift[j] : j \in J}
<1>7. shifted = S
  <2>1. \A v \in S : v - n \in J /\ shift[v - n] = v
    OBVIOUS
  <2> HIDE DEF S, shift, J
  <2> QED
    BY <1>6, <2>1
<1>8. \A i, j \in J : shift[i] = shift[j] => i = j
  OBVIOUS
<1>9. SumFunctionOnSet(lin, S) = SumFunctionOnSet(tail, J) /\ Summable(tail, J)
  <2>1. /\ \A j \in J : lin[shift[j]] \in Int
        /\ \A j \in J : tail[j] = lin[shift[j]]
        /\ IsFiniteSet(J)
    BY <1>1, <1>6
  <2> HIDE DEF S, J, lin, shift
  <2>2. SumFunctionOnSet(lin, shifted) = SumFunctionOnSet(tail, J)
    BY <1>8, <2>1, SumRenamed
  <2> QED
    BY <1>1, <1>6, <1>7, <2>2 DEF Summable
<1>10. SumFunctionOnSet(lin, M) = SumFunctionOnSet(lin, N) + SumFunctionOnSet(lin, S)
  <2> HIDE DEF M, N, S, lin
  <2> QED
    BY <1>1, <1>3, SumUnion
<1>11. Linear(m, c, b) = SumFunctionOnSet(lin, M)
  BY DEF Linear
<1>12. SumFunctionOnSet(lin, M) \in Int
  <2> HIDE DEF M, lin
  <2> QED
    BY <1>1, <1>2, SumType
<1> QED
  BY <1>3, <1>4, <1>5, <1>9, <1>10, <1>11, <1>12

\* A linear form in the variables of the slots is the sum over those set.
LEMMA LinearOfSlots ==
  ASSUME NEW c, NEW b, NEW ones, NEW n, n \in Nat, b \in Bits(n), \A v \in 1..n : c[v] \in Int,
         ones = {v \in 1..n : b[v] = 1}
  PROVE  Linear(n, c, b) = SumFunctionOnSet(c, ones) /\ Summable(c, ones)
<1> DEFINE k == 0
           none == 1..k
           tail == [j \in none |-> c[n + j] * b[n + j]]
<1>1. n + k = n /\ k \in Nat /\ none = {}
  OBVIOUS
<1>2. \A j \in 1..k : tail[j] = c[n + j] * b[n + j]
  OBVIOUS
<1> HIDE DEF k, tail
<1>3. Splits(c, b, ones, tail, n, k)
  BY <1>1, <1>2 DEF Splits
<1>4. Linear(n + k, c, b) = SumFunctionOnSet(c, ones) + SumFunctionOnSet(tail, none)
      /\ Summable(c, ones)
  BY <1>3, LinearSplits
<1>5. SumFunctionOnSet(tail, none) = 0
  BY <1>1, SumType
<1>6. SumFunctionOnSet(c, ones) \in Int
  BY <1>4, SumType DEF Summable
<1> QED
  BY <1>1, <1>4, <1>5, <1>6

\* q is w times one square and d for each variable.
IsOneSquare(q, b, c, const, w, d, square) ==
  /\ IsQubo(q) /\ b \in Bits(q.n) /\ const \in Int /\ w \in Int
  /\ square = Square(q.n, c, const)
  /\ \A v \in 1..q.n : c[v] \in Int
  /\ \A v \in 1..q.n : d[v] \in Int
  /\ \A p \in Pairs(q.n) : q.Q[p] = w * square[p] + IF p[1] = p[2] THEN d[p[1]] ELSE 0

\* Then its energy is the weighted square of the form, plus d.
LEMMA EnergyOfSquare ==
  ASSUME NEW q, NEW b, NEW c, NEW const, NEW w, NEW d, NEW square,
         IsOneSquare(q, b, c, const, w, d, square)
  PROVE  Energy(q, b) = q.offset - w * (const * const)
                          + w * ((Linear(q.n, c, b) + const) * (Linear(q.n, c, b) + const))
                          + Linear(q.n, d, b)
<1> DEFINE n == q.n
           P == Pairs(n)
           K == {1}
           cs == [x \in K |-> c]
           consts == [x \in K |-> const]
           squares == [p \in P |-> [x \in K |-> square[p]]]
           miss == Linear(n, c, b) + const
           misses == [x \in K |-> miss]
           constSqs == [x \in K |-> consts[x] * consts[x]]
           missSqs == [x \in K |-> misses[x] * misses[x]]
<1> /\ IsQubo(q) /\ b \in Bits(q.n) /\ const \in Int /\ w \in Int
    /\ square = Square(q.n, c, const)
    /\ \A v \in 1..q.n : c[v] \in Int
    /\ \A v \in 1..q.n : d[v] \in Int
  BY DEF IsOneSquare
<1> \A p \in Pairs(q.n) : q.Q[p] = w * square[p] + IF p[1] = p[2] THEN d[p[1]] ELSE 0
  BY DEF IsOneSquare
<1>1. n \in Nat /\ IsFiniteSet(K) /\ 1 \in K
  BY FS_Singleton DEF IsQubo
<1>2. miss \in Int
  <2>1. Linear(n, c, b) \in Int
    <3> DEFINE k == 0
               ones == {v \in 1..n : b[v] = 1}
               tail == [j \in 1..k |-> c[n + j] * b[n + j]]
    <3>1. n + k = n /\ k \in Nat
      BY <1>1
    <3>2. \A j \in 1..k : tail[j] = c[n + j] * b[n + j]
      OBVIOUS
    <3>3. b \in Bits(n + k) /\ ones = {v \in 1..n : b[v] = 1}
      BY <3>1
    <3>4. \A v \in 1..n + k : c[v] \in Int
      BY <3>1
    <3> HIDE DEF k, tail, ones, n
    <3>5. Splits(c, b, ones, tail, n, k)
      BY <1>1, <3>1, <3>2, <3>3, <3>4 DEF Splits
    <3>6. Linear(n + k, c, b) \in Int
      BY <3>5, LinearSplits
    <3> QED
      BY <3>1, <3>6
  <2> QED
    BY <2>1
<1>3. Square(n, c, const) \in [P -> Int]
  BY <1>1, SquareType
<1>4. \A p \in P : square[p] \in Int /\ squares[p][1] = square[p]
  BY <1>1, <1>3
<1>5. /\ \A x \in K : consts[x] = const /\ cs[x] = c /\ misses[x] = miss
      /\ constSqs[1] = const * const /\ missSqs[1] = miss * miss
      /\ const * const \in Int /\ miss * miss \in Int
  BY <1>1, <1>2
<1>6. \A x \in K : consts[x] \in Int /\ \A v \in 1..n : cs[x][v] \in Int
  BY <1>5
<1>7. \A p \in P : \A x \in K : squares[p][x] = Square(n, cs[x], consts[x])[p]
  BY <1>5
<1>8. \A x \in K : misses[x] = Linear(n, cs[x], b) + consts[x]
  BY <1>5
<1> HIDE DEF squares, cs, consts, misses, miss, K
<1>9. /\ \A p \in P : SumFunctionOnSet(squares[p], K) = square[p]
      /\ SumFunctionOnSet(constSqs, K) = const * const
      /\ SumFunctionOnSet(missSqs, K) = miss * miss
  <2> DEFINE one == 1
  <2>1. K = {one} /\ \A p \in P : squares[p][one] \in Int /\ squares[p][one] = square[p]
    BY <1>4 DEF K
  <2>2. /\ constSqs[one] \in Int /\ constSqs[one] = const * const
        /\ missSqs[one] \in Int /\ missSqs[one] = miss * miss
    BY <1>5
  <2> HIDE DEF P, constSqs, missSqs, one
  <2>3. ASSUME NEW p \in P
        PROVE  SumFunctionOnSet(squares[p], {one}) = square[p]
    <3> DEFINE f == squares[p]
    <3>1. f[one] \in Int /\ f[one] = square[p]
      BY <2>1
    <3> HIDE DEF f
    <3>2. SumFunctionOnSet(f, {one}) = square[p]
      BY <3>1, SumOne
    <3> QED
      BY <3>2 DEF f
  <2>4. SumFunctionOnSet(constSqs, {one}) = const * const
    BY <2>2, SumOne
  <2>5. SumFunctionOnSet(missSqs, {one}) = miss * miss
    BY <2>2, SumOne
  <2> QED
    BY <2>1, <2>3, <2>4, <2>5
<1>10. \A p \in P : q.Q[p] = w * SumFunctionOnSet(squares[p], K)
                              + IF p[1] = p[2] THEN d[p[1]] ELSE 0
  BY <1>9
<1>11. Energy(q, b) = q.offset - w * SumFunctionOnSet(constSqs, K)
                        + w * SumFunctionOnSet(missSqs, K) + Linear(n, d, b)
  <2>1. \A x \in K : constSqs[x] = consts[x] * consts[x] /\ missSqs[x] = misses[x] * misses[x]
    OBVIOUS
  <2> HIDE DEF constSqs, missSqs
  <2>2. IsSumOfSquares(q, b, K, cs, consts, w, d, squares, misses, constSqs, missSqs)
    BY <1>1, <1>6, <1>7, <1>8, <1>10, <2>1 DEF IsSumOfSquares
  <2> QED
    BY <2>2, EnergyOfSquares
<1> QED
  BY <1>9, <1>11 DEF miss
=============================================================================
