------------------------------- MODULE Lemmas -------------------------------
(***************************************************************************)
(* What the proofs of several modules need of the operators they share:    *)
(* sums over finite sets, loops over a batch, the lists of signers that    *)
(* ProofLib accepts and the charges of the rate limiter.  Sums and loops   *)
(* are folds, which are recursive: what they compute is proved by taking   *)
(* the least number at which it would fail (UpTo).                         *)
(***************************************************************************)
EXTENDS ProofLib, TokenUsage, SequencesExt, FiniteSetTheorems, WellFoundedInduction, TLAPS

\* A set that holds 0 and with each number before n the next one holds all up to n.
LEMMA UpTo ==
    ASSUME NEW n \in Nat, NEW S, 0 \in S, \A k \in 0 .. n - 1 : k \in S => k + 1 \in S
    PROVE  \A k \in 0 .. n : k \in S
<1> DEFINE T == (0 .. n) \ S
<1>1. SUFFICES ASSUME T # {}
               PROVE  FALSE
  OBVIOUS
<1>2. T \subseteq Nat
  OBVIOUS
<1>3. PICK k \in T : \A y \in T : ~(<<y, k>> \in OpToRel(<, Nat))
  <2> HIDE DEF T
  <2> QED  BY <1>1, <1>2, NatLessThanWellFounded, WFMin
<1>4. k - 1 \in 0 .. n - 1 /\ k - 1 \in T
  <2>1. k \in 0 .. n /\ k \notin S /\ k # 0
    OBVIOUS
  <2>2. k - 1 \in 0 .. n - 1 /\ (k - 1) + 1 = k
    BY ONLY <2>1, n \in Nat
  <2>3. k - 1 \notin S
    BY ONLY <2>1, <2>2, \A j \in 0 .. n - 1 : j \in S => j + 1 \in S
  <2> QED  BY ONLY <2>2, <2>3, n \in Nat DEF T
<1>5. <<k - 1, k>> \in OpToRel(<, Nat)
  <2>1. k - 1 \in Nat /\ k \in Nat /\ k - 1 < k
    BY ONLY <1>4, n \in Nat DEF T
  <2> QED  BY ONLY <2>1 DEF OpToRel
<1> QED
  BY <1>3, <1>4, <1>5

-----------------------------------------------------------------------------
\* Sums

Chosen(T) == CHOOSE x \in T : TRUE

\* g is the sum of f over every part of S, by the recursion that SumFunctionOnSet is.
IsSum(g, f, S) ==
    g = [T \in SUBSET S |-> IF T = {} THEN 0 ELSE f[Chosen(T)] + g[T \ {Chosen(T)}]]

\* The element chosen of a set is one of it.
LEMMA ChosenIn == ASSUME NEW T, T # {} PROVE Chosen(T) \in T
  BY DEF Chosen

\* A finite set without one of its elements is smaller by one.
LEMMA SmallerPart ==
    ASSUME NEW T, IsFiniteSet(T), NEW x \in T
    PROVE  /\ IsFiniteSet(T \ {x})
           /\ Cardinality(T) \in Nat /\ Cardinality(T \ {x}) \in Nat
           /\ Cardinality(T \ {x}) = Cardinality(T) - 1
<1>1. IsFiniteSet(T \ {x}) /\ Cardinality(T \ {x}) = Cardinality(T) - 1
  BY FS_RemoveElement
<1> QED
  BY <1>1, FS_CardinalityType

\* Induction over a finite set: what holds of the empty set, and of a set if it holds
\* when any one element is taken out, holds of the set.
LEMMA PartsInduction ==
    ASSUME NEW S, IsFiniteSet(S), NEW P, {} \in P,
           \A T \in SUBSET S : T # {} /\ (\A x \in T : T \ {x} \in P) => T \in P
    PROVE  \A T \in SUBSET S : T \in P
<1> DEFINE K == {k \in Nat : \A T \in SUBSET S : Cardinality(T) <= k => T \in P}
<1>1. /\ Cardinality(S) \in Nat
      /\ \A T \in SUBSET S : IsFiniteSet(T) /\ Cardinality(T) \in 0 .. Cardinality(S)
  BY FS_CardinalityType, FS_Subset
<1>2. 0 \in K
  <2>1. \A T \in SUBSET S : Cardinality(T) <= 0 => T = {}
    BY <1>1, FS_EmptySet
  <2> QED  BY <2>1
<1>3. ASSUME NEW k \in 0 .. Cardinality(S) - 1, k \in K
      PROVE  k + 1 \in K
  <2> SUFFICES ASSUME NEW T \in SUBSET S, Cardinality(T) <= k + 1
               PROVE  T \in P
    BY <1>3
  <2>1. ASSUME NEW x \in T
        PROVE  T \ {x} \in P
    <3>1. Cardinality(T \ {x}) <= k
      BY <1>1, SmallerPart
    <3> QED  BY <1>3, <3>1
  <2> QED  BY <2>1
<1> HIDE DEF K
<1>4. Cardinality(S) \in K
  BY <1>1, <1>2, <1>3, UpTo
<1> QED
  BY <1>1, <1>4 DEF K

\* There is such a g: it is put together from parts of growing cardinality.
LEMMA SumDefined ==
    ASSUME NEW S, IsFiniteSet(S), NEW f, \A x \in S : f[x] \in Int
    PROVE  \E g \in [SUBSET S -> Int] : IsSum(g, f, S)
<1> DEFINE Parts(k) == {T \in SUBSET S : Cardinality(T) <= k}
           Sums(g, k) == \A T \in Parts(k) :
                           g[T] = IF T = {} THEN 0 ELSE f[Chosen(T)] + g[T \ {Chosen(T)}]
           K == {k \in Nat : \E g \in [Parts(k) -> Int] : Sums(g, k)}
           n == Cardinality(S)
<1>1. n \in Nat /\ \A T \in SUBSET S : IsFiniteSet(T) /\ Cardinality(T) \in Nat /\ Cardinality(T) <= n
  BY FS_CardinalityType, FS_Subset
<1>2. 0 \in K
  <2>1. \A T \in Parts(0) : T = {}
    <3> TAKE T \in Parts(0)
    <3>1. Cardinality(T) = 0 /\ IsFiniteSet(T)
      BY <1>1
    <3> QED  BY <3>1, FS_EmptySet
  <2>2. [T \in Parts(0) |-> 0] \in [Parts(0) -> Int] /\ Sums([T \in Parts(0) |-> 0], 0)
    BY <2>1
  <2> QED  BY <2>2
<1>3. ASSUME NEW k \in 0 .. n - 1, k \in K
      PROVE  k + 1 \in K
  <2>1. PICK g \in [Parts(k) -> Int] : Sums(g, k)
    BY <1>3
  <2> DEFINE h == [T \in Parts(k + 1) |-> IF T = {} THEN 0 ELSE f[Chosen(T)] + g[T \ {Chosen(T)}]]
  <2>2. ASSUME NEW T \in Parts(k + 1), T # {}
        PROVE  /\ T \ {Chosen(T)} \in Parts(k) /\ T \ {Chosen(T)} \in Parts(k + 1)
               /\ f[Chosen(T)] \in Int
    <3>1. Chosen(T) \in T /\ IsFiniteSet(T)
      BY <1>1, <2>2, ChosenIn
    <3>2. /\ Cardinality(T) \in Nat /\ Cardinality(T \ {Chosen(T)}) \in Nat
          /\ Cardinality(T \ {Chosen(T)}) = Cardinality(T) - 1
      BY <3>1, SmallerPart
    <3>3. /\ Cardinality(T) <= k + 1 /\ k \in Int
          /\ Cardinality(T \ {Chosen(T)}) <= k /\ Cardinality(T \ {Chosen(T)}) <= k + 1
      BY <1>1, <2>2, <3>2
    <3> QED  BY <3>1, <3>3
  <2>3. \A T \in Parts(k) : T \in Parts(k + 1) /\ h[T] = g[T]
    <3>1. \A T \in Parts(k) : T \in Parts(k + 1)
      BY <1>1
    <3> HIDE DEF Parts
    <3> QED  BY <2>1, <3>1
  <2> HIDE DEF Parts
  <2>4. h \in [Parts(k + 1) -> Int]
    BY <2>1, <2>2
  <2>5. Sums(h, k + 1)
    BY <2>2, <2>3
  <2> HIDE DEF h, Sums
  <2>6. \E w \in [Parts(k + 1) -> Int] : Sums(w, k + 1)
    BY <2>4, <2>5
  <2>7. k + 1 \in Nat
    BY <1>1
  <2> QED  BY <2>6, <2>7
<1> HIDE DEF K
<1>4. n \in K
  BY <1>1, <1>2, <1>3, UpTo
<1>5. PICK g \in [Parts(n) -> Int] : Sums(g, n)
  BY <1>4 DEF K
<1>6. Parts(n) = SUBSET S
  BY <1>1
<1>7. g \in [SUBSET S -> Int] /\ IsSum(g, f, S)
  <2> HIDE DEF Parts
  <2> QED  BY <1>5, <1>6 DEF IsSum
<1> QED
  BY <1>7

\* SumFunctionOnSet is such a g.
LEMMA SumUnfold ==
    ASSUME NEW S, IsFiniteSet(S), NEW f, \A x \in S : f[x] \in Int
    PROVE  \E g \in [SUBSET S -> Int] : IsSum(g, f, S) /\ SumFunctionOnSet(f, S) = g[S]
<1> DEFINE g == CHOOSE g : IsSum(g, f, S)
<1>1. PICK w \in [SUBSET S -> Int] : IsSum(w, f, S)
  BY SumDefined
<1>2. IsSum(g, f, S)
  BY <1>1
<1>3. SumFunctionOnSet(f, S) = g[S]
  BY DEF SumFunctionOnSet, FoldFunctionOnSet, MapThenFoldSet, IsSum, Chosen
<1> DEFINE P == {T \in SUBSET S : g[T] \in Int}
<1> HIDE DEF g
<1>4. {} \in P
  BY <1>2 DEF IsSum
<1>5. ASSUME NEW T \in SUBSET S, T # {}, \A x \in T : T \ {x} \in P
      PROVE  T \in P
  <2>1. Chosen(T) \in T
    BY <1>5, ChosenIn
  <2>2. f[Chosen(T)] \in Int /\ g[T \ {Chosen(T)}] \in Int
    BY <1>5, <2>1
  <2>3. g[T] = f[Chosen(T)] + g[T \ {Chosen(T)}]
    BY <1>2, <1>5 DEF IsSum
  <2> QED  BY <2>2, <2>3
<1> HIDE DEF P
<1>6. \A T \in SUBSET S : T \in P
  BY <1>4, <1>5, PartsInduction
<1>7. g \in [SUBSET S -> Int]
  BY <1>2, <1>6 DEF P, IsSum
<1> QED
  BY <1>2, <1>3, <1>7

\* A sum of integers is an integer.
LEMMA SumType ==
    ASSUME NEW S, IsFiniteSet(S), NEW f, \A x \in S : f[x] \in Int
    PROVE  SumFunctionOnSet(f, S) \in Int
<1>1. PICK g \in [SUBSET S -> Int] : IsSum(g, f, S) /\ SumFunctionOnSet(f, S) = g[S]
  BY SumUnfold
<1> QED
  BY <1>1

\* The empty sum.
LEMMA SumEmpty == ASSUME NEW f PROVE SumFunctionOnSet(f, {}) = 0
<1>1. IsFiniteSet({}) /\ \A x \in {} : f[x] \in Int
  BY FS_EmptySet
<1>2. PICK g \in [SUBSET {} -> Int] : IsSum(g, f, {}) /\ SumFunctionOnSet(f, {}) = g[{}]
  BY <1>1, SumUnfold
<1> QED
  BY <1>2 DEF IsSum

\* The sum over a part of S is the value there of any sum over the parts of S.
LEMMA SumOfPart ==
    ASSUME NEW S, IsFiniteSet(S), NEW f, \A x \in S : f[x] \in Int,
           NEW g, IsSum(g, f, S), NEW T \in SUBSET S
    PROVE  SumFunctionOnSet(f, T) = g[T]
<1>1. IsFiniteSet(T)
  BY FS_Subset
<1>2. PICK h \in [SUBSET T -> Int] : IsSum(h, f, T) /\ SumFunctionOnSet(f, T) = h[T]
  BY <1>1, SumUnfold
<1> DEFINE P == {R \in SUBSET T : g[R] = h[R]}
<1>3. {} \in P
  BY <1>2 DEF IsSum
<1>4. ASSUME NEW R \in SUBSET T, R # {}, \A x \in R : R \ {x} \in P
      PROVE  R \in P
  BY <1>2, <1>4, ChosenIn DEF IsSum
<1> HIDE DEF P
<1>5. \A R \in SUBSET T : R \in P
  BY <1>1, <1>3, <1>4, PartsInduction
<1> QED
  BY <1>2, <1>5 DEF P

\* Any element may be taken out first.
LEMMA SumRemove ==
    ASSUME NEW S, IsFiniteSet(S), NEW f, \A x \in S : f[x] \in Int, NEW z \in S
    PROVE  SumFunctionOnSet(f, S) = f[z] + SumFunctionOnSet(f, S \ {z})
<1>1. PICK g \in [SUBSET S -> Int] : IsSum(g, f, S)
  BY SumUnfold
<1>2. \A T \in SUBSET S : SumFunctionOnSet(f, T) = g[T]
  BY <1>1, SumOfPart
<1> DEFINE P == {T \in SUBSET S : \A x \in T : g[T] = f[x] + g[T \ {x}]}
<1>3. ASSUME NEW T \in SUBSET S, \A x \in T : T \ {x} \in P, NEW x \in T
      PROVE  g[T] = f[x] + g[T \ {x}]
  <2> DEFINE c == Chosen(T)
  <2>1. c \in T /\ g[T] = f[c] + g[T \ {c}]
    BY <1>1, ChosenIn DEF IsSum
  <2> HIDE DEF c
  <2>2. CASE x # c
    <3>1. /\ T \ {c, x} \in SUBSET S /\ c \in T \ {x} /\ x \in T \ {c}
          /\ (T \ {c}) \ {x} = T \ {c, x} /\ (T \ {x}) \ {c} = T \ {c, x}
      BY <2>1, <2>2
    <3>2. g[T \ {c}] = f[x] + g[T \ {c, x}]
      BY <1>3, <2>1, <3>1
    <3>3. g[T \ {x}] = f[c] + g[T \ {c, x}]
      BY <1>3, <3>1
    <3>4. f[x] \in Int /\ f[c] \in Int /\ g[T \ {c, x}] \in Int
      BY <1>1, <2>1, <3>1
    <3> QED  BY <2>1, <3>2, <3>3, <3>4
  <2> QED  BY <2>1, <2>2
<1>4. {} \in P /\ \A T \in SUBSET S : T # {} /\ (\A x \in T : T \ {x} \in P) => T \in P
  BY <1>3
<1> HIDE DEF P
<1>5. \A T \in SUBSET S : T \in P
  BY <1>4, PartsInduction
<1>6. g[S] = f[z] + g[S \ {z}]
  BY <1>5 DEF P
<1> QED
  BY <1>2, <1>6

\* A new element adds its value.
LEMMA SumAdd ==
    ASSUME NEW S, IsFiniteSet(S), NEW f, \A x \in S : f[x] \in Int, NEW z, z \notin S, f[z] \in Int
    PROVE  SumFunctionOnSet(f, S \cup {z}) = f[z] + SumFunctionOnSet(f, S)
<1>1. IsFiniteSet(S \cup {z}) /\ (S \cup {z}) \ {z} = S
  BY FS_AddElement
<1> QED
  BY <1>1, SumRemove

\* Functions that agree on a set have the same sum over it.
LEMMA SumEqual ==
    ASSUME NEW S, IsFiniteSet(S), NEW f, NEW g, \A x \in S : f[x] \in Int /\ g[x] = f[x]
    PROVE  SumFunctionOnSet(g, S) = SumFunctionOnSet(f, S)
<1> DEFINE P == {T \in SUBSET S : SumFunctionOnSet(g, T) = SumFunctionOnSet(f, T)}
<1>1. {} \in P
  BY SumEmpty
<1>2. ASSUME NEW T \in SUBSET S, T # {}, \A x \in T : T \ {x} \in P
      PROVE  T \in P
  <2>1. PICK x \in T : TRUE
    BY <1>2
  <2>2. IsFiniteSet(T) /\ \A y \in T : f[y] \in Int /\ g[y] \in Int
    BY FS_Subset
  <2>3. /\ SumFunctionOnSet(f, T) = f[x] + SumFunctionOnSet(f, T \ {x})
        /\ SumFunctionOnSet(g, T) = g[x] + SumFunctionOnSet(g, T \ {x})
    BY <2>2, SumRemove
  <2> QED  BY <1>2, <2>3
<1> HIDE DEF P
<1>3. \A T \in SUBSET S : T \in P
  BY <1>1, <1>2, PartsInduction
<1> QED
  BY <1>3 DEF P

\* A sum of natural numbers is one.
LEMMA SumNonNegative ==
    ASSUME NEW S, IsFiniteSet(S), NEW f, \A x \in S : f[x] \in Nat
    PROVE  SumFunctionOnSet(f, S) \in Nat
<1> DEFINE P == {T \in SUBSET S : SumFunctionOnSet(f, T) \in Nat}
<1>1. {} \in P
  BY SumEmpty
<1>2. ASSUME NEW T \in SUBSET S, T # {}, \A x \in T : T \ {x} \in P
      PROVE  T \in P
  <2>1. PICK x \in T : TRUE
    BY <1>2
  <2>2. IsFiniteSet(T) /\ \A y \in T : f[y] \in Int
    BY FS_Subset
  <2>3. SumFunctionOnSet(f, T) = f[x] + SumFunctionOnSet(f, T \ {x})
    BY <2>2, SumRemove
  <2> QED  BY <1>2, <2>3
<1> HIDE DEF P
<1>3. \A T \in SUBSET S : T \in P
  BY <1>1, <1>2, PartsInduction
<1> QED
  BY <1>3 DEF P

\* Changing every sign changes the sign of the sum.
LEMMA SumOpposite ==
    ASSUME NEW S, IsFiniteSet(S), NEW f, NEW g, \A x \in S : f[x] \in Int /\ g[x] = - f[x]
    PROVE  SumFunctionOnSet(g, S) = - SumFunctionOnSet(f, S)
<1> DEFINE P == {T \in SUBSET S : SumFunctionOnSet(g, T) = - SumFunctionOnSet(f, T)}
<1>1. {} \in P
  BY SumEmpty
<1>2. ASSUME NEW T \in SUBSET S, T # {}, \A x \in T : T \ {x} \in P
      PROVE  T \in P
  <2>1. PICK x \in T : TRUE
    BY <1>2
  <2>2. IsFiniteSet(T) /\ \A y \in T : f[y] \in Int /\ g[y] \in Int
    BY FS_Subset
  <2>3. /\ SumFunctionOnSet(f, T) = f[x] + SumFunctionOnSet(f, T \ {x})
        /\ SumFunctionOnSet(g, T) = g[x] + SumFunctionOnSet(g, T \ {x})
    BY <2>2, SumRemove
  <2>4. IsFiniteSet(T \ {x}) /\ \A y \in T \ {x} : f[y] \in Int
    BY <2>2, FS_Subset
  <2>5. SumFunctionOnSet(f, T \ {x}) \in Int
    BY ONLY <2>4, SumType
  <2>6. SumFunctionOnSet(g, T \ {x}) = - SumFunctionOnSet(f, T \ {x}) /\ f[x] \in Int /\ g[x] = - f[x]
    BY <1>2
  <2> QED  BY ONLY <2>3, <2>5, <2>6, T \in SUBSET S DEF P
<1> HIDE DEF P
<1>3. \A T \in SUBSET S : T \in P
  BY <1>1, <1>2, PartsInduction
<1> QED
  BY <1>3 DEF P

\* The sum over two sets that have nothing in common.
LEMMA SumDisjoint ==
    ASSUME NEW S, IsFiniteSet(S), NEW R, IsFiniteSet(R), S \cap R = {},
           NEW f, \A x \in S \cup R : f[x] \in Int
    PROVE  SumFunctionOnSet(f, S \cup R) = SumFunctionOnSet(f, S) + SumFunctionOnSet(f, R)
<1> DEFINE P == {T \in SUBSET S : SumFunctionOnSet(f, T \cup R)
                                    = SumFunctionOnSet(f, T) + SumFunctionOnSet(f, R)}
<1>1. SumFunctionOnSet(f, R) \in Int
  BY SumType
<1>2. {} \in P
  BY <1>1, SumEmpty
<1>3. ASSUME NEW T \in SUBSET S, T # {}, \A x \in T : T \ {x} \in P
      PROVE  T \in P
  <2>1. PICK x \in T : TRUE
    BY <1>3
  <2>2. IsFiniteSet(T) /\ \A y \in T \cup R : f[y] \in Int
    BY FS_Subset
  <2>3. SumFunctionOnSet(f, T) = f[x] + SumFunctionOnSet(f, T \ {x})
    BY <2>2, SumRemove
  <2>4. SumFunctionOnSet(f, T \cup R) = f[x] + SumFunctionOnSet(f, (T \ {x}) \cup R)
    <3>1. IsFiniteSet(T \cup R) /\ (T \cup R) \ {x} = (T \ {x}) \cup R /\ x \in T \cup R
      BY <2>2, FS_Union
    <3> QED  BY <2>2, <3>1, SumRemove
  <2>5. SumFunctionOnSet(f, T \ {x}) \in Int /\ f[x] \in Int
    <3>1. IsFiniteSet(T \ {x})
      BY FS_Subset
    <3> QED  BY <3>1, SumType
  <2> QED  BY <1>1, <1>3, <2>3, <2>4, <2>5
<1> HIDE DEF P
<1>4. \A T \in SUBSET S : T \in P
  BY <1>2, <1>3, PartsInduction
<1> QED
  BY <1>4 DEF P

\* A sum of zeros.
LEMMA SumZero ==
    ASSUME NEW S, IsFiniteSet(S), NEW f, \A x \in S : f[x] = 0
    PROVE  SumFunctionOnSet(f, S) = 0
<1>1. \A x \in S : f[x] \in Int /\ f[x] = - f[x]
  OBVIOUS
<1>2. SumFunctionOnSet(f, S) = - SumFunctionOnSet(f, S)
  BY ONLY <1>1, IsFiniteSet(S), SumOpposite
<1>3. SumFunctionOnSet(f, S) \in Int
  BY ONLY <1>1, IsFiniteSet(S), SumType
<1> QED
  BY <1>2, <1>3

\* Changing the value of one element changes the sum by as much.
LEMMA SumChange ==
    ASSUME NEW S, IsFiniteSet(S), NEW f, NEW g, NEW z, NEW d \in Int,
           \A x \in S : f[x] \in Int /\ g[x] = f[x] + (IF x = z THEN d ELSE 0)
    PROVE  SumFunctionOnSet(g, S) = SumFunctionOnSet(f, S) + (IF z \in S THEN d ELSE 0)
<1>1. \A x \in S : f[x] \in Int /\ g[x] \in Int
  OBVIOUS
<1>2. CASE z \in S
  <2> DEFINE R == S \ {z}
  <2>1. IsFiniteSet(R) /\ R \subseteq S
    BY FS_RemoveElement
  <2>2. SumFunctionOnSet(g, S) = g[z] + SumFunctionOnSet(g, R)
    BY <1>1, <1>2, SumRemove
  <2>3. SumFunctionOnSet(f, S) = f[z] + SumFunctionOnSet(f, R)
    BY <1>1, <1>2, SumRemove
  <2>4. \A x \in R : f[x] \in Int /\ g[x] = f[x]
    OBVIOUS
  <2>5. g[z] = f[z] + d /\ f[z] \in Int
    BY <1>2
  <2> HIDE DEF R
  <2>6. SumFunctionOnSet(g, R) = SumFunctionOnSet(f, R)
    BY ONLY <2>1, <2>4, SumEqual
  <2>7. \A x \in R : f[x] \in Int
    BY <2>4
  <2>8. SumFunctionOnSet(f, R) \in Int
    BY ONLY <2>1, <2>7, SumType
  <2> QED  BY <1>2, <2>2, <2>3, <2>5, <2>6, <2>8
<1>3. CASE z \notin S
  <2>1. \A x \in S : f[x] \in Int /\ g[x] = f[x]
    BY <1>3
  <2>2. SumFunctionOnSet(g, S) = SumFunctionOnSet(f, S)
    BY ONLY <2>1, IsFiniteSet(S), SumEqual
  <2>3. SumFunctionOnSet(f, S) \in Int
    BY ONLY <1>1, IsFiniteSet(S), SumType
  <2> QED  BY <1>3, <2>2, <2>3
<1> QED
  BY <1>2, <1>3

\* A finite set has a finite image.
LEMMA FiniteImage ==
    ASSUME NEW S, IsFiniteSet(S), NEW h
    PROVE  IsFiniteSet({h[x] : x \in S})
<1> DEFINE R == {h[x] : x \in S}
           f == [x \in S |-> h[x]]
<1>1. f \in [S -> R] /\ \A y \in R : \E x \in S : f[x] = y
  OBVIOUS
<1>2. f \in Surjection(S, R)
  BY <1>1 DEF Surjection
<1> HIDE DEF f, R
<1>3. IsFiniteSet(R)
  BY <1>2, FS_Surjection
<1> QED
  BY <1>3 DEF R

\* h is a one-to-one map of S onto R.
OneToOne(h, S, R) ==
    /\ \A x, y \in S : h[x] = h[y] => x = y
    /\ \A x \in S : h[x] \in R
    /\ \A y \in R : \E x \in S : y = h[x]

\* f is at h[x] what g is at x.
AgreeAlong(f, h, g, S) == \A x \in S : g[x] \in Int /\ f[h[x]] = g[x]


\* Summing over the images of different elements is summing over the elements.
LEMMA SumImage ==
    ASSUME NEW S, IsFiniteSet(S), NEW h, NEW R, OneToOne(h, S, R),
           NEW f, NEW g, AgreeAlong(f, h, g, S)
    PROVE  SumFunctionOnSet(f, R) = SumFunctionOnSet(g, S)
<1> USE DEF OneToOne, AgreeAlong
<1> DEFINE Image(T) == {h[x] : x \in T}
           P == {T \in SUBSET S : SumFunctionOnSet(f, Image(T)) = SumFunctionOnSet(g, T)}
<1>1. {} \in P
  <2>1. Image({}) = {}
    OBVIOUS
  <2> QED  BY <2>1, SumEmpty
<1>2. ASSUME NEW T \in SUBSET S, T # {}, \A x \in T : T \ {x} \in P
      PROVE  T \in P
  <2>1. PICK x \in T : TRUE
    BY <1>2
  <2>2. IsFiniteSet(T) /\ \A y \in T : g[y] \in Int
    BY FS_Subset
  <2>3. SumFunctionOnSet(g, T) = g[x] + SumFunctionOnSet(g, T \ {x})
    BY <2>2, SumRemove
  <2>4. IsFiniteSet(Image(T)) /\ \A y \in Image(T) : f[y] \in Int
    BY <2>2, FiniteImage
  <2>5. h[x] \in Image(T) /\ Image(T) \ {h[x]} = Image(T \ {x})
    OBVIOUS
  <2> HIDE DEF Image
  <2>6. SumFunctionOnSet(f, Image(T)) = f[h[x]] + SumFunctionOnSet(f, Image(T) \ {h[x]})
    BY ONLY <2>4, <2>5, SumRemove
  <2>7. SumFunctionOnSet(f, Image(T \ {x})) = SumFunctionOnSet(g, T \ {x})
    BY <1>2
  <2> QED  BY <2>3, <2>5, <2>6, <2>7
<1>4. R = Image(S)
  OBVIOUS
<1> HIDE DEF P
<1>3. \A T \in SUBSET S : T \in P
  BY <1>1, <1>2, PartsInduction
<1> QED
  BY <1>3, <1>4 DEF P

\* A quantity that changes by f[k] in step k has changed by the sum after all steps.
LEMMA ChangesAdd ==
    ASSUME NEW n \in Nat, NEW x \in [0 .. n -> Int], NEW f \in [1 .. n -> Int],
           \A k \in 1 .. n : x[k] = x[k - 1] + f[k]
    PROVE  x[n] = x[0] + SumFunctionOnSet(f, 1 .. n)
<1> DEFINE sum(k) == SumFunctionOnSet(f, 1 .. k)
           S == {k \in 0 .. n : x[k] = x[0] + sum(k)}
<1>1. sum(0) = 0
  <2>1. 1 .. 0 = {}
    OBVIOUS
  <2> QED  BY <2>1, SumEmpty
<1>2. ASSUME NEW k \in 0 .. n - 1
      PROVE  sum(k + 1) = sum(k) + f[k + 1] /\ sum(k) \in Int /\ f[k + 1] \in Int
  <2>1. (1 .. k) \cup {k + 1} = 1 .. k + 1 /\ k + 1 \notin 1 .. k
    OBVIOUS
  <2>2. (\A i \in 1 .. k : f[i] \in Int) /\ f[k + 1] \in Int
    OBVIOUS
  <2>3. IsFiniteSet(1 .. k)
    BY FS_Interval
  <2>4. sum(k) \in Int /\ sum(k + 1) = f[k + 1] + sum(k)
    BY ONLY <2>1, <2>2, <2>3, SumAdd, SumType
  <2> HIDE DEF sum
  <2> QED  BY ONLY <2>2, <2>4
<1> HIDE DEF sum
<1>3. 0 \in S
  BY <1>1
<1>4. ASSUME NEW k \in 0 .. n - 1, k \in S
      PROVE  k + 1 \in S
  <2>1. k + 1 \in 1 .. n /\ k + 1 \in 0 .. n /\ (k + 1) - 1 = k /\ x[0] \in Int
    OBVIOUS
  <2> QED  BY <1>2, <1>4, <2>1
<1> HIDE DEF S
<1>5. \A k \in 0 .. n : k \in S
  BY <1>3, <1>4, UpTo
<1> QED
  BY <1>5 DEF S, sum

-----------------------------------------------------------------------------
\* Loops: FoldLeft over a batch of n items, which takes the largest index out first.

\* A part of an interval has a largest element.
LEMMA MaxOfPart ==
    ASSUME NEW n \in Nat, NEW T \in SUBSET (1 .. n), T # {}
    PROVE  Max(T) \in T /\ \A y \in T : Max(T) >= y
<1> DEFINE D == {n - x : x \in T}
<1>1. D \subseteq Nat /\ D # {}
  <2>1. \A x \in T : x \in 1 .. n
    OBVIOUS
  <2>2. \A x \in T : n - x \in Nat
    BY <2>1
  <2> QED  BY <2>2
<1>2. PICK d \in D : \A y \in D : ~(<<y, d>> \in OpToRel(<, Nat))
  <2> HIDE DEF D
  <2> QED  BY <1>1, NatLessThanWellFounded, WFMin
<1>3. PICK x \in T : d = n - x
  OBVIOUS
<1>4. ASSUME NEW y \in T
      PROVE  x >= y
  <2>1. n - y \in D /\ n - y \in Nat /\ d \in Nat
    BY <1>1
  <2>2. ~(n - y < d)
    BY <1>2, <2>1 DEF OpToRel
  <2>3. x \in Int /\ y \in Int
    OBVIOUS
  <2> QED  BY ONLY <1>3, <2>1, <2>2, <2>3, n \in Nat
<1> QED
  BY <1>4 DEF Max

\* The largest element of an interval is its end.
LEMMA MaxOfInterval ==
    ASSUME NEW n \in Nat \ {0}
    PROVE  Max(1 .. n) = n /\ (1 .. n) \ {n} = 1 .. n - 1
<1>1. 1 .. n # {} /\ n \in 1 .. n
  OBVIOUS
<1>2. Max(1 .. n) \in 1 .. n /\ Max(1 .. n) >= n
  BY <1>1, MaxOfPart
<1> QED
  BY <1>2

\* The largest element of a part of an interval, and what is left without it.
LEMMA WithoutLargest ==
    ASSUME NEW n \in Nat, NEW k \in 0 .. n - 1, NEW T \in SUBSET (1 .. k + 1), T # {}
    PROVE  Max(T) \in 1 .. n /\ T \ {Max(T)} \in SUBSET (1 .. k)
<1>1. k \in Nat /\ k + 1 \in Nat /\ k + 1 <= n
  OBVIOUS
<1>2. PICK m \in T : m = Max(T) /\ \A y \in T : m >= y
  BY <1>1, MaxOfPart
<1>3. \A y \in T : y \in 1 .. k + 1
  OBVIOUS
<1>4. m \in 1 .. n
  BY ONLY <1>1, <1>3, m \in T, n \in Nat
<1>5. \A y \in T \ {m} : y \in 1 .. k
  BY ONLY <1>1, <1>2, <1>3, m \in T
<1> QED
  BY <1>2, <1>4, <1>5

\* w is the state of a loop after every part of 1 .. n, by the recursion FoldLeft is: the loop
\* starts with b, and F[i] is the state item i makes of a state.
IsLoop(w, n, b, F) ==
    \A T \in SUBSET (1 .. n) : w[T] = IF T = {} THEN b ELSE F[Max(T)][w[T \ {Max(T)}]]

\* There is such a w: it is put together from longer and longer prefixes.
LEMMA LoopDefined ==
    ASSUME NEW n \in Nat, NEW St, NEW b \in St, NEW F \in [1 .. n -> [St -> St]]
    PROVE  \E w \in [SUBSET (1 .. n) -> St] : IsLoop(w, n, b, F)
<1> DEFINE Solves(w, k) == \A T \in SUBSET (1 .. k) :
                             w[T] = IF T = {} THEN b ELSE F[Max(T)][w[T \ {Max(T)}]]
           K == {k \in Nat : \E w \in [SUBSET (1 .. k) -> St] : Solves(w, k)}
<1>1. 0 \in K
  <2>1. \A T \in SUBSET (1 .. 0) : T = {}
    OBVIOUS
  <2>2. [T \in SUBSET (1 .. 0) |-> b] \in [SUBSET (1 .. 0) -> St] /\ Solves([T \in SUBSET (1 .. 0) |-> b], 0)
    BY <2>1
  <2> QED  BY <2>2
<1>2. ASSUME NEW k \in 0 .. n - 1, k \in K
      PROVE  k + 1 \in K
  <2>1. PICK g \in [SUBSET (1 .. k) -> St] : Solves(g, k)
    BY <1>2
  <2> DEFINE h == [T \in SUBSET (1 .. k + 1) |-> IF T = {} THEN b ELSE F[Max(T)][g[T \ {Max(T)}]]]
  <2>2. ASSUME NEW T \in SUBSET (1 .. k + 1), T # {}
        PROVE  Max(T) \in 1 .. n /\ T \ {Max(T)} \in SUBSET (1 .. k)
    BY <2>2, WithoutLargest
  <2>3. SUBSET (1 .. k) \subseteq SUBSET (1 .. k + 1)
    OBVIOUS
  <2>4. \A T \in SUBSET (1 .. k) : h[T] = g[T]
    BY <2>1, <2>3
  <2>5. h \in [SUBSET (1 .. k + 1) -> St]
    <3>1. ASSUME NEW T \in SUBSET (1 .. k + 1), T # {}
          PROVE  F[Max(T)][g[T \ {Max(T)}]] \in St
      <4>1. g[T \ {Max(T)}] \in St /\ Max(T) \in 1 .. n
        BY <2>1, <2>2, <3>1
      <4> QED  BY ONLY <4>1, F \in [1 .. n -> [St -> St]]
    <3> QED  BY <3>1
  <2>6. Solves(h, k + 1)
    BY <2>2, <2>3, <2>4
  <2> HIDE DEF h, Solves
  <2>7. \E w \in [SUBSET (1 .. k + 1) -> St] : Solves(w, k + 1)
    BY <2>5, <2>6
  <2>8. k + 1 \in Nat
    OBVIOUS
  <2> QED  BY <2>7, <2>8
<1> HIDE DEF K
<1>3. \A k \in 0 .. n : k \in K
  BY <1>1, <1>2, UpTo
<1>4. n \in 0 .. n
  OBVIOUS
<1> QED
  BY <1>3, <1>4 DEF K, IsLoop

\* The sets 1 .. k are the prefixes at which a loop of n items is looked at.
LEMMA LoopPrefixes ==
    ASSUME NEW n \in Nat, NEW k \in 1 .. n
    PROVE  /\ 1 .. k \in SUBSET (1 .. n) /\ 1 .. k # {} /\ 1 .. 0 = {}
           /\ Max(1 .. k) = k /\ (1 .. k) \ {Max(1 .. k)} = 1 .. k - 1
<1>1. k \in Nat \ {0}
  OBVIOUS
<1>2. Max(1 .. k) = k /\ (1 .. k) \ {k} = 1 .. k - 1
  BY ONLY <1>1, MaxOfInterval
<1>3. \A i \in 1 .. k : i \in 1 .. n
  OBVIOUS
<1> QED
  BY ONLY <1>1, <1>2, <1>3

\* A loop that is not stopped at the end has not been stopped on the way.
LEMMA LoopOk ==
    ASSUME NEW n \in Nat, NEW r, \A k \in 1 .. n : r[k].ok => r[k - 1].ok, r[n].ok
    PROVE  \A k \in 0 .. n : r[k].ok
<1> DEFINE S == {k \in 0 .. n : r[n - k].ok}
<1>1. 0 \in S
  <2>1. n - 0 = n /\ 0 \in 0 .. n
    OBVIOUS
  <2> QED  BY <2>1
<1>2. ASSUME NEW k \in 0 .. n - 1, k \in S
      PROVE  k + 1 \in S
  <2>1. n - k \in 1 .. n /\ (n - k) - 1 = n - (k + 1) /\ k + 1 \in 0 .. n
    OBVIOUS
  <2> QED  BY <1>2, <2>1
<1> HIDE DEF S
<1>3. \A k \in 0 .. n : k \in S
  BY <1>1, <1>2, UpTo
<1>4. ASSUME NEW k \in 0 .. n
      PROVE  r[k].ok
  <2>1. n - k \in 0 .. n /\ n - (n - k) = k
    OBVIOUS
  <2> QED  BY <1>3, <2>1 DEF S
<1> QED
  BY <1>4

-----------------------------------------------------------------------------
\* Lists of signers

\* A list without repetitions has as many members as entries.
LEMMA ListCardinality ==
    ASSUME NEW list \in Seq(Nat), \A i, j \in DOMAIN list : i # j => list[i] # list[j]
    PROVE  LET S == {list[i] : i \in DOMAIN list}
           IN  IsFiniteSet(S) /\ Cardinality(S) = Len(list)
<1> DEFINE n == Len(list)
<1> DEFINE S == {list[i] : i \in DOMAIN list}
<1>1. DOMAIN list = 1 .. n /\ n \in Nat /\ list \in [1 .. n -> Nat]
  OBVIOUS
<1>2. IsFiniteSet(1 .. n) /\ Cardinality(1 .. n) = n
  <2> HIDE DEF n
  <2>1. 1 \in Int /\ n \in Int
    BY <1>1
  <2>2. IsFiniteSet(1 .. n) /\ Cardinality(1 .. n) = IF 1 > n THEN 0 ELSE n - 1 + 1
    BY <2>1, FS_Interval
  <2> QED
    BY <1>1, <2>2
<1>3. list \in [1 .. n -> S] /\ \A s \in S : \E i \in 1 .. n : list[i] = s
  BY <1>1
<1>4. \A i, j \in 1 .. n : list[i] = list[j] => i = j
  BY <1>1
<1>5. list \in Surjection(1 .. n, S) /\ list \in Injection(1 .. n, S)
  BY <1>3, <1>4 DEF Surjection, Injection, IsInjective
<1> HIDE DEF n, S
<1>6. IsFiniteSet(S) /\ Cardinality(S) = Cardinality(1 .. n)
  BY <1>2, <1>5, FS_Surjection
<1> QED
  BY <1>2, <1>6 DEF n, S

\* computeTxWeight compares each signer with the one before; a list it accepts ascends
\* as a whole.  A first entry with a larger or equal one before it would make the entry
\* before it another, earlier one.
LEMMA SignersAscend ==
    ASSUME NEW list \in Seq(Nat), NEW V, SignaturesOK(list, V)
    PROVE  \A i, j \in DOMAIN list : i < j => list[i] < list[j]
<1> DEFINE T == {j \in DOMAIN list : \E i \in DOMAIN list : i < j /\ list[i] >= list[j]}
<1>1. SUFFICES ASSUME T # {}
               PROVE  FALSE
  <2>1. \A i \in DOMAIN list : list[i] \in Nat
    OBVIOUS
  <2> QED  BY <1>1, <2>1
<1>2. T \subseteq Nat
  BY SMT
<1>3. PICK j \in T : \A y \in T : ~(<<y, j>> \in OpToRel(<, Nat))
  <2> HIDE DEF T
  <2> QED  BY <1>1, <1>2, NatLessThanWellFounded, WFMin
<1>4. PICK i \in DOMAIN list : i < j /\ list[i] >= list[j]
  OBVIOUS
<1>5. /\ i \in Nat /\ j \in Nat /\ j - 1 \in DOMAIN list /\ i >= 1 /\ i <= j - 1
      /\ list[i] \in Nat /\ list[j] \in Nat /\ list[j - 1] \in Nat
  BY <1>4
<1>6. list[j - 1] < list[j]
  BY <1>5 DEF SignaturesOK
<1>7. j - 1 \in T
  BY <1>4, <1>5, <1>6
<1>8. <<j - 1, j>> \in OpToRel(<, Nat)
  BY <1>5 DEF OpToRel
<1> QED
  BY <1>3, <1>7, <1>8

\* So the weight of an accepted list is a number of different active validators.
THEOREM SignersCounted ==
    ASSUME NEW list \in Seq(Nat), NEW V, SignaturesOK(list, V)
    PROVE  LET S == {list[i] : i \in DOMAIN list}
           IN  S \subseteq V /\ IsFiniteSet(S) /\ Cardinality(S) = ComputeTxWeight(list)
<1>1. \A i, j \in DOMAIN list : i # j => list[i] # list[j]
  <2>1. \A i \in DOMAIN list : i \in Nat /\ list[i] \in Nat
    OBVIOUS
  <2> QED  BY <2>1, SignersAscend
<1>2. \A i \in DOMAIN list : list[i] \in V
  BY DEF SignaturesOK
<1> QED
  BY <1>1, <1>2, ListCardinality DEF ComputeTxWeight

\* And every set of validators can sign such a list: in ascending order.
LEMMA SignersListed ==
    ASSUME NEW S, IsFiniteSet(S), S \subseteq Nat \ {ZeroAddress}
    PROVE  \E list \in [1 .. Cardinality(S) -> S] : SignaturesOK(list, S)
<1> DEFINE P == {T \in SUBSET S : \E list \in [1 .. Cardinality(T) -> T] : SignaturesOK(list, T)}
<1>1. {} \in P
  <2>1. Cardinality({}) = 0
    BY FS_EmptySet
  <2>2. <<>> \in [1 .. 0 -> {}] /\ SignaturesOK(<<>>, {})
    BY DEF SignaturesOK
  <2> QED  BY <2>1, <2>2
<1>2. ASSUME NEW T \in SUBSET S, T # {}, \A x \in T : T \ {x} \in P
      PROVE  T \in P
  <2>1. IsFiniteSet(T) /\ T \subseteq Nat /\ ZeroAddress \notin T
    BY FS_Subset
  <2>2. PICK m \in T : \A y \in T : ~(<<y, m>> \in OpToRel(<, Nat))
    <3> HIDE DEF P
    <3> QED  BY ONLY <1>2, <2>1, NatLessThanWellFounded, WFMin
  <2>3. ASSUME NEW y \in T \ {m}
        PROVE  m < y
    <3>1. m \in Nat /\ y \in Nat /\ m # y
      BY <2>1, <2>2
    <3>2. <<y, m>> \in OpToRel(<, Nat) <=> y < m
      BY ONLY <3>1 DEF OpToRel
    <3>3. ~(y < m)
      BY <2>2, <3>2
    <3> QED  BY ONLY <3>1, <3>3
  <2> DEFINE n == Cardinality(T)
             R == T \ {m}
  <2>4. n \in Nat /\ Cardinality(R) = n - 1 /\ n - 1 \in Nat
    BY <2>1, <2>2, SmallerPart
  <2>5. PICK l \in [1 .. n - 1 -> R] : SignaturesOK(l, R)
    <3>1. R \in P
      BY <1>2
    <3> QED  BY <2>4, <3>1
  <2> DEFINE list == [i \in 1 .. n |-> IF i = 1 THEN m ELSE l[i - 1]]
  <2> HIDE DEF n
  <2>6. ASSUME NEW i \in 1 .. n
        PROVE  /\ list[i] \in T
               /\ list[i] > (IF i = 1 THEN ZeroAddress ELSE list[i - 1])
    <3>1. CASE i = 1
      <4>1. list[i] = m /\ m \in Nat /\ m # 0
        BY <2>1, <3>1 DEF ZeroAddress
      <4> HIDE DEF list
      <4> QED  BY <3>1, <4>1 DEF ZeroAddress
    <3>2. CASE i # 1
      <4>1. i - 1 \in 1 .. n - 1 /\ i - 1 \in 1 .. n
        BY <2>4, <3>2
      <4>2. list[i] = l[i - 1] /\ list[i] \in R
        BY <2>5, <3>2, <4>1
      <4>3. CASE i - 1 = 1
        <5>1. list[i - 1] = m
          BY <4>1, <4>3
        <5> HIDE DEF list, R
        <5>2. m < list[i] /\ list[i] \in Nat /\ m \in Nat
          BY <2>1, <2>3, <4>2 DEF R
        <5> QED  BY <3>2, <4>2, <5>1, <5>2 DEF R
      <4>4. CASE i - 1 # 1
        <5>1. list[i - 1] = l[(i - 1) - 1]
          BY <4>1, <4>4
        <5>2. l[i - 1] > l[(i - 1) - 1]
          BY <2>5, <4>1, <4>4 DEF SignaturesOK
        <5> HIDE DEF list
        <5> QED  BY <3>2, <4>2, <5>1, <5>2
      <4> QED  BY <4>3, <4>4
    <3> QED  BY <3>1, <3>2
  <2>7. list \in [1 .. n -> T] /\ DOMAIN list = 1 .. n
    BY <2>6
  <2> HIDE DEF list
  <2>8. SignaturesOK(list, T)
    BY <2>6, <2>7 DEF SignaturesOK
  <2> QED  BY <2>7, <2>8 DEF n
<1> HIDE DEF P
<1>3. S \in P
  BY <1>1, <1>2, PartsInduction
<1> QED
  BY <1>3 DEF P

-----------------------------------------------------------------------------
\* Charges of the rate limiter

\* Charging a usage record yields a usage record within the limit.
LEMMA ChargedUsage ==
    ASSUME NEW u \in Usage, NEW m \in Nat, NEW l \in Nat, NEW a \in Nat, NEW t \in Nat,
           Admits(u, m, l, a, t)
    PROVE  /\ Charged(u, l, a, t) \in Usage
           /\ Charged(u, l, a, t).consumed <= l
           /\ Charged(u, l, a, t).lastUpdated \in {u.lastUpdated, t}
  BY DayAssumption DEF Usage, Fits, Rolls, Admits, Charged

\* Splitting a charge into two in the same block changes nothing: neither
\* whether it is admitted nor the usage it leaves (_checkInLimits).
THEOREM ChargeSplit ==
    ASSUME NEW u \in Usage, NEW m \in Nat, NEW l \in Nat, NEW t \in Nat,
           NEW a \in Nat, NEW b \in Nat, a >= m, b >= m
    PROVE  /\ Admits(u, m, l, a + b, t) <=>
                /\ Admits(u, m, l, a, t)
                /\ Admits(Charged(u, l, a, t), m, l, b, t)
           /\ Admits(u, m, l, a + b, t) =>
                Charged(u, l, a + b, t) = Charged(Charged(u, l, a, t), l, b, t)
<1> USE DEF Usage, Fits, Rolls, Admits, Charged
<1>1. CASE m = 0
  BY <1>1
<1>2. CASE m # 0 /\ Fits(u, l, a)
  <2> DEFINE v == Charged(u, l, a, t)
  <2>1. /\ v = [u EXCEPT !.consumed = u.consumed + a]
        /\ v.consumed = u.consumed + a
        /\ v.lastUpdated = u.lastUpdated
        /\ v.consumed + b = u.consumed + (a + b)
    BY <1>2
  <2>2. Admits(u, m, l, a, t)
    BY <1>2
  <2>3. /\ Fits(v, l, b) <=> Fits(u, l, a + b)
        /\ Rolls(v, l, b, t) <=> Rolls(u, l, a + b, t)
    BY <2>1
  <2>4. Admits(u, m, l, a + b, t) <=> Admits(v, m, l, b, t)
    BY <1>2, <2>3
  <2>5. CASE Fits(u, l, a + b)
    BY <2>1, <2>2, <2>3, <2>4, <2>5
  <2>6. CASE ~ Fits(u, l, a + b)
    BY <2>1, <2>2, <2>3, <2>4, <2>6
  <2> QED
    BY <2>5, <2>6
<1>3. CASE m # 0 /\ ~ Fits(u, l, a)
  <2> DEFINE v == Charged(u, l, a, t)
  <2>1. /\ v = [consumed |-> u.consumed + a - l, lastUpdated |-> t]
        /\ v.consumed = u.consumed + a - l
        /\ v.lastUpdated = t
    BY <1>3
  <2>2. ~ Fits(u, l, a + b) /\ ~ Rolls(v, l, b, t)
    BY <1>3, <2>1, DayAssumption
  <2>3. Rolls(u, l, a + b, t) <=> Rolls(u, l, a, t) /\ Fits(v, l, b)
    BY <1>3, <2>1
  <2>4. Fits(v, l, b) => Charged(u, l, a + b, t) = Charged(v, l, b, t)
    BY <2>1, <2>2
  <2> QED
    BY <1>3, <2>2, <2>3, <2>4
<1> QED
  BY <1>1, <1>2, <1>3

\* Two charges at the same time are admitted like one of both amounts.
LEMMA ChargeAgain ==
    ASSUME NEW u \in Usage, NEW m \in Nat, NEW l \in Nat, NEW t \in Nat,
           NEW a \in Nat, NEW b \in Nat, a >= m, b >= m,
           Admits(u, m, l, a, t), Admits(Charged(u, l, a, t), m, l, b, t)
    PROVE  /\ Admits(u, m, l, a + b, t)
           /\ Charged(u, l, a + b, t) = Charged(Charged(u, l, a, t), l, b, t)
<1>1. Admits(u, m, l, a + b, t)
  BY ChargeSplit
<1> QED
  BY <1>1, ChargeSplit

\* The charges of a batch, one after the other in one block: r[k] is the usage after k of them.
AreCharges(r, n, m, l, t, a) ==
    \A k \in 1 .. n : Admits(r[k - 1], m, l, a[k], t) /\ r[k] = Charged(r[k - 1], l, a[k], t)

\* They are one charge of their sum.
LEMMA ChargesAdd ==
    ASSUME NEW n \in Nat \ {0}, NEW m \in Nat, NEW l \in Nat, NEW t \in Nat,
           NEW r \in [0 .. n -> Usage], NEW a \in [1 .. n -> Nat], AreCharges(r, n, m, l, t, a)
    PROVE  /\ Admits(r[0], m, l, SumFunctionOnSet(a, 1 .. n), t)
           /\ r[n] = Charged(r[0], l, SumFunctionOnSet(a, 1 .. n), t)
<1> USE DEF AreCharges
<1> DEFINE sum(k) == SumFunctionOnSet(a, 1 .. k)
           S == {k \in 0 .. n : k # 0 => /\ sum(k) >= m /\ Admits(r[0], m, l, sum(k), t)
                                         /\ r[k] = Charged(r[0], l, sum(k), t)}
<1>1. \A k \in 0 .. n : IsFiniteSet(1 .. k) /\ sum(k) \in Nat
  <2> TAKE k \in 0 .. n
  <2>1. IsFiniteSet(1 .. k)
    BY FS_Interval
  <2>2. \A i \in 1 .. k : a[i] \in Nat
    OBVIOUS
  <2> QED  BY <2>1, <2>2, SumNonNegative
<1>2. \A k \in 0 .. n - 1 : sum(k + 1) = sum(k) + a[k + 1]
  <2> TAKE k \in 0 .. n - 1
  <2>1. (1 .. k) \cup {k + 1} = 1 .. k + 1 /\ k + 1 \notin 1 .. k /\ k \in 0 .. n
    OBVIOUS
  <2>2. (\A i \in 1 .. k : a[i] \in Int) /\ a[k + 1] \in Int /\ IsFiniteSet(1 .. k) /\ sum(k) \in Nat
    BY <1>1, <2>1
  <2>3. sum(k + 1) = a[k + 1] + sum(k)
    BY ONLY <2>1, <2>2, SumAdd
  <2> HIDE DEF sum
  <2> QED  BY ONLY <2>2, <2>3
<1>3. sum(0) = 0
  <2>1. 1 .. 0 = {}
    OBVIOUS
  <2> QED  BY <2>1, SumEmpty
<1> HIDE DEF sum
<1>4. 0 \in S
  OBVIOUS
<1>5. ASSUME NEW u \in Usage, NEW c \in Nat, NEW b \in Nat, c >= m, b >= m,
             Admits(u, m, l, c, t), Admits(Charged(u, l, c, t), m, l, b, t)
      PROVE  /\ Admits(u, m, l, c + b, t)
             /\ Charged(u, l, c + b, t) = Charged(Charged(u, l, c, t), l, b, t)
  BY ONLY <1>5, ChargeAgain, m \in Nat, l \in Nat, t \in Nat
<1>6. ASSUME NEW k \in 0 .. n - 1, k \in S
      PROVE  k + 1 \in S
  <2> DEFINE b == a[k + 1]
  <2>1. /\ k \in 0 .. n /\ k + 1 \in 1 .. n /\ k + 1 \in 0 .. n /\ (k + 1) - 1 = k
        /\ b \in Nat /\ sum(k) \in Nat /\ sum(k + 1) = sum(k) + b /\ r[0] \in Usage
    BY <1>1, <1>2
  <2>2. Admits(r[k], m, l, b, t) /\ r[k + 1] = Charged(r[k], l, b, t)
    BY <2>1
  <2>3. b >= m
    BY <2>2 DEF Admits
  <2> HIDE DEF b
  <2>4. CASE k = 0
    <3>1. sum(k + 1) = b
      BY <1>3, <2>1, <2>4
    <3> QED  BY <2>1, <2>2, <2>3, <2>4, <3>1
  <2>5. CASE k # 0
    <3>1. sum(k) >= m /\ Admits(r[0], m, l, sum(k), t) /\ r[k] = Charged(r[0], l, sum(k), t)
      BY <1>6, <2>5
    <3>2. /\ Admits(r[0], m, l, sum(k) + b, t)
          /\ Charged(r[0], l, sum(k) + b, t) = Charged(r[k], l, b, t)
      <4>1. r[0] \in Usage /\ sum(k) \in Nat /\ b \in Nat /\ sum(k) >= m /\ b >= m
        BY <2>1, <2>3, <3>1
      <4>2. Admits(r[0], m, l, sum(k), t) /\ Admits(Charged(r[0], l, sum(k), t), m, l, b, t)
        BY <2>2, <3>1
      <4>3. /\ Admits(r[0], m, l, sum(k) + b, t)
            /\ Charged(r[0], l, sum(k) + b, t) = Charged(Charged(r[0], l, sum(k), t), l, b, t)
        BY ONLY <1>5, <4>1, <4>2
      <4> QED  BY ONLY <3>1, <4>3
    <3>3. sum(k + 1) >= m
      BY <2>1, <2>3, <3>1
    <3> QED  BY ONLY <2>1, <2>2, <3>2, <3>3 DEF S
  <2> QED  BY <2>4, <2>5
<1> HIDE DEF S
<1>7. \A k \in 0 .. n : k \in S
  BY <1>4, <1>6, UpTo
<1>8. n \in 0 .. n /\ n # 0
  OBVIOUS
<1> QED
  BY <1>1, <1>7, <1>8 DEF S, sum
=============================================================================
