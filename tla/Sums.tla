-------------------------------- MODULE Sums --------------------------------
(***************************************************************************)
(* What the sums of the models obey: SumFunctionOnSet(f, S) adds f[x] for  *)
(* the x of S, and is defined by a walk through the subsets of S that      *)
(* takes out one chosen element after the other.  That the walk exists,    *)
(* and that the order does not matter, is shown by taking a smallest       *)
(* subset of S for which it fails, which strict inclusion, being well      *)
(* founded on finite sets, always has.                                     *)
(***************************************************************************)
EXTENDS Integers, FiniteSets, FiniteSetsExt, Functions, FiniteSetTheorems, TLAPS

Pick(s) == CHOOSE x \in s : TRUE
Walk(f, g, S) == [s \in SUBSET S |-> IF s = {} THEN 0 ELSE f[Pick(s)] + g[s \ {Pick(s)}]]
Walks(f, g, S) == g = Walk(f, g, S)

\* What is added is a number.
AddsInt(f, S) == \A x \in S : f[x] \in Int
AddsNat(f, S) == \A x \in S : f[x] \in Nat

\* Of the subsets of a finite set, some have no other below them.
LEMMA SmallestSubset ==
  ASSUME NEW S, IsFiniteSet(S), NEW B \in SUBSET (SUBSET S), B # {}
  PROVE  \E T \in B : \A U \in B : ~(U \subseteq T /\ U # T)
<1>1. B \subseteq FiniteSubsetsOf(S)
  BY FS_Subset DEF FiniteSubsetsOf
<1>2. IsWellFoundedOn(StrictSubsetOrdering(S), FiniteSubsetsOf(S))
  BY FS_StrictSubsetOrderingWellFounded
<1>3. \E T \in B : \A U \in B : ~(<<U, T>> \in StrictSubsetOrdering(S))
  BY <1>1, <1>2, WFMin
<1> QED
  BY <1>3 DEF StrictSubsetOrdering

\* A non-empty set has an element to pick.
LEMMA Picked ==
  ASSUME NEW S, S # {}
  PROVE  Pick(S) \in S
  BY DEF Pick

\* A walk adds what it picks to the walk of the rest.
LEMMA WalkStep ==
  ASSUME NEW f, NEW g, NEW S, Walks(f, g, S), NEW s \in SUBSET S
  PROVE  g[s] = IF s = {} THEN 0 ELSE f[Pick(s)] + g[s \ {Pick(s)}]
  BY DEF Walks, Walk

-----------------------------------------------------------------------------
\* Two walks agree wherever both go ...
LEMMA WalksAgree ==
  ASSUME NEW f, NEW g, NEW h, NEW S, NEW R, IsFiniteSet(S), S \subseteq R,
         Walks(f, g, S), Walks(f, h, R)
  PROVE  \A T \in SUBSET S : g[T] = h[T]
<1> DEFINE Bad == {T \in SUBSET S : g[T] # h[T]}
<1> SUFFICES ASSUME Bad # {} PROVE FALSE
  OBVIOUS
<1>1. PICK T \in Bad : \A U \in Bad : ~(U \subseteq T /\ U # T)
  <2>1. Bad \in SUBSET (SUBSET S)
    OBVIOUS
  <2> HIDE DEF Bad
  <2> QED
    BY <2>1, SmallestSubset
<1>2. /\ g[T] = IF T = {} THEN 0 ELSE f[Pick(T)] + g[T \ {Pick(T)}]
      /\ h[T] = IF T = {} THEN 0 ELSE f[Pick(T)] + h[T \ {Pick(T)}]
  <2>1. T \in SUBSET S /\ T \in SUBSET R
    BY <1>1
  <2> HIDE DEF Bad
  <2>2. g[T] = IF T = {} THEN 0 ELSE f[Pick(T)] + g[T \ {Pick(T)}]
    BY <2>1 DEF Walks, Walk
  <2>3. h[T] = IF T = {} THEN 0 ELSE f[Pick(T)] + h[T \ {Pick(T)}]
    BY <2>1 DEF Walks, Walk
  <2> QED
    BY <2>2, <2>3
<1>3. T # {}
  BY <1>1, <1>2
<1>4. T \ {Pick(T)} \subseteq T /\ T \ {Pick(T)} # T
  BY <1>3, Picked
<1>5. g[T \ {Pick(T)}] = h[T \ {Pick(T)}]
  BY <1>1, <1>4
<1> QED
  BY <1>1, <1>2, <1>5

\* ... and every finite set can be walked.
LEMMA WalkExists ==
  ASSUME NEW f, NEW S, IsFiniteSet(S)
  PROVE  \E g : Walks(f, g, S)
<1> DEFINE Bad == {T \in SUBSET S : ~ \E g : Walks(f, g, T)}
           G(U) == CHOOSE g : Walks(f, g, U)
<1> SUFFICES ASSUME Bad # {} PROVE FALSE
  OBVIOUS
<1>1. PICK T \in Bad : \A U \in Bad : ~(U \subseteq T /\ U # T)
  <2>1. Bad \in SUBSET (SUBSET S)
    OBVIOUS
  <2> HIDE DEF Bad
  <2> QED
    BY <2>1, SmallestSubset
<1> DEFINE h == [s \in SUBSET T |-> IF s = {} THEN 0 ELSE f[Pick(s)] + G(s \ {Pick(s)})[s \ {Pick(s)}]]
<1>2. \A U \in SUBSET T : U # T => Walks(f, G(U), U)
  BY <1>1
<1>3. ASSUME NEW s \in SUBSET T, s # {}
      PROVE  h[s \ {Pick(s)}] = G(s \ {Pick(s)})[s \ {Pick(s)}]
  <2> DEFINE r == s \ {Pick(s)}
  <2>1. r \in SUBSET T /\ r # T
    BY <1>3, Picked
  <2>2. G(r)[r] = IF r = {} THEN 0 ELSE f[Pick(r)] + G(r)[r \ {Pick(r)}]
    <3>1. Walks(f, G(r), r) /\ r \in SUBSET r
      BY <1>2, <2>1
    <3> HIDE DEF G, r
    <3> QED
      BY <3>1, WalkStep
  <2>3. CASE r = {}
    BY <2>1, <2>2, <2>3
  <2>4. CASE r # {}
    <3> DEFINE q == r \ {Pick(r)}
    <3>1. q \in SUBSET T /\ q # T /\ q \subseteq r
      BY <2>1
    <3>2. Walks(f, G(q), q) /\ Walks(f, G(r), r)
      BY <1>2, <2>1, <3>1
    <3>3. IsFiniteSet(q)
      BY <1>1, <3>1, FS_Subset
    <3>4. G(q)[q] = G(r)[q]
      <4> HIDE DEF G, q, r
      <4> QED
        BY <3>1, <3>2, <3>3, WalksAgree
    <3> QED
      BY <2>1, <2>2, <2>4, <3>4
  <2> QED
    BY <2>3, <2>4
<1>4. \A s \in SUBSET T : h[s] = IF s = {} THEN 0 ELSE f[Pick(s)] + G(s \ {Pick(s)})[s \ {Pick(s)}]
  OBVIOUS
<1>5. h = [s \in SUBSET T |-> h[s]]
  OBVIOUS
<1> HIDE DEF h, G
<1>6. \A s \in SUBSET T : h[s] = IF s = {} THEN 0 ELSE f[Pick(s)] + h[s \ {Pick(s)}]
  BY <1>3, <1>4
<1>7. Walks(f, h, T)
  BY <1>5, <1>6 DEF Walks, Walk
<1> QED
  BY <1>1, <1>7

-----------------------------------------------------------------------------
\* So a sum is its chosen element and the sum of the others, ...
LEMMA SumChosen ==
  ASSUME NEW f, NEW S, IsFiniteSet(S)
  PROVE  SumFunctionOnSet(f, S) = IF S = {} THEN 0 ELSE f[Pick(S)] + SumFunctionOnSet(f, S \ {Pick(S)})
<1> DEFINE W(T) == CHOOSE g : Walks(f, g, T)
           r == S \ {Pick(S)}
<1>1. \A T : SumFunctionOnSet(f, T) = W(T)[T]
  BY DEF SumFunctionOnSet, FoldFunctionOnSet, MapThenFoldSet, Walks, Walk, Pick
<1>2. \A T : IsFiniteSet(T) => Walks(f, W(T), T)
  BY WalkExists
<1>3. IsFiniteSet(r) /\ r \subseteq S
  BY FS_Subset
<1> HIDE DEF W
<1>4. W(S)[S] = IF S = {} THEN 0 ELSE f[Pick(S)] + W(S)[r]
  BY <1>2, WalkStep
<1> HIDE DEF r
<1>5. W(r)[r] = W(S)[r]
  BY <1>2, <1>3, WalksAgree
<1> QED
  BY <1>1, <1>4, <1>5 DEF r

\* Nothing adds up to nothing.
LEMMA SumEmpty ==
  ASSUME NEW f
  PROVE  SumFunctionOnSet(f, {}) = 0
  BY SumChosen, FS_EmptySet

\* Integers add up to an integer.
LEMMA SumIsInt ==
  ASSUME NEW f, NEW S, IsFiniteSet(S), AddsInt(f, S)
  PROVE  SumFunctionOnSet(f, S) \in Int
<1> DEFINE Bad == {T \in SUBSET S : SumFunctionOnSet(f, T) \notin Int}
<1> SUFFICES ASSUME Bad # {} PROVE FALSE
  OBVIOUS
<1>1. PICK T \in Bad : \A U \in Bad : ~(U \subseteq T /\ U # T)
  <2>1. Bad \in SUBSET (SUBSET S)
    OBVIOUS
  <2> HIDE DEF Bad
  <2> QED
    BY <2>1, SmallestSubset
<1>2. IsFiniteSet(T)
  BY <1>1, FS_Subset
<1>3. T # {} /\ SumFunctionOnSet(f, T) = f[Pick(T)] + SumFunctionOnSet(f, T \ {Pick(T)})
  <2>1. SumFunctionOnSet(f, T) \notin Int /\ SumFunctionOnSet(f, {}) = 0
    BY <1>1, SumEmpty
  <2>2. T # {}
    BY <2>1
  <2> HIDE DEF Bad
  <2> QED
    BY <1>2, <2>2, SumChosen
<1>4. Pick(T) \in T
  BY <1>3, Picked
<1>5. f[Pick(T)] \in Int /\ SumFunctionOnSet(f, T \ {Pick(T)}) \in Int
  BY <1>1, <1>4 DEF AddsInt
<1> QED
  BY <1>1, <1>3, <1>5

\* ... or any of its elements and the sum of the others.
LEMMA SumTakeOut ==
  ASSUME NEW f, NEW S, IsFiniteSet(S), AddsInt(f, S), NEW x \in S
  PROVE  SumFunctionOnSet(f, S) = f[x] + SumFunctionOnSet(f, S \ {x})
<1> DEFINE Bad == {T \in SUBSET S : \E y \in T : SumFunctionOnSet(f, T) # f[y] + SumFunctionOnSet(f, T \ {y})}
<1> SUFFICES ASSUME Bad # {} PROVE FALSE
  OBVIOUS
<1>1. PICK T \in Bad : \A U \in Bad : ~(U \subseteq T /\ U # T)
  <2>1. Bad \in SUBSET (SUBSET S)
    OBVIOUS
  <2> HIDE DEF Bad
  <2> QED
    BY <2>1, SmallestSubset
<1>2. PICK y \in T : SumFunctionOnSet(f, T) # f[y] + SumFunctionOnSet(f, T \ {y})
  BY <1>1
<1> DEFINE c == Pick(T)
           rest == (T \ {y}) \ {c}
<1>3. \A U \in SUBSET T : IsFiniteSet(U) /\ SumFunctionOnSet(f, U) \in Int
  BY <1>1, FS_Subset, SumIsInt DEF AddsInt
<1>4. c \in T /\ c # y /\ SumFunctionOnSet(f, T) = f[c] + SumFunctionOnSet(f, T \ {c})
  BY <1>2, <1>3, SumChosen, Picked
<1>5. SumFunctionOnSet(f, T \ {c}) = f[y] + SumFunctionOnSet(f, rest)
  <2>1. T \ {c} \in SUBSET S /\ T \ {c} \notin Bad /\ y \in T \ {c}
    BY <1>1, <1>2, <1>4
  <2>2. (T \ {c}) \ {y} = rest
    OBVIOUS
  <2> QED
    BY <2>1, <2>2
<1>6. SumFunctionOnSet(f, T \ {y}) = f[c] + SumFunctionOnSet(f, rest)
  <2>1. T \ {y} \in SUBSET S /\ T \ {y} \notin Bad /\ c \in T \ {y}
    BY <1>1, <1>2, <1>4
  <2> QED
    BY <2>1
<1>7. f[c] \in Int /\ f[y] \in Int /\ SumFunctionOnSet(f, rest) \in Int
  BY <1>1, <1>3, <1>4 DEF AddsInt
<1> QED
  BY <1>2, <1>4, <1>5, <1>6, <1>7

\* One element more adds its value.
LEMMA SumAdd ==
  ASSUME NEW f, NEW S, IsFiniteSet(S), NEW x, x \notin S, AddsInt(f, S \cup {x})
  PROVE  SumFunctionOnSet(f, S \cup {x}) = f[x] + SumFunctionOnSet(f, S)
<1>1. IsFiniteSet(S \cup {x}) /\ (S \cup {x}) \ {x} = S
  BY FS_AddElement
<1> QED
  BY <1>1, SumTakeOut

\* A sum depends on what is added only, and grows with it.
LEMMA SumMonotone ==
  ASSUME NEW f, NEW g, NEW S, IsFiniteSet(S), AddsInt(f, S), AddsInt(g, S), \A x \in S : f[x] <= g[x]
  PROVE  SumFunctionOnSet(f, S) <= SumFunctionOnSet(g, S)
<1> DEFINE Bad == {T \in SUBSET S : ~(SumFunctionOnSet(f, T) <= SumFunctionOnSet(g, T))}
<1> SUFFICES ASSUME Bad # {} PROVE FALSE
  OBVIOUS
<1>1. PICK T \in Bad : \A U \in Bad : ~(U \subseteq T /\ U # T)
  <2>1. Bad \in SUBSET (SUBSET S)
    OBVIOUS
  <2> HIDE DEF Bad
  <2> QED
    BY <2>1, SmallestSubset
<1> DEFINE c == Pick(T)
<1>2. \A U \in SUBSET S : /\ IsFiniteSet(U)
                         /\ SumFunctionOnSet(f, U) \in Int /\ SumFunctionOnSet(g, U) \in Int
  BY FS_Subset, SumIsInt DEF AddsInt
<1>3. T # {}
  <2>1. SumFunctionOnSet(f, {}) = 0 /\ SumFunctionOnSet(g, {}) = 0
    BY SumEmpty
  <2>2. ~(SumFunctionOnSet(f, T) <= SumFunctionOnSet(g, T))
    BY <1>1
  <2> QED
    BY <2>1, <2>2
<1>4. c \in T /\ T \ {c} \in SUBSET S /\ T \ {c} # T
  BY <1>1, <1>3, Picked
<1>5. /\ SumFunctionOnSet(f, T) = f[c] + SumFunctionOnSet(f, T \ {c})
      /\ SumFunctionOnSet(g, T) = g[c] + SumFunctionOnSet(g, T \ {c})
  BY <1>1, <1>2, <1>3, SumChosen
<1>6. SumFunctionOnSet(f, T \ {c}) <= SumFunctionOnSet(g, T \ {c})
  BY <1>1, <1>4
<1>7. f[c] \in Int /\ g[c] \in Int /\ f[c] <= g[c]
  BY <1>1, <1>4 DEF AddsInt
<1> QED
  BY <1>1, <1>2, <1>4, <1>5, <1>6, <1>7

\* The same values have the same sum.
LEMMA SumEqual ==
  ASSUME NEW f, NEW g, NEW S, IsFiniteSet(S), AddsInt(f, S), \A x \in S : f[x] = g[x]
  PROVE  SumFunctionOnSet(f, S) = SumFunctionOnSet(g, S)
<1>1. AddsInt(g, S) /\ \A x \in S : f[x] <= g[x] /\ g[x] <= f[x]
  BY DEF AddsInt
<1>2. SumFunctionOnSet(f, S) <= SumFunctionOnSet(g, S) /\ SumFunctionOnSet(g, S) <= SumFunctionOnSet(f, S)
  BY <1>1, SumMonotone
<1> QED
  BY <1>1, <1>2, SumIsInt

\* Where nothing is taken off, no part is more than the whole.
LEMMA SumIsNat ==
  ASSUME NEW f, NEW S, IsFiniteSet(S), AddsNat(f, S)
  PROVE  SumFunctionOnSet(f, S) \in Nat
<1> DEFINE Bad == {T \in SUBSET S : SumFunctionOnSet(f, T) \notin Nat}
<1> SUFFICES ASSUME Bad # {} PROVE FALSE
  OBVIOUS
<1>1. PICK T \in Bad : \A U \in Bad : ~(U \subseteq T /\ U # T)
  <2>1. Bad \in SUBSET (SUBSET S)
    OBVIOUS
  <2> HIDE DEF Bad
  <2> QED
    BY <2>1, SmallestSubset
<1>2. IsFiniteSet(T)
  BY <1>1, FS_Subset
<1>3. T # {} /\ SumFunctionOnSet(f, T) = f[Pick(T)] + SumFunctionOnSet(f, T \ {Pick(T)})
  <2>1. SumFunctionOnSet(f, T) \notin Nat /\ SumFunctionOnSet(f, {}) = 0
    BY <1>1, SumEmpty
  <2>2. T # {}
    BY <2>1
  <2> HIDE DEF Bad
  <2> QED
    BY <1>2, <2>2, SumChosen
<1>4. Pick(T) \in T
  BY <1>3, Picked
<1>5. f[Pick(T)] \in Nat /\ SumFunctionOnSet(f, T \ {Pick(T)}) \in Nat
  BY <1>1, <1>4 DEF AddsNat
<1> QED
  BY <1>1, <1>3, <1>5

\* A part of natural numbers adds up to no more than the whole.
LEMMA SumOfPart ==
  ASSUME NEW f, NEW S, IsFiniteSet(S), AddsNat(f, S), NEW T \in SUBSET S
  PROVE  SumFunctionOnSet(f, T) <= SumFunctionOnSet(f, S)
<1> DEFINE Bad == {U \in SUBSET S : \E V \in SUBSET U : ~(SumFunctionOnSet(f, V) <= SumFunctionOnSet(f, U))}
<1> SUFFICES ASSUME Bad # {} PROVE FALSE
  OBVIOUS
<1>1. PICK U \in Bad : \A V \in Bad : ~(V \subseteq U /\ V # U)
  <2>1. Bad \in SUBSET (SUBSET S)
    OBVIOUS
  <2> HIDE DEF Bad
  <2> QED
    BY <2>1, SmallestSubset
<1>2. PICK V \in SUBSET U : ~(SumFunctionOnSet(f, V) <= SumFunctionOnSet(f, U))
  BY <1>1
<1>3. \A W \in SUBSET S : IsFiniteSet(W) /\ AddsInt(f, W) /\ SumFunctionOnSet(f, W) \in Nat
  BY FS_Subset, SumIsNat DEF AddsNat, AddsInt
<1>4. PICK x \in U : x \notin V
  <2>1. SumFunctionOnSet(f, U) \in Nat
    BY <1>1, <1>3
  <2>2. V # U
    BY <1>2, <2>1
  <2> QED
    BY <1>2, <2>2
<1>5. SumFunctionOnSet(f, U) = f[x] + SumFunctionOnSet(f, U \ {x})
  BY <1>1, <1>3, <1>4, SumTakeOut
<1>6. SumFunctionOnSet(f, V) <= SumFunctionOnSet(f, U \ {x})
  <2>1. U \ {x} \in SUBSET S /\ U \ {x} \notin Bad /\ V \in SUBSET (U \ {x})
    BY <1>1, <1>2, <1>4
  <2> QED
    BY <2>1
<1>7. f[x] \in Nat /\ {SumFunctionOnSet(f, V), SumFunctionOnSet(f, U \ {x})} \subseteq Nat
  BY <1>1, <1>3, <1>4 DEF AddsNat
<1> QED
  BY <1>2, <1>5, <1>6, <1>7

\* No summand is more than the sum.
LEMMA SumHasPart ==
  ASSUME NEW f, NEW S, IsFiniteSet(S), AddsNat(f, S), NEW x \in S
  PROVE  f[x] <= SumFunctionOnSet(f, S)
<1>1. SumFunctionOnSet(f, S) = f[x] + SumFunctionOnSet(f, S \ {x}) /\ f[x] \in Nat
  BY SumTakeOut DEF AddsNat, AddsInt
<1>2. SumFunctionOnSet(f, S \ {x}) \in Nat
  BY FS_Subset, SumIsNat DEF AddsNat
<1> QED
  BY <1>1, <1>2
\* A common factor can be taken out.
LEMMA SumScaled ==
  ASSUME NEW f, NEW g, NEW S, IsFiniteSet(S), AddsInt(f, S), NEW k \in Int, \A x \in S : g[x] = f[x] * k
  PROVE  SumFunctionOnSet(g, S) = SumFunctionOnSet(f, S) * k
<1> DEFINE Bad == {T \in SUBSET S : SumFunctionOnSet(g, T) # SumFunctionOnSet(f, T) * k}
<1> SUFFICES ASSUME Bad # {} PROVE FALSE
  OBVIOUS
<1>1. PICK T \in Bad : \A U \in Bad : ~(U \subseteq T /\ U # T)
  <2>1. Bad \in SUBSET (SUBSET S)
    OBVIOUS
  <2> HIDE DEF Bad
  <2> QED
    BY <2>1, SmallestSubset
<1> DEFINE c == Pick(T)
           rest == SumFunctionOnSet(f, T \ {c})
<1>2. IsFiniteSet(T) /\ \A U \in SUBSET S : SumFunctionOnSet(f, U) \in Int
  BY <1>1, FS_Subset, SumIsInt DEF AddsInt
<1>3. T # {}
  <2>1. SumFunctionOnSet(f, {}) = 0 /\ SumFunctionOnSet(g, {}) = 0
    BY SumEmpty
  <2>2. SumFunctionOnSet(g, T) # SumFunctionOnSet(f, T) * k
    BY <1>1
  <2>3. 0 * k = 0
    OBVIOUS
  <2> HIDE DEF Bad
  <2>4. QED
    BY <2>1, <2>2, <2>3
<1>4. c \in T /\ T \ {c} \in SUBSET S /\ T \ {c} # T
  BY <1>1, <1>3, Picked
<1>5. /\ SumFunctionOnSet(f, T) = f[c] + rest
      /\ SumFunctionOnSet(g, T) = g[c] + SumFunctionOnSet(g, T \ {c})
  BY <1>2, <1>3, SumChosen
<1>6. SumFunctionOnSet(g, T \ {c}) = rest * k
  BY <1>1, <1>4
<1>7. f[c] \in Int /\ g[c] = f[c] * k /\ rest \in Int
  BY <1>1, <1>2, <1>4 DEF AddsInt
<1>8. SumFunctionOnSet(g, T) # SumFunctionOnSet(f, T) * k
  BY <1>1
<1> HIDE DEF c, rest, Bad
<1>9. (f[c] + rest) * k = f[c] * k + rest * k
  BY <1>7
<1>10. QED
  BY <1>5, <1>6, <1>7, <1>8, <1>9

\* Ones add up to how many there are.
LEMMA SumOfOnes ==
  ASSUME NEW f, NEW S, IsFiniteSet(S), \A x \in S : f[x] = 1
  PROVE  SumFunctionOnSet(f, S) = Cardinality(S)
<1> DEFINE Bad == {T \in SUBSET S : SumFunctionOnSet(f, T) # Cardinality(T)}
<1> SUFFICES ASSUME Bad # {} PROVE FALSE
  OBVIOUS
<1>1. PICK T \in Bad : \A U \in Bad : ~(U \subseteq T /\ U # T)
  <2>1. Bad \in SUBSET (SUBSET S)
    OBVIOUS
  <2> HIDE DEF Bad
  <2> QED
    BY <2>1, SmallestSubset
<1> DEFINE c == Pick(T)
<1>2. IsFiniteSet(T) /\ Cardinality(T) \in Nat
  BY <1>1, FS_Subset, FS_CardinalityType
<1>3. T # {}
  <2>1. SumFunctionOnSet(f, {}) = 0 /\ Cardinality({}) = 0
    BY SumEmpty, FS_EmptySet
  <2>2. SumFunctionOnSet(f, T) # Cardinality(T)
    BY <1>1
  <2>3. QED
    BY <2>1, <2>2
<1>4. c \in T /\ T \ {c} \in SUBSET S /\ T \ {c} # T
  BY <1>1, <1>3, Picked
<1>5. SumFunctionOnSet(f, T) = f[c] + SumFunctionOnSet(f, T \ {c})
  BY <1>2, <1>3, SumChosen
<1>6. SumFunctionOnSet(f, T \ {c}) = Cardinality(T \ {c})
  BY <1>1, <1>4
<1>7. Cardinality(T \ {c}) = Cardinality(T) - 1
  BY <1>2, <1>4, FS_RemoveElement
<1>8. f[c] = 1 /\ SumFunctionOnSet(f, T) # Cardinality(T)
  BY <1>1, <1>4
<1>9. QED
  BY <1>2, <1>5, <1>6, <1>7, <1>8

-----------------------------------------------------------------------------
\* The same of subsets that belong to the elements.
LEMMA SmallestOfEach ==
  ASSUME NEW S, IsFiniteSet(S), S # {}, NEW F, \A x \in S : F[x] \subseteq S
  PROVE  \E x \in S : \A y \in S : ~(F[y] \subseteq F[x] /\ F[y] # F[x])
<1> DEFINE B == {F[x] : x \in S}
<1>1. B \in SUBSET (SUBSET S) /\ B # {}
  OBVIOUS
<1>2. PICK T \in B : \A U \in B : ~(U \subseteq T /\ U # T)
  <2> HIDE DEF B
  <2>1. QED
    BY <1>1, SmallestSubset
<1>3. PICK x \in S : T = F[x]
  OBVIOUS
<1>4. ASSUME NEW y \in S PROVE ~(F[y] \subseteq F[x] /\ F[y] # F[x])
  <2>1. F[y] \in B
    OBVIOUS
  <2> HIDE DEF B
  <2>2. QED
    BY <1>2, <1>3, <2>1
<1>5. QED
  BY <1>4

\* A finite set of numbers has a least element, and Min is it.
LEMMA LeastOf ==
  ASSUME NEW W, IsFiniteSet(W), W # {}, \A x \in W : x \in Int
  PROVE  Min(W) \in W /\ \A y \in W : Min(W) <= y
<1> DEFINE Below == [x \in W |-> {y \in W : y <= x}]
<1>1. PICK x \in W : \A y \in W : ~(Below[y] \subseteq Below[x] /\ Below[y] # Below[x])
  <2>1. \A x \in W : Below[x] \subseteq W
    OBVIOUS
  <2> HIDE DEF Below
  <2>2. QED
    BY <2>1, SmallestOfEach
<1>2. ASSUME NEW y \in W PROVE x <= y
  <2>1. SUFFICES ASSUME y < x PROVE FALSE
    OBVIOUS
  <2>2. x \in Below[x] /\ x \notin Below[y]
    BY <2>1
  <2>3. \A z \in Below[y] : z \in Below[x]
    BY <2>1
  <2>4. QED
    BY <1>1, <2>2, <2>3
<1>3. QED
  BY <1>2 DEF Min

\* A finite set of numbers has a greatest element, and Max is it.
LEMMA GreatestOf ==
  ASSUME NEW W, IsFiniteSet(W), W # {}, \A x \in W : x \in Int
  PROVE  Max(W) \in W /\ \A y \in W : y <= Max(W)
<1> DEFINE Above == [x \in W |-> {y \in W : y >= x}]
<1>1. PICK x \in W : \A y \in W : ~(Above[y] \subseteq Above[x] /\ Above[y] # Above[x])
  <2>1. \A x \in W : Above[x] \subseteq W
    OBVIOUS
  <2> HIDE DEF Above
  <2>2. QED
    BY <2>1, SmallestOfEach
<1>2. ASSUME NEW y \in W PROVE y <= x
  <2>1. SUFFICES ASSUME y > x PROVE FALSE
    OBVIOUS
  <2>2. x \in Above[x] /\ x \notin Above[y]
    BY <2>1
  <2>3. \A z \in Above[y] : z \in Above[x]
    BY <2>1
  <2>4. QED
    BY <1>1, <2>2, <2>3
<1>3. QED
  BY <1>2 DEF Max
=============================================================================
