----------------------------- MODULE FiniteSums -----------------------------
(***************************************************************************)
(* Facts about sums over finite sets, as SumFunctionOnSet computes them:   *)
(* by a recursive function that takes one element after the other, in an   *)
(* order that CHOOSE picks; and the inductions over sets and numbers that  *)
(* they and the proofs about recursive functions need.                     *)
(***************************************************************************)
EXTENDS Functions, FiniteSetTheorems, TLAPS

\* Induction over a finite set, for a set of subsets instead of a predicate.
LEMMA SubsetInduction ==
    ASSUME NEW S, IsFiniteSet(S), NEW A, 
           \A T \in SUBSET S : (\A U \in SUBSET T : U # T => U \in A) => T \in A
    PROVE  \A T \in SUBSET S : T \in A
  <1> DEFINE B == {T \in SUBSET S : T \notin A}
  <1>1. IsWellFoundedOn(StrictSubsetOrdering(S), SUBSET S)
    BY FS_StrictSubsetOrderingWellFounded, FS_FiniteSubsetsOfFinite
  <1>2. SUFFICES ASSUME B # {} PROVE FALSE
    OBVIOUS
  <1>3. PICK T \in B : \A U \in B : ~ (<<U, T>> \in StrictSubsetOrdering(S))
    <2>1. B \subseteq SUBSET S
      OBVIOUS
    <2> HIDE DEF B
    <2> QED  BY <1>1, <1>2, <2>1, WFMin
  <1>4. \A U \in SUBSET T : U # T => U \in A
    <2> SUFFICES ASSUME NEW U \in SUBSET T, U # T, U \notin A PROVE FALSE
      OBVIOUS
    <2>1. U \in B
      OBVIOUS
    <2>2. <<U, T>> \in StrictSubsetOrdering(S)
      BY DEF StrictSubsetOrdering
    <2> QED  BY <1>3, <2>1, <2>2
  <1> QED  BY <1>4

\* What one step of the fold adds.
FoldStep(f, s, h) == IF s = {} THEN 0 ELSE f[CHOOSE x \in s : TRUE] + h[s \ {CHOOSE x \in s : TRUE}]

IsSum(f, S, h) == h = [s \in SUBSET S |-> FoldStep(f, s, h)]

\* The recursive function that the sum is taken from.
SumFolds(f, S) == CHOOSE h : IsSum(f, S, h)

LEMMA SumIsFold ==
    ASSUME NEW f, NEW S
    PROVE  SumFunctionOnSet(f, S) = SumFolds(f, S)[S]
  BY DEF SumFunctionOnSet, FoldFunctionOnSet, MapThenFoldSet, SumFolds, IsSum, FoldStep

\* The recursion is well-founded: for natural summands there is such a function.
LEMMA SumFoldsWell ==
    ASSUME NEW S, IsFiniteSet(S), NEW f, \A x \in S : f[x] \in Nat
    PROVE  SumFolds(f, S) \in [SUBSET S -> Nat] /\ IsSum(f, S, SumFolds(f, S))
  <1> DEFINE Upto(T, h) == \A s \in SUBSET S :
                              Cardinality(s) <= Cardinality(T) => h[s] = FoldStep(f, s, h)
             A == {T \in SUBSET S : \E h \in [SUBSET S -> Nat] : Upto(T, h)}
  <1>1. ASSUME NEW h \in [SUBSET S -> Nat], NEW s \in SUBSET S
        PROVE  FoldStep(f, s, h) \in Nat
    BY <1>1 DEF FoldStep
  <1>2. \A T \in SUBSET S : T \in A
    <2> SUFFICES ASSUME NEW T \in SUBSET S, \A U \in SUBSET T : U # T => U \in A
                 PROVE  T \in A
      <3> HIDE DEF A
      <3> QED  BY SubsetInduction
    <2>1. CASE T = {}
      <3> DEFINE h == [s \in SUBSET S |-> 0]
      <3>1. \A s \in SUBSET S : Cardinality(s) <= Cardinality({}) => s = {}
        <4> TAKE s \in SUBSET S
        <4>1. IsFiniteSet(s)
          BY FS_Subset
        <4> QED  BY <4>1, FS_EmptySet, FS_CardinalityType
      <3>2. Upto({}, h)
        BY <3>1 DEF FoldStep
      <3>3. h \in [SUBSET S -> Nat]
        OBVIOUS
      <3> HIDE DEF h, Upto
      <3> QED  BY <2>1, <3>2, <3>3
    <2>2. CASE T # {}
      <3>1. PICK x \in T : TRUE
        BY <2>2
      <3>2. PICK g \in [SUBSET S -> Nat] : Upto(T \ {x}, g)
        <4>1. T \ {x} \in A
          OBVIOUS
        <4> QED  BY <4>1
      <3> DEFINE h == [s \in SUBSET S |-> FoldStep(f, s, g)]
      <3>3. h \in [SUBSET S -> Nat]
        BY <1>1
      <3>4. ASSUME NEW s \in SUBSET S, Cardinality(s) <= Cardinality(T), s # {}
            PROVE  FoldStep(f, s, h) = FoldStep(f, s, g)
        <4> DEFINE y == CHOOSE z \in s : TRUE
        <4>1. y \in s
          BY <3>4
        <4>2. IsFiniteSet(s) /\ IsFiniteSet(T)
          BY FS_Subset
        <4>3. Cardinality(s \ {y}) = Cardinality(s) - 1
          BY <4>1, <4>2, FS_RemoveElement
        <4>4. Cardinality(T \ {x}) = Cardinality(T) - 1
          BY <3>1, <4>2, FS_RemoveElement
        <4>5. Cardinality(s) \in Nat /\ Cardinality(T) \in Nat
          BY <4>2, FS_CardinalityType
        <4>6. Cardinality(s \ {y}) <= Cardinality(T \ {x})
          BY <3>4, <4>3, <4>4, <4>5
        <4>7. s \ {y} \in SUBSET S
          OBVIOUS
        <4>8. g[s \ {y}] = FoldStep(f, s \ {y}, g)
          BY <3>2, <4>6, <4>7
        <4>9. h[s \ {y}] = g[s \ {y}]
          BY <4>7, <4>8
        <4> HIDE DEF h
        <4> QED  BY <4>9 DEF FoldStep
      <3>5. FoldStep(f, {}, h) = FoldStep(f, {}, g)
        BY DEF FoldStep
      <3>6. Upto(T, h)
        BY <3>4, <3>5
      <3> HIDE DEF h, Upto
      <3> QED  BY <3>3, <3>6
    <2> QED  BY <2>1, <2>2
  <1>3. PICK h \in [SUBSET S -> Nat] : Upto(S, h)
    BY <1>2
  <1>4. \A s \in SUBSET S : h[s] = FoldStep(f, s, h)
    <2> TAKE s \in SUBSET S
    <2> QED  BY <1>3, FS_Subset
  <1>5. IsSum(f, S, h)
    BY <1>4 DEF IsSum
  <1>6. IsSum(f, S, SumFolds(f, S))
    BY <1>5 DEF SumFolds
  <1> DEFINE F == SumFolds(f, S)
  <1> HIDE DEF F
  <1>7. F = [s \in SUBSET S |-> FoldStep(f, s, F)]
    BY <1>6 DEF IsSum, F
  <1>8. \A T \in SUBSET S : T \in {U \in SUBSET S : F[U] \in Nat}
    <2> SUFFICES ASSUME NEW T \in SUBSET S,
                        \A U \in SUBSET T : U # T => U \in {V \in SUBSET S : F[V] \in Nat}
                 PROVE  T \in {V \in SUBSET S : F[V] \in Nat}
      BY SubsetInduction
    <2>1. F[T] = FoldStep(f, T, F)
      BY <1>7
    <2>2. CASE T = {}
      BY <2>1, <2>2 DEF FoldStep
    <2>3. CASE T # {}
      <3>1. PICK y \in T : y = CHOOSE z \in T : TRUE
        BY <2>3
      <3>2. F[T \ {y}] \in Nat
        BY <3>1
      <3>3. F[T] = f[y] + F[T \ {y}]
        BY <2>1, <2>3, <3>1 DEF FoldStep
      <3> QED  BY <3>2, <3>3
    <2> QED  BY <2>2, <2>3
  <1>9. F \in [SUBSET S -> Nat]
    BY <1>7, <1>8
  <1> QED  BY <1>6, <1>9 DEF F

\* The order does not matter: any element may be taken first.
LEMMA SumFoldsAny ==
    ASSUME NEW S, IsFiniteSet(S), NEW f, \A x \in S : f[x] \in Nat,
           NEW T \in SUBSET S, NEW x \in T
    PROVE  SumFolds(f, S)[T] = f[x] + SumFolds(f, S)[T \ {x}]
  <1> DEFINE F == SumFolds(f, S)
             A == {U \in SUBSET S : \A z \in U : F[U] = f[z] + F[U \ {z}]}
  <1>1. F \in [SUBSET S -> Nat] /\ F = [s \in SUBSET S |-> FoldStep(f, s, F)]
    BY SumFoldsWell DEF IsSum
  <1> HIDE DEF F
  <1>2. \A U \in SUBSET S : U \in A
    <2> SUFFICES ASSUME NEW U \in SUBSET S, \A V \in SUBSET U : V # U => V \in A
                 PROVE  U \in A
      <3> HIDE DEF A
      <3> QED  BY SubsetInduction
    <2> SUFFICES ASSUME NEW z \in U PROVE F[U] = f[z] + F[U \ {z}]
      OBVIOUS
    <2>1. PICK y \in U : y = CHOOSE w \in U : TRUE
      OBVIOUS
    <2>2. F[U] = f[y] + F[U \ {y}]
      BY <1>1, <2>1 DEF FoldStep
    <2>3. CASE y = z
      BY <2>2, <2>3
    <2>4. CASE y # z
      <3>1. F[U \ {y}] = f[z] + F[(U \ {y}) \ {z}]
        <4>1. U \ {y} \in A /\ z \in U \ {y}
          BY <2>4
        <4> QED  BY <4>1
      <3>2. F[U \ {z}] = f[y] + F[(U \ {z}) \ {y}]
        <4>1. U \ {z} \in A /\ y \in U \ {z}
          BY <2>4
        <4> QED  BY <4>1
      <3>3. PICK W \in SUBSET S : W = (U \ {y}) \ {z} /\ W = (U \ {z}) \ {y}
        OBVIOUS
      <3>4. f[y] \in Nat /\ f[z] \in Nat /\ F[W] \in Nat
        BY <1>1
      <3>5. F[U] = f[y] + (f[z] + F[W]) /\ F[U \ {z}] = f[y] + F[W]
        BY <2>2, <3>1, <3>2, <3>3
      <3> QED  BY <3>4, <3>5
    <2> QED  BY <2>3, <2>4
  <1> QED  BY <1>2 DEF F

\* Nor does the set that the recursion is defined over, nor a function's values elsewhere.
LEMMA SumFoldsSame ==
    ASSUME NEW S, IsFiniteSet(S), NEW T, IsFiniteSet(T), NEW f, NEW g,
           \A x \in S : f[x] \in Nat, \A x \in T : g[x] \in Nat,
           \A x \in S \cap T : f[x] = g[x]
    PROVE  \A U \in SUBSET (S \cap T) : SumFolds(f, S)[U] = SumFolds(g, T)[U]
  <1> DEFINE F == SumFolds(f, S)
             G == SumFolds(g, T)
             A == {U \in SUBSET (S \cap T) : F[U] = G[U]}
  <1>1. /\ F \in [SUBSET S -> Nat] /\ F = [s \in SUBSET S |-> FoldStep(f, s, F)]
        /\ G \in [SUBSET T -> Nat] /\ G = [s \in SUBSET T |-> FoldStep(g, s, G)]
    BY SumFoldsWell DEF IsSum
  <1> HIDE DEF F, G
  <1>2. IsFiniteSet(S \cap T)
    BY FS_Intersection
  <1>3. \A U \in SUBSET (S \cap T) : U \in A
    <2> SUFFICES ASSUME NEW U \in SUBSET (S \cap T), \A V \in SUBSET U : V # U => V \in A
                 PROVE  U \in A
      <3> HIDE DEF A
      <3> QED  BY <1>2, SubsetInduction
    <2>1. F[U] = FoldStep(f, U, F) /\ G[U] = FoldStep(g, U, G)
      BY <1>1
    <2>2. CASE U = {}
      BY <2>1, <2>2 DEF FoldStep
    <2>3. CASE U # {}
      <3>1. PICK y \in U : y = CHOOSE w \in U : TRUE
        BY <2>3
      <3>2. F[U \ {y}] = G[U \ {y}]
        <4>1. U \ {y} \in A
          BY <3>1
        <4> QED  BY <4>1
      <3>3. f[y] = g[y]
        BY <3>1
      <3> QED  BY <2>1, <2>3, <3>1, <3>2, <3>3 DEF FoldStep
    <2> QED  BY <2>2, <2>3
  <1> QED  BY <1>3 DEF F, G

-----------------------------------------------------------------------------
(* What follows for sums.                                                  *)

LEMMA SumOfNone == ASSUME NEW f PROVE SumFunctionOnSet(f, {}) = 0
  <1>1. IsFiniteSet({}) /\ \A x \in {} : f[x] \in Nat
    BY FS_EmptySet
  <1>2. IsSum(f, {}, SumFolds(f, {}))
    BY <1>1, SumFoldsWell
  <1>3. SumFolds(f, {})[{}] = 0
    BY <1>2 DEF IsSum, FoldStep
  <1> QED  BY <1>3, SumIsFold

LEMMA SumType ==
    ASSUME NEW S, IsFiniteSet(S), NEW f, \A x \in S : f[x] \in Nat
    PROVE  SumFunctionOnSet(f, S) \in Nat
  BY SumFoldsWell, SumIsFold

\* Equal summands have equal sums.
LEMMA SumEqual ==
    ASSUME NEW S, IsFiniteSet(S), NEW f, NEW g,
           \A x \in S : f[x] \in Nat /\ g[x] = f[x]
    PROVE  SumFunctionOnSet(g, S) = SumFunctionOnSet(f, S)
  <1>1. \A U \in SUBSET (S \cap S) : SumFolds(f, S)[U] = SumFolds(g, S)[U]
    BY SumFoldsSame
  <1> QED  BY <1>1, SumIsFold

\* One element taken out.
LEMMA SumSplit ==
    ASSUME NEW S, IsFiniteSet(S), NEW f, \A x \in S : f[x] \in Nat, NEW x \in S
    PROVE  SumFunctionOnSet(f, S) = f[x] + SumFunctionOnSet(f, S \ {x})
  <1>1. SumFolds(f, S)[S] = f[x] + SumFolds(f, S)[S \ {x}]
    BY SumFoldsAny
  <1>2. IsFiniteSet(S \ {x})
    BY FS_RemoveElement
  <1>3. \A U \in SUBSET (S \cap (S \ {x})) : SumFolds(f, S)[U] = SumFolds(f, S \ {x})[U]
    BY <1>2, SumFoldsSame
  <1>4. S \ {x} \in SUBSET (S \cap (S \ {x}))
    OBVIOUS
  <1> QED  BY <1>1, <1>3, <1>4, SumIsFold

\* Larger summands have larger sums.
LEMMA SumMonotone ==
    ASSUME NEW S, IsFiniteSet(S), NEW f, NEW g,
           \A x \in S : f[x] \in Nat /\ g[x] \in Nat /\ f[x] <= g[x]
    PROVE  SumFunctionOnSet(f, S) <= SumFunctionOnSet(g, S)
  <1> DEFINE A == {U \in SUBSET S : SumFunctionOnSet(f, U) <= SumFunctionOnSet(g, U)}
  <1>1. \A U \in SUBSET S : U \in A
    <2> SUFFICES ASSUME NEW U \in SUBSET S, \A V \in SUBSET U : V # U => V \in A
                 PROVE  U \in A
      <3> HIDE DEF A
      <3> QED  BY SubsetInduction
    <2>1. CASE U = {}
      BY <2>1, SumOfNone
    <2>2. CASE U # {}
      <3>1. PICK x \in U : TRUE
        BY <2>2
      <3>2. IsFiniteSet(U) /\ IsFiniteSet(U \ {x})
        BY FS_Subset, FS_RemoveElement
      <3>3. /\ SumFunctionOnSet(f, U) = f[x] + SumFunctionOnSet(f, U \ {x})
            /\ SumFunctionOnSet(g, U) = g[x] + SumFunctionOnSet(g, U \ {x})
        BY <3>1, <3>2, SumSplit
      <3>4. SumFunctionOnSet(f, U \ {x}) <= SumFunctionOnSet(g, U \ {x})
        <4>1. U \ {x} \in A
          BY <3>1
        <4> QED  BY <4>1
      <3>5. /\ SumFunctionOnSet(f, U \ {x}) \in Nat /\ SumFunctionOnSet(g, U \ {x}) \in Nat
            /\ f[x] \in Nat /\ g[x] \in Nat /\ f[x] <= g[x]
        BY <3>2, SumType
      <3>6. SumFunctionOnSet(f, U) <= SumFunctionOnSet(g, U)
        BY <3>3, <3>4, <3>5
      <3> QED  BY <3>6
    <2> QED  BY <2>1, <2>2
  <1> QED  BY <1>1

\* A part has the smaller sum, and the same one only if nothing positive is left out.
LEMMA SumOfPart ==
    ASSUME NEW S, IsFiniteSet(S), NEW f, \A x \in S : f[x] \in Nat, NEW T \in SUBSET S
    PROVE  SumFunctionOnSet(f, T) <= SumFunctionOnSet(f, S)
  <1> DEFINE A == {U \in SUBSET S : SumFunctionOnSet(f, U \cap T) <= SumFunctionOnSet(f, U)}
  <1>1. \A U \in SUBSET S : U \in A
    <2> SUFFICES ASSUME NEW U \in SUBSET S, \A V \in SUBSET U : V # U => V \in A
                 PROVE  U \in A
      <3> HIDE DEF A
      <3> QED  BY SubsetInduction
    <2>1. /\ IsFiniteSet(U) /\ IsFiniteSet(U \cap T)
          /\ SumFunctionOnSet(f, U) \in Nat /\ SumFunctionOnSet(f, U \cap T) \in Nat
      BY FS_Subset, SumType
    <2>2. U \cap T = U => SumFunctionOnSet(f, U \cap T) <= SumFunctionOnSet(f, U)
      <3>1. U \cap T = U => SumFunctionOnSet(f, U \cap T) = SumFunctionOnSet(f, U)
        BY Zenon
      <3> QED  BY <2>1, <3>1
    <2>3. ASSUME NEW x \in U, x \notin T
          PROVE  SumFunctionOnSet(f, U \cap T) <= SumFunctionOnSet(f, U)
      <3>1. SumFunctionOnSet(f, U) = f[x] + SumFunctionOnSet(f, U \ {x})
        BY <2>1, SumSplit
      <3>2. SumFunctionOnSet(f, (U \ {x}) \cap T) <= SumFunctionOnSet(f, U \ {x})
        <4>1. U \ {x} \in A
          OBVIOUS
        <4> QED  BY <4>1
      <3>3. (U \ {x}) \cap T = U \cap T
        BY <2>3
      <3>4. SumFunctionOnSet(f, U \ {x}) \in Nat /\ f[x] \in Nat
        BY <2>1, FS_RemoveElement, SumType
      <3> QED  BY <2>1, <3>1, <3>2, <3>3, <3>4
    <2>4. \A x \in U : x \notin T => SumFunctionOnSet(f, U \cap T) <= SumFunctionOnSet(f, U)
      BY <2>3
    <2>5. SumFunctionOnSet(f, U \cap T) <= SumFunctionOnSet(f, U)
      BY <2>2, <2>4
    <2> QED  BY <2>5
  <1>2. S \in A /\ S \cap T = T
    BY <1>1
  <1> QED  BY <1>2

LEMMA SumOfProperPart ==
    ASSUME NEW S, IsFiniteSet(S), NEW f, \A x \in S : f[x] \in Nat \ {0},
           NEW T \in SUBSET S, T # S
    PROVE  SumFunctionOnSet(f, T) < SumFunctionOnSet(f, S)
  <1>1. PICK x \in S : x \notin T
    OBVIOUS
  <1>2. SumFunctionOnSet(f, S) = f[x] + SumFunctionOnSet(f, S \ {x})
    BY SumSplit
  <1>3. IsFiniteSet(S \ {x}) /\ T \in SUBSET (S \ {x}) /\ IsFiniteSet(T)
    BY <1>1, FS_RemoveElement, FS_Subset
  <1>4. SumFunctionOnSet(f, T) <= SumFunctionOnSet(f, S \ {x})
    BY <1>3, SumOfPart
  <1>5. SumFunctionOnSet(f, T) \in Nat /\ SumFunctionOnSet(f, S \ {x}) \in Nat
    BY <1>3, SumType
  <1> QED  BY <1>2, <1>4, <1>5

\* A sum over what the elements of a set are mapped to, one by one.
LEMMA SumMoved ==
    ASSUME NEW S, IsFiniteSet(S), NEW h, \A x, y \in S : h[x] = h[y] => x = y,
           NEW f, NEW g, \A x \in S : f[x] \in Nat /\ f[x] = g[h[x]]
    PROVE  SumFunctionOnSet(f, S) = SumFunctionOnSet(g, {h[x] : x \in S})
  <1> DEFINE Image(U) == {h[x] : x \in U}
             A == {U \in SUBSET S : SumFunctionOnSet(f, U) = SumFunctionOnSet(g, Image(U))}
  <1>1. \A U \in SUBSET S : U \in A
    <2> SUFFICES ASSUME NEW U \in SUBSET S, \A V \in SUBSET U : V # U => V \in A
                 PROVE  U \in A
      <3> HIDE DEF A
      <3> QED  BY SubsetInduction
    <2>1. CASE U = {}
      <3>1. Image(U) = {}
        BY <2>1
      <3> QED  BY <2>1, <3>1, SumOfNone
    <2>2. ASSUME NEW x \in U
          PROVE  SumFunctionOnSet(f, U) = SumFunctionOnSet(g, Image(U))
      <3>1. IsFiniteSet(U)
        BY FS_Subset
      <3>2. IsFiniteSet(Image(U))
        <4>1. [y \in U |-> h[y]] \in Surjection(U, Image(U))
          BY DEF Surjection
        <4> HIDE DEF Image
        <4> QED  BY <3>1, <4>1, FS_Surjection
      <3>3. \A z \in Image(U) : g[z] \in Nat
        OBVIOUS
      <3>4. Image(U) \ {h[x]} = Image(U \ {x}) /\ h[x] \in Image(U)
        OBVIOUS
      <3>5. SumFunctionOnSet(f, U) = f[x] + SumFunctionOnSet(f, U \ {x})
        BY <3>1, SumSplit
      <3>6. SumFunctionOnSet(g, Image(U)) = g[h[x]] + SumFunctionOnSet(g, Image(U) \ {h[x]})
        <4> HIDE DEF Image
        <4> QED  BY <3>2, <3>3, <3>4, SumSplit
      <3>7. SumFunctionOnSet(f, U \ {x}) = SumFunctionOnSet(g, Image(U \ {x}))
        <4>1. U \ {x} \in A
          OBVIOUS
        <4> QED  BY <4>1
      <3>8. f[x] = g[h[x]]
        OBVIOUS
      <3> HIDE DEF Image
      <3> QED  BY <3>4, <3>5, <3>6, <3>7, <3>8
    <2>3. SumFunctionOnSet(f, U) = SumFunctionOnSet(g, Image(U))
      BY <2>1, <2>2
    <2> HIDE DEF Image
    <2> QED  BY <2>3
  <1>2. S \in A
    BY <1>1
  <1> QED  BY <1>2

\* A finite set has an element with the largest number.
LEMMA LargestOne ==
    ASSUME NEW S, IsFiniteSet(S), S # {}, NEW f, \A x \in S : f[x] \in Nat
    PROVE  \E m \in S : \A x \in S : f[x] <= f[m]
  <1> DEFINE A == {T \in SUBSET S : T # {} => \E m \in T : \A x \in T : f[x] <= f[m]}
  <1>1. ASSUME NEW T \in SUBSET S, \A U \in SUBSET T : U # T => U \in A
        PROVE  T \in A
    <2>1. CASE T = {}
      BY <2>1
    <2>2. ASSUME NEW z \in T
          PROVE  \E m \in T : \A x \in T : f[x] <= f[m]
      <3>1. T \ {z} \in A
        BY <1>1
      <3>2. CASE T \ {z} = {}
        BY <3>2
      <3>3. ASSUME NEW y \in T \ {z}, \A x \in T \ {z} : f[x] <= f[y]
            PROVE  \E m \in T : \A x \in T : f[x] <= f[m]
        <4>1. f[z] \in Nat /\ f[y] \in Nat /\ \A x \in T : f[x] \in Nat
          OBVIOUS
        <4>2. CASE f[z] <= f[y]
          BY <3>3, <4>2
        <4>3. CASE f[y] <= f[z]
          <5>1. \A x \in T : f[x] <= f[z]
            BY <3>3, <4>1, <4>3
          <5> QED BY <5>1
        <4> QED BY <4>1, <4>2, <4>3
      <3> QED BY <3>1, <3>2, <3>3
    <2> QED BY <2>1, <2>2
  <1> HIDE DEF A
  <1>2. S \in A
    BY <1>1, SubsetInduction
  <1> QED BY <1>2 DEF A
\* Induction over the natural numbers, for a set instead of a predicate.
LEMMA NatSetInduction ==
    ASSUME NEW A, 0 \in A, \A n \in Nat : n \in A => n + 1 \in A
    PROVE  \A n \in Nat : n \in A
  <1> DEFINE B == {n \in Nat : n \notin A}
             R == OpToRel(<, Nat)
  <1>1. SUFFICES ASSUME B # {} PROVE FALSE
    OBVIOUS
  <1>2. PICK m \in B : \A n \in B : ~ (<<n, m>> \in R)
    <2>1. B \subseteq Nat /\ IsWellFoundedOn(R, Nat)
      BY NatLessThanWellFounded
    <2> HIDE DEF B, R
    <2> QED  BY <1>1, <2>1, WFMin
  <1>3. m \in Nat /\ m # 0 /\ m - 1 \in Nat /\ m - 1 < m
    OBVIOUS
  <1>4. m - 1 \in B
    <2>1. m = (m - 1) + 1
      BY <1>3
    <2> QED  BY <1>3, <2>1
  <1>5. <<m - 1, m>> \in R
    BY <1>3 DEF OpToRel
  <1> QED  BY <1>2, <1>4, <1>5

\* What is at most b comes first in what does not descend.
LEMMA FirstPart ==
    ASSUME NEW n \in Nat, NEW g, \A i \in 1..n : g[i] \in Int,
           \A i, j \in 1..n : i < j => g[i] <= g[j], NEW b \in Int
    PROVE  \E k \in 0..n : \A i \in 1..n : g[i] <= b <=> i <= k
  <1> DEFINE First(m) == \E k \in 0..m : \A i \in 1..m : g[i] <= b <=> i <= k
             A == {m \in Nat : m <= n => First(m)}
  <1>1. 0 \in A
    OBVIOUS
  <1>2. ASSUME NEW m \in Nat, m \in A PROVE m + 1 \in A
    <2> SUFFICES ASSUME m + 1 <= n PROVE First(m + 1)
      OBVIOUS
    <2>1. PICK k \in 0..m : \A i \in 1..m : g[i] <= b <=> i <= k
      BY <1>2
    <2>2. \A i \in 1..(m + 1) : i \in 1..m \/ i = m + 1
      OBVIOUS
    <2>3. CASE g[m + 1] <= b
      <3>1. \A i \in 1..m : g[i] <= b
        BY <2>3
      <3>2. \A i \in 1..(m + 1) : g[i] <= b <=> i <= m + 1
        BY <2>2, <2>3, <3>1
      <3> QED  BY <3>2
    <2>4. CASE ~ (g[m + 1] <= b)
      <3>1. \A i \in 1..(m + 1) : g[i] <= b <=> i <= k
        BY <2>1, <2>2, <2>4
      <3> QED  BY <3>1
    <2> QED  BY <2>3, <2>4
  <1> HIDE DEF A
  <1>3. n \in A
    BY <1>1, <1>2, NatSetInduction
  <1> QED  BY <1>3 DEF A
=============================================================================
