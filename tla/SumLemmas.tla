----------------------------- MODULE SumLemmas -----------------------------
(***************************************************************************)
(* Sums over finite sets, for the components whose properties say that a   *)
(* column is the sum of some rows: MapThenSumSet of the community modules  *)
(* as a function of the set it sums over.                                  *)
(*                                                                         *)
(* The library's induction theorems cannot be instantiated here, so facts  *)
(* about every finite set are proved by minimal counterexample: strict     *)
(* inclusion is well founded on the subsets of a finite set, and the least *)
(* set a fact fails for is impossible.                                     *)
(***************************************************************************)
EXTENDS Integers, FiniteSetsExt, FiniteSetTheorems, TLAPS

\* The sum of the values of f over S, and what makes it a number.
SumOf(f, S) == MapThenSumSet(LAMBDA x : f[x], S)
IntOn(f, S) == \A x \in S : f[x] \in Int
NatOn(f, S) == \A x \in S : f[x] \in Nat

\* A nonempty collection of subsets of a finite set has a member none of whose proper
\* subsets is in the collection.
LEMMA MinimalSet ==
    ASSUME NEW S, IsFiniteSet(S), NEW C, C \subseteq SUBSET S, C # {}
    PROVE  \E T \in C : \A U \in SUBSET T : U # T => U \notin C
<1>1. IsWellFoundedOn(StrictSubsetOrdering(S), FiniteSubsetsOf(S))
  BY FS_StrictSubsetOrderingWellFounded
<1>2. C \subseteq FiniteSubsetsOf(S)
  BY FS_Subset DEF FiniteSubsetsOf
<1>3. PICK T \in C : \A U \in C : <<U, T>> \notin StrictSubsetOrdering(S)
  BY <1>1, <1>2, WFMin
<1> QED
  BY <1>3 DEF StrictSubsetOrdering

-----------------------------------------------------------------------------
(* What the community module's recursion computes *)

\* The element the fold takes first, one step of the fold, and the fold itself.
First(s) == CHOOSE x \in s : TRUE
Fold(f, it, s) == IF s = {} THEN 0 ELSE f[First(s)] + it[s \ {First(s)}]
IsFold(f, it, S) == it = [s \in SUBSET S |-> Fold(f, it, s)]

\* The equation the sum should satisfy.
Unfolds(f, S) ==
    SumOf(f, S) = IF S = {} THEN 0 ELSE f[First(S)] + SumOf(f, S \ {First(S)})

\* The sum is what a fold of f computes, if there is one.
LEMMA SumIsFold ==
    ASSUME NEW f, NEW S, NEW g, IsFold(f, g, S)
    PROVE  \E it : IsFold(f, it, S) /\ SumOf(f, S) = it[S]
<1> DEFINE it == CHOOSE it : IsFold(f, it, S)
<1>1. IsFold(f, it, S)
  OBVIOUS
<1>2. SumOf(f, S) = it[S]
  BY DEF SumOf, MapThenSumSet, MapThenFoldSet, IsFold, Fold, First
<1> QED
  BY <1>1, <1>2

\* There is at most one.
LEMMA FoldsAgree ==
    ASSUME NEW f, NEW S, IsFiniteSet(S), NEW g, IsFold(f, g, S), NEW h, IsFold(f, h, S)
    PROVE  g[S] = h[S]
<1> DEFINE C == {T \in SUBSET S : g[T] # h[T]}
<1>1. SUFFICES ASSUME C # {} PROVE FALSE
  OBVIOUS
<1>2. PICK T \in C : \A U \in SUBSET T : U # T => U \notin C
  <2>1. C \subseteq SUBSET S
    OBVIOUS
  <2> HIDE DEF C
  <2> QED
    BY <1>1, <2>1, MinimalSet
<1>3. g[T] = Fold(f, g, T) /\ h[T] = Fold(f, h, T)
  BY DEF IsFold
<1>4. T # {} => g[T \ {First(T)}] = h[T \ {First(T)}]
  BY <1>2 DEF First
<1> QED
  BY <1>3, <1>4 DEF Fold

\* Over a finite set there is one, and the sum satisfies its equation.
LEMMA SumUnfolds ==
    ASSUME NEW f, NEW S, IsFiniteSet(S)
    PROVE  Unfolds(f, S)
<1> DEFINE C == {T \in SUBSET S : ~Unfolds(f, T)}
<1>1. SUFFICES ASSUME C # {} PROVE FALSE
  OBVIOUS
<1>2. PICK T \in C : \A U \in SUBSET T : U # T => U \notin C
  <2>1. C \subseteq SUBSET S
    OBVIOUS
  <2> HIDE DEF C
  <2> QED
    BY <1>1, <2>1, MinimalSet
<1> DEFINE g == [s \in SUBSET T |-> IF s = {} THEN 0 ELSE f[First(s)] + SumOf(f, s \ {First(s)})]
<1>3. \A s \in SUBSET T : s # {} => First(s) \in s
  BY DEF First
<1>4. \A s \in SUBSET T : s # T => g[s] = SumOf(f, s)
  BY <1>2 DEF Unfolds
<1>5. IsFold(f, g, T)
  <2>1. \A s \in SUBSET T : s # {} => g[s \ {First(s)}] = SumOf(f, s \ {First(s)})
    BY <1>3, <1>4
  <2>2. \A s \in SUBSET T : g[s] = Fold(f, g, s)
    BY <2>1 DEF Fold
  <2> QED
    BY <2>2 DEF IsFold
<1>6. SumOf(f, T) = g[T]
  BY <1>5, SumIsFold, FoldsAgree, FS_Subset
<1> QED
  BY <1>6 DEF Unfolds

-----------------------------------------------------------------------------
(* Sums *)

\* Nothing sums to zero.
LEMMA SumEmpty == \A f : SumOf(f, {}) = 0
BY SumUnfolds, FS_EmptySet DEF Unfolds

\* A sum of integers is an integer.
LEMMA SumInt ==
    ASSUME NEW f, NEW S, IsFiniteSet(S), IntOn(f, S)
    PROVE  SumOf(f, S) \in Int
<1> DEFINE C == {T \in SUBSET S : SumOf(f, T) \notin Int}
<1>1. SUFFICES ASSUME C # {} PROVE FALSE
  OBVIOUS
<1>2. PICK T \in C : \A U \in SUBSET T : U # T => U \notin C
  <2>1. C \subseteq SUBSET S
    OBVIOUS
  <2> HIDE DEF C
  <2> QED
    BY <1>1, <2>1, MinimalSet
<1>3. Unfolds(f, T)
  BY SumUnfolds, FS_Subset
<1>4. T # {} => First(T) \in T /\ SumOf(f, T \ {First(T)}) \in Int
  BY <1>2 DEF First
<1> QED
  BY <1>3, <1>4 DEF Unfolds, IntOn

\* A sum of natural numbers is one.
LEMMA SumNat ==
    ASSUME NEW f, NEW S, IsFiniteSet(S), NatOn(f, S)
    PROVE  SumOf(f, S) \in Nat
<1> DEFINE C == {T \in SUBSET S : SumOf(f, T) \notin Nat}
<1>1. SUFFICES ASSUME C # {} PROVE FALSE
  OBVIOUS
<1>2. PICK T \in C : \A U \in SUBSET T : U # T => U \notin C
  <2>1. C \subseteq SUBSET S
    OBVIOUS
  <2> HIDE DEF C
  <2> QED
    BY <1>1, <2>1, MinimalSet
<1>3. Unfolds(f, T)
  BY SumUnfolds, FS_Subset
<1>4. T # {} => First(T) \in T /\ SumOf(f, T \ {First(T)}) \in Nat
  BY <1>2 DEF First
<1> QED
  BY <1>3, <1>4 DEF Unfolds, NatOn

\* Any element may be taken out of a sum.
LEMMA SumRemove ==
    ASSUME NEW f, NEW S, IsFiniteSet(S), IntOn(f, S), NEW x \in S
    PROVE  SumOf(f, S) = f[x] + SumOf(f, S \ {x})
<1> DEFINE Fine(T) == \A y \in T : SumOf(f, T) = f[y] + SumOf(f, T \ {y})
           C == {T \in SUBSET S : ~Fine(T)}
<1>1. SUFFICES ASSUME C # {} PROVE FALSE
  OBVIOUS
<1>2. PICK T \in C : \A U \in SUBSET T : U # T => U \notin C
  <2>1. C \subseteq SUBSET S
    OBVIOUS
  <2> HIDE DEF C
  <2> QED
    BY <1>1, <2>1, MinimalSet
<1>3. IsFiniteSet(T) /\ IntOn(f, T)
  BY FS_Subset DEF IntOn
<1>4. ASSUME NEW y \in T
      PROVE  SumOf(f, T) = f[y] + SumOf(f, T \ {y})
  <2>1. PICK z \in T : SumOf(f, T) = f[z] + SumOf(f, T \ {z})
    BY <1>3, SumUnfolds DEF Unfolds, First
  <2>2. CASE z = y
    BY <2>1, <2>2
  <2>3. CASE z # y
    <3>1. SumOf(f, T \ {z}) = f[y] + SumOf(f, (T \ {z}) \ {y})
      BY <1>2, <2>3
    <3>2. SumOf(f, T \ {y}) = f[z] + SumOf(f, (T \ {y}) \ {z})
      BY <1>2, <2>3
    <3>3. (T \ {y}) \ {z} = (T \ {z}) \ {y}
      OBVIOUS
    <3>4. SumOf(f, (T \ {z}) \ {y}) \in Int /\ f[y] \in Int /\ f[z] \in Int
      BY <1>3, SumInt, FS_Subset DEF IntOn
    <3>5. SumOf(f, T \ {y}) = f[z] + SumOf(f, (T \ {z}) \ {y})
      BY <3>2, <3>3
    <3>6. SumOf(f, T) = f[z] + (f[y] + SumOf(f, (T \ {z}) \ {y}))
      BY <2>1, <3>1
    <3>7. \A a, b, c \in Int : a + (b + c) = b + (a + c)
      OBVIOUS
    <3> QED
      BY <3>4, <3>5, <3>6, <3>7
  <2> QED
    BY <2>2, <2>3
<1> QED
  BY <1>4

\* A new element adds its value to a sum.
LEMMA SumAdd ==
    ASSUME NEW f, NEW S, IsFiniteSet(S), NEW x, x \notin S, IntOn(f, S \cup {x})
    PROVE  SumOf(f, S \cup {x}) = f[x] + SumOf(f, S)
<1>1. IsFiniteSet(S \cup {x}) /\ x \in S \cup {x}
  BY FS_AddElement
<1>2. (S \cup {x}) \ {x} = S
  OBVIOUS
<1>3. SumOf(f, S \cup {x}) = f[x] + SumOf(f, (S \cup {x}) \ {x})
  BY <1>1, SumRemove
<1> QED
  BY <1>2, <1>3

\* Only the values over the set matter.
LEMMA SumSame ==
    ASSUME NEW f, NEW g, NEW S, IsFiniteSet(S), \A x \in S : f[x] = g[x]
    PROVE  SumOf(f, S) = SumOf(g, S)
<1> DEFINE C == {T \in SUBSET S : SumOf(f, T) # SumOf(g, T)}
<1>1. SUFFICES ASSUME C # {} PROVE FALSE
  OBVIOUS
<1>2. PICK T \in C : \A U \in SUBSET T : U # T => U \notin C
  <2>1. C \subseteq SUBSET S
    OBVIOUS
  <2> HIDE DEF C
  <2> QED
    BY <1>1, <2>1, MinimalSet
<1>3. Unfolds(f, T) /\ Unfolds(g, T)
  BY SumUnfolds, FS_Subset
<1>4. T # {} => /\ First(T) \in T
                /\ SumOf(f, T \ {First(T)}) = SumOf(g, T \ {First(T)})
  BY <1>2 DEF First
<1> QED
  BY <1>3, <1>4 DEF Unfolds

\* What x contributes to the sum over S.
Part(f, S, x) == IF x \in S THEN f[x] ELSE 0

\* If two sums differ at most in what they say of x, they differ by what x contributes.
LEMMA SumMoves ==
    ASSUME NEW f, NEW S, IsFiniteSet(S), IntOn(f, S),
           NEW g, NEW T, IntOn(g, T),
           NEW x, S \ {x} = T \ {x}, \A y \in S \ {x} : f[y] = g[y]
    PROVE  /\ IsFiniteSet(T)
           /\ SumOf(f, S) \in Int /\ SumOf(g, T) \in Int
           /\ SumOf(g, T) = SumOf(f, S) - Part(f, S, x) + Part(g, T, x)
<1>1. IsFiniteSet(S \ {x}) /\ IsFiniteSet(T)
  <2>1. IsFiniteSet(S \ {x}) /\ IsFiniteSet((S \ {x}) \cup {x})
    BY FS_Subset, FS_AddElement
  <2>2. T \subseteq (S \ {x}) \cup {x}
    OBVIOUS
  <2> QED
    BY <2>1, <2>2, FS_Subset
<1>2. SumOf(f, S \ {x}) = SumOf(g, T \ {x})
  BY <1>1, SumSame
<1>3. /\ SumOf(f, S) \in Int /\ SumOf(g, T) \in Int /\ SumOf(f, S \ {x}) \in Int
  BY <1>1, SumInt DEF IntOn
<1>4. SumOf(f, S) = Part(f, S, x) + SumOf(f, S \ {x})
  <2>1. CASE x \in S
    BY <2>1, SumRemove DEF Part
  <2>2. CASE x \notin S
    <3>1. S \ {x} = S
      BY <2>2
    <3>2. SumOf(f, S \ {x}) = SumOf(f, S)
      BY <3>1
    <3>3. Part(f, S, x) = 0
      BY <2>2 DEF Part
    <3> QED
      BY <3>2, <3>3, <1>3
  <2> QED
    BY <2>1, <2>2
<1>5. SumOf(g, T) = Part(g, T, x) + SumOf(g, T \ {x})
  <2>1. CASE x \in T
    BY <2>1, <1>1, SumRemove DEF Part
  <2>2. CASE x \notin T
    <3>1. T \ {x} = T
      BY <2>2
    <3>2. SumOf(g, T \ {x}) = SumOf(g, T)
      BY <3>1
    <3>3. Part(g, T, x) = 0
      BY <2>2 DEF Part
    <3> QED
      BY <3>2, <3>3, <1>3
  <2> QED
    BY <2>1, <2>2
<1>6. Part(f, S, x) \in Int /\ Part(g, T, x) \in Int
  BY DEF Part, IntOn
<1> QED
  BY <1>1, <1>2, <1>3, <1>4, <1>5, <1>6

\* The amounts of rows, summed as the models write it.
LEMMA SumOfAmounts ==
    ASSUME NEW R, NEW S, S \subseteq R
    PROVE  MapThenSumSet(LAMBDA r : r.amount, S) = SumOf([r \in R |-> r.amount], S)
BY ZenonT(30) DEF SumOf, MapThenSumSet, MapThenFoldSet

\* The sum of the quantities of some rows.
LEMMA SumOfQuantities ==
    ASSUME NEW R
    PROVE  MapThenSumSet(LAMBDA r : r.qty, R) = SumOf([r \in R |-> r.qty], R)
BY ZenonT(30) DEF SumOf, MapThenSumSet, MapThenFoldSet

\* Finitely many values, and z, have a greatest one.
LEMMA GreatestValue ==
    ASSUME NEW f, NEW S, IsFiniteSet(S), IntOn(f, S), NEW z \in Int
    PROVE  \E m \in {z} \cup {f[x] : x \in S} : \A y \in {z} \cup {f[x] : x \in S} : m >= y
<1> DEFINE Values(T) == {z} \cup {f[x] : x \in T}
           Bounded(T) == \E m \in Values(T) : \A y \in Values(T) : m >= y
           C == {T \in SUBSET S : ~Bounded(T)}
<1>1. SUFFICES ASSUME C # {} PROVE FALSE
  OBVIOUS
<1>2. PICK T \in C : \A U \in SUBSET T : U # T => U \notin C
  <2>1. C \subseteq SUBSET S
    OBVIOUS
  <2> HIDE DEF C
  <2> QED
    BY <1>1, <2>1, MinimalSet
<1>3. CASE T = {}
  <2>1. Values(T) = {z}
    BY <1>3
  <2> QED
    BY <2>1
<1>4. CASE T # {}
  <2>1. PICK x \in T : TRUE
    BY <1>4
  <2>2. Bounded(T \ {x}) /\ Values(T) = Values(T \ {x}) \cup {f[x]}
    BY <1>2, <2>1
  <2>3. Values(T) \subseteq Int /\ f[x] \in Int
    BY <2>1 DEF IntOn
  <2>4. PICK m \in Values(T \ {x}) : \A y \in Values(T \ {x}) : m >= y
    BY <2>2
  <2> HIDE DEF Values
  <2>5. CASE m >= f[x]
    BY <2>2, <2>3, <2>4, <2>5
  <2>6. CASE ~(m >= f[x])
    <3>1. \A y \in Values(T) : f[x] >= y
      BY <2>2, <2>3, <2>4, <2>6
    <3> QED
      BY <2>2, <3>1
  <2> QED
    BY <2>5, <2>6
<1> QED
  BY <1>3, <1>4
=============================================================================
