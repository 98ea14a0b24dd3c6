----------------------------- MODULE SumTheorems -----------------------------
(***************************************************************************)
(* Sums of a function over a finite set (SumFunctionOnSet of Functions).   *)
(*                                                                         *)
(* The stock ledger, the balance of an invoice and the refunds of a        *)
(* payment are sums over tables; the proofs about them need to know how a  *)
(* sum changes when one row does.  Each fact is proved by induction in the *)
(* form of a smallest counterexample: a non-empty collection of subsets of *)
(* a finite set has one that contains no other.                            *)
(***************************************************************************)
EXTENDS Integers, FiniteSets, Functions, FiniteSetTheorems, WellFoundedInduction, TLAPS

Sum(f, S) == SumFunctionOnSet(f, S)

LEMMA SmallestSet ==
  ASSUME NEW S, IsFiniteSet(S), NEW C, C \subseteq SUBSET S, C # {}
  PROVE  \E T \in C : \A U \in C : U \subseteq T => U = T
<1>1. IsWellFoundedOn(StrictSubsetOrdering(S), SUBSET S)
  BY FS_StrictSubsetOrderingWellFounded, FS_FiniteSubsetsOfFinite
<1>2. PICK T \in C : \A U \in C : ~(<<U, T>> \in StrictSubsetOrdering(S))
  BY <1>1, WFMin
<1>3. \A U \in C : U \subseteq T => U = T
  BY <1>2 DEF StrictSubsetOrdering
<1> QED BY <1>3

-----------------------------------------------------------------------------
(* The recursive function the sum is defined by exists and is unique.      *)

First(s) == CHOOSE x \in s : TRUE

IsSum(h, f, S) ==
  h = [s \in SUBSET S |-> IF s = {} THEN 0 ELSE f[First(s)] + h[s \ {First(s)}]]

LEMMA SumUnfolds ==
  ASSUME NEW f, NEW S
  PROVE  Sum(f, S) = (CHOOSE h : IsSum(h, f, S))[S]
BY SMT DEF Sum, SumFunctionOnSet, FoldFunctionOnSet, MapThenFoldSet, IsSum, First

LEMMA FirstIn == ASSUME NEW s, s # {} PROVE First(s) \in s
BY DEF First

LEMMA IsSumAt ==
  ASSUME NEW h, NEW f, NEW S, IsSum(h, f, S), NEW s \in SUBSET S
  PROVE  h[s] = IF s = {} THEN 0 ELSE f[First(s)] + h[s \ {First(s)}]
<1> DEFINE step(z) == IF z = {} THEN 0 ELSE f[First(z)] + h[z \ {First(z)}]
<1>1. h = [z \in SUBSET S |-> step(z)]
  BY DEF IsSum
<1> HIDE DEF step
<1>2. h[s] = step(s)
  BY <1>1
<1> QED BY <1>2 DEF step

LEMMA SumsAgree ==
  ASSUME NEW f, NEW V, NEW W, IsFiniteSet(V), NEW g, NEW h,
         IsSum(g, f, V), IsSum(h, f, W)
  PROVE  \A s \in SUBSET V : s \in SUBSET W => g[s] = h[s]
<1> DEFINE C == {s \in SUBSET V : s \in SUBSET W /\ g[s] # h[s]}
<1> SUFFICES ASSUME C # {} PROVE FALSE
  OBVIOUS
<1>0. C \subseteq SUBSET V
  OBVIOUS
<1> HIDE DEF C
<1>1. PICK T \in C : \A U \in C : U \subseteq T => U = T
  BY <1>0, SmallestSet
<1> USE DEF C
<1>2. /\ g[T] = IF T = {} THEN 0 ELSE f[First(T)] + g[T \ {First(T)}]
      /\ h[T] = IF T = {} THEN 0 ELSE f[First(T)] + h[T \ {First(T)}]
  BY IsSumAt
<1>3. T # {}
  BY <1>2
<1>4. T \ {First(T)} \notin C
  BY <1>1, <1>3, FirstIn
<1>5. g[T \ {First(T)}] = h[T \ {First(T)}]
  BY <1>4
<1> QED BY <1>2, <1>3, <1>5

LEMMA SumRestricts ==
  ASSUME NEW f, NEW V, NEW U \in SUBSET V, NEW h, IsSum(h, f, V)
  PROVE  IsSum([s \in SUBSET U |-> h[s]], f, U)
<1> DEFINE g == [s \in SUBSET U |-> h[s]]
<1>1. ASSUME NEW s \in SUBSET U
      PROVE  g[s] = IF s = {} THEN 0 ELSE f[First(s)] + g[s \ {First(s)}]
  <2>1. h[s] = IF s = {} THEN 0 ELSE f[First(s)] + h[s \ {First(s)}]
    BY IsSumAt
  <2>2. g[s] = h[s] /\ g[s \ {First(s)}] = h[s \ {First(s)}]
    OBVIOUS
  <2> QED BY <2>1, <2>2
<1>2. g = [s \in SUBSET U |-> g[s]]
  OBVIOUS
<1> QED BY <1>1, <1>2 DEF IsSum

LEMMA SumExists ==
  ASSUME NEW f, NEW S, IsFiniteSet(S)
  PROVE  \E h : IsSum(h, f, S)
<1> DEFINE C == {T \in SUBSET S : ~ \E h : IsSum(h, f, T)}
<1> SUFFICES ASSUME C # {} PROVE FALSE
  OBVIOUS
<1>0. C \subseteq SUBSET S
  OBVIOUS
<1> HIDE DEF C
<1>1. PICK T \in C : \A U \in C : U \subseteq T => U = T
  BY <1>0, SmallestSet
<1> USE DEF C
<1> DEFINE sum(U) == CHOOSE h : IsSum(h, f, U)
           below == {U \in SUBSET T : U # T}
           g == [U \in below |-> sum(U)[U]]
           h0 == [U \in SUBSET T |-> IF U = {} THEN 0 ELSE f[First(U)] + g[U \ {First(U)}]]
<1>2. \A U \in below : IsSum(sum(U), f, U) /\ IsFiniteSet(U)
  <2>1. \A U \in below : U \notin C /\ U \in SUBSET S
    BY <1>1
  <2>2. \A U \in below : \E h : IsSum(h, f, U)
    BY <2>1
  <2>3. \A U \in below : IsSum(sum(U), f, U)
    BY <2>2
  <2> QED BY <2>1, <2>3, FS_Subset
<1>3. ASSUME NEW U \in below, NEW V \in SUBSET U PROVE sum(U)[V] = g[V]
  <2>0. V \in below
    BY <1>1
  <2>1. IsSum(sum(U), f, U) /\ IsSum(sum(V), f, V) /\ IsFiniteSet(U) /\ IsFiniteSet(V)
    BY <1>2, <2>0
  <2> HIDE DEF sum
  <2>2. sum(U)[V] = sum(V)[V]
    BY <2>1, SumsAgree
  <2>3. g[V] = sum(V)[V]
    BY <2>0
  <2> QED BY <2>2, <2>3
<1> HIDE DEF sum
<1>4. ASSUME NEW U \in below PROVE h0[U] = g[U]
  <2>1. IsSum(sum(U), f, U)
    BY <1>2
  <2>2. sum(U)[U] = IF U = {} THEN 0 ELSE f[First(U)] + sum(U)[U \ {First(U)}]
    BY <2>1, IsSumAt
  <2>3. sum(U)[U] = g[U] /\ sum(U)[U \ {First(U)}] = g[U \ {First(U)}]
    BY <1>3
  <2>4. h0[U] = IF U = {} THEN 0 ELSE f[First(U)] + g[U \ {First(U)}]
    OBVIOUS
  <2> QED BY <2>2, <2>3, <2>4
<1>5. ASSUME NEW U \in SUBSET T
      PROVE  h0[U] = IF U = {} THEN 0 ELSE f[First(U)] + h0[U \ {First(U)}]
  <2>1. h0[U] = IF U = {} THEN 0 ELSE f[First(U)] + g[U \ {First(U)}]
    OBVIOUS
  <2>2. CASE U = {}
    BY <2>1, <2>2
  <2>3. CASE U # {}
    <3>1. U \ {First(U)} \in below
      BY <2>3, FirstIn
    <3>2. h0[U \ {First(U)}] = g[U \ {First(U)}]
      BY <3>1, <1>4
    <3> QED BY <2>1, <2>3, <3>2
  <2> QED BY <2>2, <2>3
<1>6. h0 = [U \in SUBSET T |-> h0[U]]
  OBVIOUS
<1> HIDE DEF h0
<1>7. IsSum(h0, f, T)
  BY <1>5, <1>6 DEF IsSum
<1> QED BY <1>7

-----------------------------------------------------------------------------
(* What the proofs use.                                                    *)

LEMMA SumStep ==
  ASSUME NEW f, NEW S, IsFiniteSet(S)
  PROVE  Sum(f, S) = IF S = {} THEN 0 ELSE f[First(S)] + Sum(f, S \ {First(S)})
<1> DEFINE h == CHOOSE k : IsSum(k, f, S)
           T == S \ {First(S)}
           g == CHOOSE k : IsSum(k, f, T)
<1>1. IsFiniteSet(T)
  BY FS_Subset
<1>2. IsSum(h, f, S) /\ IsSum(g, f, T)
  BY <1>1, SumExists
<1>3. Sum(f, S) = h[S] /\ Sum(f, T) = g[T]
  BY SumUnfolds
<1> HIDE DEF h, g
<1>4. h[S] = IF S = {} THEN 0 ELSE f[First(S)] + h[T]
  BY <1>2, IsSumAt
<1>5. g[T] = h[T]
  BY <1>1, <1>2, SumsAgree
<1> QED BY <1>3, <1>4, <1>5

(* The sum over no rows is zero.                                           *)
LEMMA SumEmpty == ASSUME NEW f PROVE Sum(f, {}) = 0
BY SumStep, FS_EmptySet

(* A sum of integers is one.                                               *)
LEMMA SumInt ==
  ASSUME NEW S, IsFiniteSet(S), NEW f, \A x \in S : f[x] \in Int
  PROVE  \A T \in SUBSET S : Sum(f, T) \in Int
<1> DEFINE C == {T \in SUBSET S : Sum(f, T) \notin Int}
<1> SUFFICES ASSUME C # {} PROVE FALSE
  OBVIOUS
<1>0. C \subseteq SUBSET S
  OBVIOUS
<1> HIDE DEF C
<1>1. PICK T \in C : \A U \in C : U \subseteq T => U = T
  BY <1>0, SmallestSet
<1> USE DEF C
<1>2. Sum(f, T) = IF T = {} THEN 0 ELSE f[First(T)] + Sum(f, T \ {First(T)})
  BY FS_Subset, SumStep
<1>3. T # {}
  BY <1>2
<1>4. First(T) \in T /\ T \ {First(T)} \notin C
  BY <1>1, <1>3, FirstIn
<1>5. Sum(f, T \ {First(T)}) \in Int /\ f[First(T)] \in Int
  BY <1>4
<1> QED BY <1>2, <1>3, <1>5

(* Any row can be taken out of a sum, not only the first.                  *)
LEMMA SumSplit ==
  ASSUME NEW S, IsFiniteSet(S), NEW f, \A x \in S : f[x] \in Int
  PROVE  \A T \in SUBSET S, x \in S : x \in T => Sum(f, T) = f[x] + Sum(f, T \ {x})
<1> DEFINE C == {T \in SUBSET S : \E x \in T : Sum(f, T) # f[x] + Sum(f, T \ {x})}
<1> SUFFICES ASSUME C # {} PROVE FALSE
  OBVIOUS
<1>0. C \subseteq SUBSET S
  OBVIOUS
<1> HIDE DEF C
<1>1. PICK T \in C : \A U \in C : U \subseteq T => U = T
  BY <1>0, SmallestSet
<1> USE DEF C
<1>2. PICK x \in T : Sum(f, T) # f[x] + Sum(f, T \ {x})
  OBVIOUS
<1> DEFINE y == First(T)
<1>3. y \in T
  BY FirstIn
<1>4. Sum(f, T) = f[y] + Sum(f, T \ {y})
  <2>1. IsFiniteSet(T)
    BY FS_Subset
  <2> QED BY <2>1, SumStep
<1>5. x # y
  BY <1>2, <1>4
<1> HIDE DEF y
<1>6. T \ {x} \notin C /\ T \ {y} \notin C
  BY <1>1, <1>3
<1>7. /\ Sum(f, T \ {y}) = f[x] + Sum(f, (T \ {y}) \ {x})
      /\ Sum(f, T \ {x}) = f[y] + Sum(f, (T \ {x}) \ {y})
  <2>1. x \in T \ {y} /\ y \in T \ {x} /\ T \ {x} \in SUBSET S /\ T \ {y} \in SUBSET S
    BY <1>3, <1>5
  <2> QED BY <1>6, <2>1
<1>8. (T \ {y}) \ {x} = (T \ {x}) \ {y}
  OBVIOUS
<1>9. f[x] \in Int /\ f[y] \in Int /\ Sum(f, (T \ {x}) \ {y}) \in Int
  <2>1. (T \ {x}) \ {y} \in SUBSET S
    OBVIOUS
  <2> QED BY <2>1, <1>3, SumInt
<1>10. \A a, b, c \in Int : a + (b + c) = b + (a + c)
  OBVIOUS
<1> HIDE DEF C
<1>11. Sum(f, T) = f[y] + (f[x] + Sum(f, (T \ {x}) \ {y}))
  BY <1>4, <1>7, <1>8
<1>12. f[x] + Sum(f, T \ {x}) = f[x] + (f[y] + Sum(f, (T \ {x}) \ {y}))
  BY <1>7
<1> QED BY <1>2, <1>9, <1>10, <1>11, <1>12

(* Only the values of the rows that are summed matter.                     *)
LEMMA SumSame ==
  ASSUME NEW S, IsFiniteSet(S), NEW f, NEW g, \A x \in S : f[x] = g[x]
  PROVE  Sum(f, S) = Sum(g, S)
<1> DEFINE C == {T \in SUBSET S : Sum(f, T) # Sum(g, T)}
<1> SUFFICES ASSUME C # {} PROVE FALSE
  OBVIOUS
<1>0. C \subseteq SUBSET S
  OBVIOUS
<1> HIDE DEF C
<1>1. PICK T \in C : \A U \in C : U \subseteq T => U = T
  BY <1>0, SmallestSet
<1> USE DEF C
<1>2. /\ Sum(f, T) = IF T = {} THEN 0 ELSE f[First(T)] + Sum(f, T \ {First(T)})
      /\ Sum(g, T) = IF T = {} THEN 0 ELSE g[First(T)] + Sum(g, T \ {First(T)})
  BY FS_Subset, SumStep
<1>3. T # {}
  BY <1>2
<1>4. First(T) \in T /\ T \ {First(T)} \notin C
  BY <1>1, <1>3, FirstIn
<1>5. Sum(f, T \ {First(T)}) = Sum(g, T \ {First(T)}) /\ f[First(T)] = g[First(T)]
  BY <1>4
<1> QED BY <1>2, <1>3, <1>5

(* When one row x changes, in value or in whether it is summed, the sum    *)
(* changes by what x contributed and contributes.                          *)
THEOREM SumChange ==
  ASSUME NEW S, IsFiniteSet(S), NEW x \in S, NEW f, NEW g,
         \A y \in S : f[y] \in Int /\ g[y] \in Int,
         \A y \in S : y # x => f[y] = g[y],
         NEW T \in SUBSET S, NEW U \in SUBSET S, T \ {x} = U \ {x}
  PROVE  Sum(g, U) = Sum(f, T) - (IF x \in T THEN f[x] ELSE 0) + (IF x \in U THEN g[x] ELSE 0)
<1>1. Sum(f, T) = (IF x \in T THEN f[x] ELSE 0) + Sum(f, T \ {x})
  <2>1. CASE x \in T
    BY <2>1, SumSplit
  <2>2. CASE x \notin T
    <3>1. T \ {x} = T
      BY <2>2
    <3>2. Sum(f, T) \in Int
      BY SumInt
    <3>3. Sum(f, T \ {x}) = Sum(f, T)
      BY <3>1
    <3>4. (IF x \in T THEN f[x] ELSE 0) = 0
      BY <2>2
    <3> HIDE <2>2
    <3> QED BY <3>2, <3>3, <3>4
  <2> QED BY <2>1, <2>2
<1>2. Sum(g, U) = (IF x \in U THEN g[x] ELSE 0) + Sum(g, U \ {x})
  <2>1. CASE x \in U
    BY <2>1, SumSplit
  <2>2. CASE x \notin U
    <3>1. U \ {x} = U
      BY <2>2
    <3>2. Sum(g, U) \in Int
      BY SumInt
    <3>3. Sum(g, U \ {x}) = Sum(g, U)
      BY <3>1
    <3>4. (IF x \in U THEN g[x] ELSE 0) = 0
      BY <2>2
    <3> HIDE <2>2
    <3> QED BY <3>2, <3>3, <3>4
  <2> QED BY <2>1, <2>2
<1>3. Sum(f, T \ {x}) = Sum(g, U \ {x})
  <2>1. IsFiniteSet(T \ {x}) /\ T \ {x} \in SUBSET S
    BY FS_Subset
  <2>2. \A y \in T \ {x} : f[y] = g[y]
    OBVIOUS
  <2>3. Sum(f, T \ {x}) = Sum(g, T \ {x})
    BY <2>1, <2>2, SumSame
  <2> QED BY <2>3
<1>4. Sum(f, T \ {x}) \in Int /\ f[x] \in Int /\ g[x] \in Int
  <2>1. T \ {x} \in SUBSET S
    OBVIOUS
  <2> QED BY <2>1, SumInt
<1> QED BY <1>1, <1>2, <1>3, <1>4

(* A sum in which every row is zero is zero.                               *)
LEMMA SumZero ==
  ASSUME NEW S, IsFiniteSet(S), NEW f, \A x \in S : f[x] = 0
  PROVE  \A T \in SUBSET S : Sum(f, T) = 0
<1> DEFINE C == {T \in SUBSET S : Sum(f, T) # 0}
<1> SUFFICES ASSUME C # {} PROVE FALSE
  OBVIOUS
<1>0. C \subseteq SUBSET S
  OBVIOUS
<1> HIDE DEF C
<1>1. PICK T \in C : \A U \in C : U \subseteq T => U = T
  BY <1>0, SmallestSet
<1> USE DEF C
<1>2. Sum(f, T) = IF T = {} THEN 0 ELSE f[First(T)] + Sum(f, T \ {First(T)})
  BY FS_Subset, SumStep
<1>3. T # {}
  BY <1>2
<1>4. First(T) \in T /\ T \ {First(T)} \notin C
  BY <1>1, <1>3, FirstIn
<1>5. Sum(f, T \ {First(T)}) = 0 /\ f[First(T)] = 0
  BY <1>4
<1> QED BY <1>2, <1>3, <1>5
=============================================================================
