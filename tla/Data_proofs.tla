---------------------------- MODULE Data_proofs -----------------------------
(***************************************************************************)
(* Lemmas about the data the pages are computed from: sums over finite     *)
(* sets, and rows in order.                                                *)
(*                                                                         *)
(* MapThenFoldSet takes the elements of a set away one at a time, and what *)
(* it adds up to is proved by induction over the subsets of that set.  The *)
(* theorems of the library take an operator for the induction hypothesis;  *)
(* SetInduction takes the set of the subsets it holds of.                  *)
(***************************************************************************)
EXTENDS Orders, Sequences, Functions, FiniteSetTheorems, TLAPS

(* Induction over the subsets of a finite set, for a set P of them. *)
LEMMA SetInduction ==
    ASSUME NEW S, IsFiniteSet(S), NEW P,
           \A T \in SUBSET S : (\A x \in T : T \ {x} \in P) => T \in P
    PROVE  S \in P
<1> DEFINE Bad == {T \in SUBSET S : T \notin P}
<1> SUFFICES ASSUME S \notin P PROVE FALSE
  OBVIOUS
<1>1. S \in Bad
  OBVIOUS
<1>2. Bad \subseteq FiniteSubsetsOf(S)
  BY FS_Subset DEF FiniteSubsetsOf
<1>3. IsWellFoundedOn(StrictSubsetOrdering(S), FiniteSubsetsOf(S))
  BY FS_StrictSubsetOrderingWellFounded
<1> HIDE DEF Bad
<1>4. PICK T \in Bad : \A U \in Bad : ~(<<U, T>> \in StrictSubsetOrdering(S))
  BY <1>1, <1>2, <1>3, WFMin
<1>5. T \in SUBSET S /\ T \notin P
  BY <1>4 DEF Bad
<1>6. ASSUME NEW x \in T PROVE T \ {x} \in P
  <2>1. T \ {x} \in SUBSET S /\ T \ {x} \subseteq T /\ T \ {x} # T
    BY <1>5
  <2>2. <<T \ {x}, T>> \in StrictSubsetOrdering(S)
    BY <1>5, <2>1 DEF StrictSubsetOrdering
  <2>3. T \ {x} \notin Bad
    BY <1>4, <2>2
  <2>4. QED
    BY <2>1, <2>3 DEF Bad
<1>7. QED
  BY <1>5, <1>6

First(s) == CHOOSE x \in s : TRUE

(* h sums f over every subset of R, the way MapThenSumSet does. *)
Sums(f, R, h) ==
    h = [s \in SUBSET R |-> IF s = {} THEN 0 ELSE f[First(s)] + h[s \ {First(s)}]]

(* Such a function exists: by the size of the subsets it is defined on. *)
LEMMA SumExists ==
    ASSUME NEW R, IsFiniteSet(R), NEW f
    PROVE  \E h : Sums(f, R, h)
<1> DEFINE Upto(n) == {s \in SUBSET R : Cardinality(s) <= n}
           OK(n, h) == h = [s \in Upto(n) |-> IF s = {} THEN 0 ELSE f[First(s)] + h[s \ {First(s)}]]
           P == {T \in SUBSET R : \E h : OK(Cardinality(T), h)}
<1>1. \A s \in SUBSET R : IsFiniteSet(s) /\ Cardinality(s) \in Nat /\ (s = {} <=> Cardinality(s) = 0)
  BY FS_Subset, FS_CardinalityType, FS_EmptySet
<1>2. \A s \in SUBSET R : s # {} => /\ First(s) \in s
                                   /\ s \ {First(s)} \in SUBSET R
                                   /\ Cardinality(s \ {First(s)}) = Cardinality(s) - 1
  BY <1>1, FS_RemoveElement DEF First
<1>3. ASSUME NEW T \in SUBSET R, \A x \in T : T \ {x} \in P PROVE T \in P
  <2>1. CASE T = {}
    <3>1. Upto(Cardinality(T)) = {{}}
      BY <1>1, <2>1
    <3>2. PICK h : h = [s \in {{}} |-> 0]
      OBVIOUS
    <3>3. OK(Cardinality(T), h)
      BY <3>1, <3>2
    <3>4. QED
      BY <3>3
  <2>2. CASE T # {}
    <3>1. PICK n : n = Cardinality(T)
      OBVIOUS
    <3>2. n \in Nat \ {0} /\ Cardinality(T \ {First(T)}) = n - 1
      BY <1>1, <1>2, <2>2, <3>1
    <3>3. PICK h : OK(n - 1, h)
      <4>1. PICK U : U = T \ {First(T)}
        OBVIOUS
      <4> HIDE DEF OK, P
      <4>2. U \in P
        BY <1>2, <1>3, <2>2, <4>1
      <4>3. \E h : OK(Cardinality(U), h)
        BY <4>2 DEF P
      <4>4. QED
        BY <3>2, <4>1, <4>3
    <3>4. \A s \in Upto(n) : s # {} => s \ {First(s)} \in Upto(n - 1)
      BY <1>1, <1>2, <3>2
    <3>5. Upto(n - 1) \subseteq Upto(n)
      BY <1>1, <3>2
    <3>6. PICK k : k = [s \in Upto(n) |-> IF s = {} THEN 0 ELSE f[First(s)] + h[s \ {First(s)}]]
      OBVIOUS
    <3> HIDE DEF Upto
    <3>7. \A s \in Upto(n - 1) : k[s] = h[s]
      BY <3>3, <3>5, <3>6
    <3>8. OK(n, k)
      BY <3>4, <3>6, <3>7
    <3>9. QED
      BY <3>1, <3>8
  <2>3. QED
    BY <2>1, <2>2
<1> HIDE DEF P
<1>4. R \in P
  BY <1>3, SetInduction
<1>5. PICK h : OK(Cardinality(R), h)
  BY <1>4 DEF P
<1>6. Upto(Cardinality(R)) = SUBSET R
  BY FS_Subset
<1>7. QED
  BY <1>5, <1>6 DEF Sums

-----------------------------------------------------------------------------
(* Sums.                                                                   *)

LEMMA SumIs ==
    ASSUME NEW f, NEW S, IsFiniteSet(S)
    PROVE  \E h : Sums(f, S, h) /\ SumFunctionOnSet(f, S) = h[S]
<1> DEFINE Q(h) == h = [s \in SUBSET S |-> IF s = {} THEN 0
                                  ELSE f[First(s)] + h[s \ {First(s)}]]
<1>1. SumFunctionOnSet(f, S) = (CHOOSE h : Q(h))[S]
  BY DEF SumFunctionOnSet, FoldFunctionOnSet, MapThenFoldSet, First
<1>2. PICK k : Sums(f, S, k)
  BY SumExists
<1>3. Q(k)
  BY <1>2 DEF Sums
<1> HIDE DEF Q
<1>4. Q(CHOOSE h : Q(h))
  BY <1>3
<1>5. QED
  BY <1>1, <1>4 DEF Q, Sums

LEMMA SumsAgree ==
    ASSUME NEW f, NEW S, IsFiniteSet(S), NEW T \in SUBSET S,
           NEW h, Sums(f, S, h), NEW k, Sums(f, T, k)
    PROVE  h[T] = k[T]
<1> DEFINE P == {U \in SUBSET T : h[U] = k[U]}
<1>1. ASSUME NEW U \in SUBSET T, \A x \in U : U \ {x} \in P PROVE U \in P
  <2>1. CASE U = {}
    BY <2>1 DEF Sums
  <2>2. CASE U # {}
    <3>1. First(U) \in U
      BY <2>2 DEF First
    <3>2. PICK V : V = U \ {First(U)}
      OBVIOUS
    <3>3. V \in P
      BY <1>1, <3>1, <3>2
    <3>4. h[U] = f[First(U)] + h[V] /\ k[U] = f[First(U)] + k[V]
      BY <2>2, <3>2 DEF Sums
    <3>5. QED
      BY <3>3, <3>4
  <2>3. QED
    BY <2>1, <2>2
<1>2. IsFiniteSet(T)
  BY FS_Subset
<1> HIDE DEF P
<1>3. T \in P
  BY <1>1, <1>2, SetInduction
<1>4. QED
  BY <1>3 DEF P

LEMMA SumEmpty == ASSUME NEW f PROVE SumFunctionOnSet(f, {}) = 0
<1>1. PICK h : Sums(f, {}, h) /\ SumFunctionOnSet(f, {}) = h[{}]
  BY FS_EmptySet, SumIs
<1>2. QED
  BY <1>1 DEF Sums

LEMMA SumFirst ==
    ASSUME NEW f, NEW S, IsFiniteSet(S), S # {}
    PROVE  SumFunctionOnSet(f, S) = f[First(S)] + SumFunctionOnSet(f, S \ {First(S)})
<1>1. PICK T : T = S \ {First(S)}
  OBVIOUS
<1>2. IsFiniteSet(T) /\ T \in SUBSET S
  BY <1>1, FS_Subset
<1>3. PICK h : Sums(f, S, h) /\ SumFunctionOnSet(f, S) = h[S]
  BY SumIs
<1>4. PICK k : Sums(f, T, k) /\ SumFunctionOnSet(f, T) = k[T]
  BY <1>2, SumIs
<1>5. h[T] = k[T]
  BY <1>2, <1>3, <1>4, SumsAgree
<1>6. h[S] = f[First(S)] + h[T]
  BY <1>1, <1>3 DEF Sums
<1>7. QED
  BY <1>1, <1>3, <1>4, <1>5, <1>6

(* The values summed are counts of seconds or of rows. *)
Counts(f, S) == \A x \in S : f[x] \in Nat

LEMMA SumNat ==
    ASSUME NEW f, NEW S, IsFiniteSet(S), Counts(f, S)
    PROVE  SumFunctionOnSet(f, S) \in Nat
<1> DEFINE P == {T \in SUBSET S : SumFunctionOnSet(f, T) \in Nat}
<1>1. ASSUME NEW T \in SUBSET S, \A x \in T : T \ {x} \in P PROVE T \in P
  <2>1. CASE T = {}
    BY <2>1, SumEmpty
  <2>2. CASE T # {}
    <3>1. First(T) \in T /\ IsFiniteSet(T)
      BY <2>2, FS_Subset DEF First
    <3>2. T \ {First(T)} \in P
      BY <1>1, <3>1
    <3>3. f[First(T)] \in Nat
      BY <3>1 DEF Counts
    <3>4. SumFunctionOnSet(f, T) = f[First(T)] + SumFunctionOnSet(f, T \ {First(T)})
      BY <2>2, <3>1, SumFirst
    <3>5. QED
      BY <3>2, <3>3, <3>4
  <2>3. QED
    BY <2>1, <2>2
<1> HIDE DEF P
<1>2. S \in P
  BY <1>1, SetInduction
<1>3. QED
  BY <1>2 DEF P

(* Any element may be taken away. *)
LEMMA SumStep ==
    ASSUME NEW f, NEW S, IsFiniteSet(S), Counts(f, S), NEW z \in S
    PROVE  SumFunctionOnSet(f, S) = f[z] + SumFunctionOnSet(f, S \ {z})
<1> DEFINE P == {T \in SUBSET S :
                    \A x \in T : SumFunctionOnSet(f, T) = f[x] + SumFunctionOnSet(f, T \ {x})}
<1>1. ASSUME NEW T \in SUBSET S, \A x \in T : T \ {x} \in P PROVE T \in P
  <2> SUFFICES ASSUME NEW x \in T
               PROVE  SumFunctionOnSet(f, T) = f[x] + SumFunctionOnSet(f, T \ {x})
    OBVIOUS
  <2>1. PICK y \in T : y = First(T)
    BY DEF First
  <2>2. SumFunctionOnSet(f, T) = f[y] + SumFunctionOnSet(f, T \ {y})
    BY <2>1, FS_Subset, SumFirst
  <2>3. CASE x = y
    BY <2>2, <2>3
  <2>4. CASE x # y
    <3>1. PICK U : U = T \ {x, y}
      OBVIOUS
    <3>2. (T \ {y}) \ {x} = U /\ (T \ {x}) \ {y} = U /\ x \in T \ {y} /\ y \in T \ {x}
      BY <2>4, <3>1
    <3>3. SumFunctionOnSet(f, T \ {y}) = f[x] + SumFunctionOnSet(f, U)
      BY <1>1, <3>2
    <3>4. SumFunctionOnSet(f, T \ {x}) = f[y] + SumFunctionOnSet(f, U)
      BY <1>1, <3>2
    <3>5. IsFiniteSet(U) /\ Counts(f, U)
      BY <3>1, FS_Subset DEF Counts
    <3>6. SumFunctionOnSet(f, U) \in Nat /\ f[x] \in Nat /\ f[y] \in Nat
      BY <3>5, SumNat DEF Counts
    <3>7. QED
      BY <2>2, <3>3, <3>4, <3>6
  <2>5. QED
    BY <2>3, <2>4
<1> HIDE DEF P
<1>2. S \in P
  BY <1>1, SetInduction
<1>3. QED
  BY <1>2 DEF P

LEMMA SumSingle ==
    ASSUME NEW f, NEW x, f[x] \in Nat
    PROVE  SumFunctionOnSet(f, {x}) = f[x]
<1>1. IsFiniteSet({x}) /\ {x} \ {x} = {} /\ Counts(f, {x})
  BY FS_Singleton DEF Counts
<1>2. SumFunctionOnSet(f, {x}) = f[x] + SumFunctionOnSet(f, {x} \ {x})
  BY <1>1, SumStep
<1>3. QED
  BY <1>1, <1>2, SumEmpty

LEMMA SumSame ==
    ASSUME NEW f, NEW g, NEW S, IsFiniteSet(S), \A x \in S : f[x] = g[x]
    PROVE  SumFunctionOnSet(f, S) = SumFunctionOnSet(g, S)
<1> DEFINE P == {T \in SUBSET S : SumFunctionOnSet(f, T) = SumFunctionOnSet(g, T)}
<1>1. ASSUME NEW T \in SUBSET S, \A x \in T : T \ {x} \in P PROVE T \in P
  <2>1. CASE T = {}
    BY <2>1, SumEmpty
  <2>2. CASE T # {}
    <3>1. First(T) \in T /\ IsFiniteSet(T)
      BY <2>2, FS_Subset DEF First
    <3>2. T \ {First(T)} \in P
      BY <1>1, <3>1
    <3>3. /\ SumFunctionOnSet(f, T) = f[First(T)] + SumFunctionOnSet(f, T \ {First(T)})
          /\ SumFunctionOnSet(g, T) = g[First(T)] + SumFunctionOnSet(g, T \ {First(T)})
      BY <2>2, <3>1, SumFirst
    <3>4. QED
      BY <3>1, <3>2, <3>3
  <2>3. QED
    BY <2>1, <2>2
<1> HIDE DEF P
<1>2. S \in P
  BY <1>1, SetInduction
<1>3. QED
  BY <1>2 DEF P

LEMMA SumUnion ==
    ASSUME NEW f, NEW A, IsFiniteSet(A), Counts(f, A),
           NEW B, IsFiniteSet(B), Counts(f, B), A \cap B = {}
    PROVE  SumFunctionOnSet(f, A \cup B) = SumFunctionOnSet(f, A) + SumFunctionOnSet(f, B)
<1> DEFINE P == {T \in SUBSET B : SumFunctionOnSet(f, A \cup T)
                                     = SumFunctionOnSet(f, A) + SumFunctionOnSet(f, T)}
<1>1. ASSUME NEW T \in SUBSET B, \A x \in T : T \ {x} \in P PROVE T \in P
  <2>0. SumFunctionOnSet(f, A) \in Nat
    BY SumNat
  <2>1. CASE T = {}
    <3>1. A \cup T = A /\ SumFunctionOnSet(f, T) = 0
      BY <2>1, SumEmpty
    <3>2. SumFunctionOnSet(f, A \cup T) = SumFunctionOnSet(f, A) + SumFunctionOnSet(f, T)
      BY <2>0, <3>1
    <3>3. QED
      BY <3>2
  <2>2. CASE T # {}
    <3>1. PICK x \in T : TRUE
      BY <2>2
    <3>2. PICK U : U = T \ {x}
      OBVIOUS
    <3>3. IsFiniteSet(T) /\ Counts(f, T) /\ IsFiniteSet(U) /\ Counts(f, U) /\ f[x] \in Nat
      BY <3>2, FS_Subset DEF Counts
    <3>4. PICK V : V = A \cup T
      OBVIOUS
    <3>5. V \ {x} = A \cup U /\ x \in V /\ Counts(f, V)
      BY <3>2, <3>4 DEF Counts
    <3>6. IsFiniteSet(V)
      BY <3>3, <3>4, FS_Union
    <3>7. SumFunctionOnSet(f, V) = f[x] + SumFunctionOnSet(f, A \cup U)
      BY <3>5, <3>6, SumStep
    <3>8. SumFunctionOnSet(f, T) = f[x] + SumFunctionOnSet(f, U)
      BY <3>2, <3>3, SumStep
    <3>9. U \in P
      BY <1>1, <3>2
    <3>10. SumFunctionOnSet(f, A \cup U) = SumFunctionOnSet(f, A) + SumFunctionOnSet(f, U)
      BY <3>9
    <3>11. SumFunctionOnSet(f, U) \in Nat
      BY <3>3, SumNat
    <3>12. SumFunctionOnSet(f, V) = SumFunctionOnSet(f, A) + SumFunctionOnSet(f, T)
      BY <2>0, <3>3, <3>7, <3>8, <3>10, <3>11
    <3>13. QED
      BY <3>4, <3>12
  <2>3. QED
    BY <2>1, <2>2
<1> HIDE DEF P
<1>2. B \in P
  BY <1>1, SetInduction
<1>3. QED
  BY <1>2 DEF P

LEMMA SumZero ==
    ASSUME NEW f, NEW S, IsFiniteSet(S), \A x \in S : f[x] = 0
    PROVE  SumFunctionOnSet(f, S) = 0
<1> DEFINE P == {T \in SUBSET S : SumFunctionOnSet(f, T) = 0}
<1>1. ASSUME NEW T \in SUBSET S, \A x \in T : T \ {x} \in P PROVE T \in P
  <2>1. CASE T = {}
    BY <2>1, SumEmpty
  <2>2. CASE T # {}
    <3>1. First(T) \in T /\ IsFiniteSet(T)
      BY <2>2, FS_Subset DEF First
    <3>2. T \ {First(T)} \in P
      BY <1>1, <3>1
    <3>3. SumFunctionOnSet(f, T) = f[First(T)] + SumFunctionOnSet(f, T \ {First(T)})
      BY <2>2, <3>1, SumFirst
    <3>4. QED
      BY <3>1, <3>2, <3>3
  <2>3. QED
    BY <2>1, <2>2
<1> HIDE DEF P
<1>2. S \in P
  BY <1>1, SetInduction
<1>3. QED
  BY <1>2 DEF P

(* What is nothing may be left out. *)
LEMMA SumWithout ==
    ASSUME NEW f, NEW S, IsFiniteSet(S), Counts(f, S),
           NEW T \in SUBSET S, \A x \in S \ T : f[x] = 0
    PROVE  SumFunctionOnSet(f, S) = SumFunctionOnSet(f, T)
<1>1. PICK U : U = S \ T
  OBVIOUS
<1>2. IsFiniteSet(T) /\ IsFiniteSet(U) /\ Counts(f, T) /\ Counts(f, U) /\ T \cap U = {} /\ T \cup U = S
  BY <1>1, FS_Subset DEF Counts
<1>3. SumFunctionOnSet(f, U) = 0
  BY <1>1, <1>2, SumZero
<1>4. SumFunctionOnSet(f, T \cup U) = SumFunctionOnSet(f, T) + SumFunctionOnSet(f, U)
  BY <1>2, SumUnion
<1>5. SumFunctionOnSet(f, T) \in Nat
  BY <1>2, SumNat
<1>6. QED
  BY <1>2, <1>3, <1>4, <1>5

LEMMA SumPositive ==
    ASSUME NEW f, NEW S, IsFiniteSet(S), Counts(f, S)
    PROVE  SumFunctionOnSet(f, S) > 0 <=> \E x \in S : f[x] > 0
<1>1. ASSUME NEW x \in S, f[x] > 0 PROVE SumFunctionOnSet(f, S) > 0
  <2>1. SumFunctionOnSet(f, S) = f[x] + SumFunctionOnSet(f, S \ {x})
    BY SumStep
  <2>2. IsFiniteSet(S \ {x}) /\ Counts(f, S \ {x})
    BY FS_Subset DEF Counts
  <2>3. f[x] \in Nat /\ SumFunctionOnSet(f, S \ {x}) \in Nat
    BY <2>2, SumNat DEF Counts
  <2>4. QED
    BY <1>1, <2>1, <2>3
<1>2. ASSUME ~ \E x \in S : f[x] > 0 PROVE SumFunctionOnSet(f, S) = 0
  <2>1. \A x \in S : f[x] = 0
    BY <1>2 DEF Counts
  <2>2. QED
    BY <2>1, SumZero
<1>3. QED
  BY <1>1, <1>2

LEMMA SumOnes ==
    ASSUME NEW f, NEW S, IsFiniteSet(S), \A x \in S : f[x] = 1
    PROVE  SumFunctionOnSet(f, S) = Cardinality(S)
<1> DEFINE P == {T \in SUBSET S : SumFunctionOnSet(f, T) = Cardinality(T)}
<1>1. ASSUME NEW T \in SUBSET S, \A x \in T : T \ {x} \in P PROVE T \in P
  <2>1. CASE T = {}
    BY <2>1, SumEmpty, FS_EmptySet
  <2>2. CASE T # {}
    <3>1. PICK x \in T : x = First(T)
      BY <2>2 DEF First
    <3>2. IsFiniteSet(T) /\ Cardinality(T) \in Nat
      BY FS_Subset, FS_CardinalityType
    <3>3. SumFunctionOnSet(f, T \ {x}) = Cardinality(T \ {x})
      BY <1>1
    <3>4. Cardinality(T \ {x}) = Cardinality(T) - 1
      BY <3>2, FS_RemoveElement
    <3>5. SumFunctionOnSet(f, T) = f[x] + SumFunctionOnSet(f, T \ {x})
      BY <2>2, <3>1, <3>2, SumFirst
    <3>6. f[x] = 1
      OBVIOUS
    <3>7. SumFunctionOnSet(f, T) = Cardinality(T)
      BY <3>2, <3>3, <3>4, <3>5, <3>6
    <3>8. QED
      BY <3>7
  <2>3. QED
    BY <2>1, <2>2
<1> HIDE DEF P
<1>2. S \in P
  BY <1>1, SetInduction
<1>3. QED
  BY <1>2 DEF P

-----------------------------------------------------------------------------
(* GROUP BY: the sum of the groups' sums is the sum of all.                *)

Group(S, c, d) == {x \in S : c[x] = d}

LEMMA SumGroups ==
    ASSUME NEW f, NEW S, IsFiniteSet(S), Counts(f, S), NEW c,
           NEW D, IsFiniteSet(D), \A x \in S : c[x] \in D,
           NEW g, \A d \in D : g[d] = SumFunctionOnSet(f, Group(S, c, d))
    PROVE  SumFunctionOnSet(g, D) = SumFunctionOnSet(f, S)
<1> DEFINE All(T) == {x \in S : c[x] \in T}
           P == {T \in SUBSET D : SumFunctionOnSet(g, T) = SumFunctionOnSet(f, All(T))}
<1>0. ASSUME NEW U \in SUBSET S PROVE IsFiniteSet(U) /\ Counts(f, U) /\ SumFunctionOnSet(f, U) \in Nat
  <2>1. IsFiniteSet(U) /\ Counts(f, U)
    BY FS_Subset DEF Counts
  <2>2. QED
    BY <2>1, SumNat
<1>1. ASSUME NEW d PROVE Group(S, c, d) \in SUBSET S
  BY DEF Group
<1>2. Counts(g, D)
  BY <1>0, <1>1 DEF Counts
<1>3. ASSUME NEW T \in SUBSET D, \A x \in T : T \ {x} \in P PROVE T \in P
  <2>1. CASE T = {}
    <3>1. All(T) = {}
      BY <2>1
    <3>2. QED
      BY <2>1, <3>1, SumEmpty
  <2>2. CASE T # {}
    <3>1. PICK d \in T : TRUE
      BY <2>2
    <3>2. PICK U : U = T \ {d}
      OBVIOUS
    <3>3. IsFiniteSet(T) /\ Counts(g, T)
      BY <1>2, FS_Subset DEF Counts
    <3>4. SumFunctionOnSet(g, T) = g[d] + SumFunctionOnSet(g, U)
      BY <3>2, <3>3, SumStep
    <3>5. SumFunctionOnSet(g, U) = SumFunctionOnSet(f, All(U))
      BY <1>3, <3>2
    <3>6. PICK A, B : A = Group(S, c, d) /\ B = All(U)
      OBVIOUS
    <3>7. A \cup B = All(T) /\ A \cap B = {} /\ A \in SUBSET S /\ B \in SUBSET S
      BY <3>2, <3>6 DEF Group
    <3>8. SumFunctionOnSet(f, A \cup B) = SumFunctionOnSet(f, A) + SumFunctionOnSet(f, B)
      BY <1>0, <3>7, SumUnion
    <3>9. g[d] = SumFunctionOnSet(f, A)
      BY <3>6
    <3>10. SumFunctionOnSet(g, T) = SumFunctionOnSet(f, All(T))
      BY <3>4, <3>5, <3>6, <3>7, <3>8, <3>9
    <3>11. QED
      BY <3>10
  <2>3. QED
    BY <2>1, <2>2
<1> HIDE DEF P
<1>4. D \in P
  BY <1>3, SetInduction
<1>5. All(D) = S
  OBVIOUS
<1>6. QED
  BY <1>4, <1>5 DEF P

(* The same of counts. *)
LEMMA CountGroups ==
    ASSUME NEW S, IsFiniteSet(S), NEW c,
           NEW D, IsFiniteSet(D), \A x \in S : c[x] \in D,
           NEW g, \A d \in D : g[d] = Cardinality(Group(S, c, d))
    PROVE  SumFunctionOnSet(g, D) = Cardinality(S)
<1>1. PICK f : f = [x \in S |-> 1]
  OBVIOUS
<1>2. Counts(f, S)
  BY <1>1 DEF Counts
<1>3. ASSUME NEW T \in SUBSET S PROVE SumFunctionOnSet(f, T) = Cardinality(T)
  <2>1. IsFiniteSet(T) /\ \A x \in T : f[x] = 1
    BY <1>1, FS_Subset
  <2>2. QED
    BY <2>1, SumOnes
<1>4. \A d \in D : Group(S, c, d) \in SUBSET S
  BY DEF Group
<1>5. \A d \in D : g[d] = SumFunctionOnSet(f, Group(S, c, d))
  BY <1>3, <1>4
<1>6. SumFunctionOnSet(g, D) = SumFunctionOnSet(f, S)
  BY <1>2, <1>5, SumGroups
<1>7. QED
  BY <1>3, <1>6

(* A sum over one set is that over another with the same values. *)
LEMMA SumRenamed ==
    ASSUME NEW S, IsFiniteSet(S), NEW T, NEW c \in Bijection(S, T),
           NEW f, Counts(f, S), NEW g, \A x \in S : g[c[x]] = f[x]
    PROVE  /\ SumFunctionOnSet(g, T) = SumFunctionOnSet(f, S)
           /\ IsFiniteSet(T) /\ Cardinality(T) = Cardinality(S)
<1>1. IsFiniteSet(T) /\ Cardinality(T) = Cardinality(S)
  BY FS_Bijection DEF ExistsBijection
<1>2. ASSUME NEW d \in T PROVE g[d] = SumFunctionOnSet(f, Group(S, c, d))
  <2>1. PICK x \in S : c[x] = d
    BY DEF Bijection, Surjection
  <2>2. Group(S, c, d) = {x}
    BY <2>1 DEF Bijection, Injection, IsInjective, Group
  <2>3. f[x] \in Nat
    BY DEF Counts
  <2>4. SumFunctionOnSet(f, {x}) = f[x]
    BY <2>3, SumSingle
  <2>5. QED
    BY <2>1, <2>2, <2>4
<1>3. \A x \in S : c[x] \in T
  BY DEF Bijection, Surjection
<1>4. QED
  BY <1>1, <1>2, <1>3, SumGroups

-----------------------------------------------------------------------------
(* ORDER BY.                                                               *)

(* Induction over the numbers, for a set of them. *)
LEMMA NumbersInduction ==
    ASSUME NEW P, 0 \in P, \A k \in Nat : k \in P => k + 1 \in P
    PROVE  \A k \in Nat : k \in P
<1> DEFINE Bad == {k \in Nat : k \notin P}
<1> SUFFICES ASSUME NEW k \in Nat, k \notin P PROVE FALSE
  OBVIOUS
<1>1. k \in Bad /\ Bad \subseteq Nat
  OBVIOUS
<1>2. IsWellFoundedOn(OpToRel(<, Nat), Nat)
  BY NatLessThanWellFounded
<1> HIDE DEF Bad
<1>3. PICK m \in Bad : \A n \in Bad : ~(<<n, m>> \in OpToRel(<, Nat))
  BY <1>1, <1>2, WFMin
<1>4. m \in Nat /\ m \notin P
  BY <1>3 DEF Bad
<1>5. m # 0
  BY <1>4
<1>6. m - 1 \in Nat /\ m = (m - 1) + 1
  BY <1>4, <1>5
<1>7. m - 1 \notin Bad
  <2>1. m - 1 < m
    BY <1>6
  <2>2. <<m - 1, m>> \in OpToRel(<, Nat)
    BY <1>4, <1>6, <2>1 DEF OpToRel
  <2>3. QED
    BY <1>3, <2>2
<1>8. m - 1 \in P
  BY <1>6, <1>7 DEF Bad
<1>9. QED
  BY <1>4, <1>6, <1>8

(* An order is given by its pairs; L orders S. *)
Linear(S, L) ==
    /\ \A x \in S : <<x, x>> \notin L
    /\ \A x, y \in S : x # y => <<x, y>> \in L \/ <<y, x>> \in L
    /\ \A x, y, z \in S : <<x, y>> \in L /\ <<y, z>> \in L => <<x, z>> \in L

Below(S, L, x) == {y \in S : <<y, x>> \in L}

Rank(S, L, x) == Cardinality(Below(S, L, x))

(* s has each element of S once, in that order. *)
Lists(s, S, L) ==
    /\ s \in Seq(S)
    /\ \A x \in S : \E i \in 1..Len(s) : s[i] = x
    /\ \A i, j \in 1..Len(s) : i < j => <<s[i], s[j]>> \in L

LEMMA RankIsNumber ==
    ASSUME NEW S, IsFiniteSet(S), NEW L, Linear(S, L), NEW x \in S
    PROVE  Rank(S, L, x) \in 0..(Cardinality(S) - 1) /\ Cardinality(S) \in Nat
<1>1. PICK B : B = Below(S, L, x)
  OBVIOUS
<1>2. B \in SUBSET S /\ B # S
  BY <1>1 DEF Below, Linear
<1>3. IsFiniteSet(B) /\ Cardinality(B) <= Cardinality(S) /\ Cardinality(B) # Cardinality(S)
  BY <1>2, FS_Subset
<1>4. Cardinality(B) \in Nat /\ Cardinality(S) \in Nat
  BY <1>3, FS_CardinalityType
<1>5. QED
  BY <1>1, <1>3, <1>4 DEF Rank

LEMMA RankGrows ==
    ASSUME NEW S, IsFiniteSet(S), NEW L, Linear(S, L), NEW x \in S, NEW y \in S
    PROVE  /\ <<x, y>> \in L <=> Rank(S, L, x) < Rank(S, L, y)
           /\ Rank(S, L, x) = Rank(S, L, y) => x = y
<1>1. ASSUME NEW a \in S, NEW b \in S, <<a, b>> \in L
      PROVE  Rank(S, L, a) < Rank(S, L, b)
  <2>1. PICK A, B : A = Below(S, L, a) /\ B = Below(S, L, b)
    OBVIOUS
  <2>2. A \in SUBSET B /\ a \in B /\ a \notin A
    BY <1>1, <2>1 DEF Below, Linear
  <2>3. B \in SUBSET S
    BY <2>1 DEF Below
  <2>4. IsFiniteSet(B) /\ IsFiniteSet(A)
    BY <2>2, <2>3, FS_Subset
  <2>5. Cardinality(A) <= Cardinality(B) /\ Cardinality(A) # Cardinality(B)
    BY <2>2, <2>4, FS_Subset
  <2>6. Cardinality(A) \in Nat /\ Cardinality(B) \in Nat
    BY <2>4, FS_CardinalityType
  <2>7. QED
    BY <2>1, <2>5, <2>6 DEF Rank
<1>2. Rank(S, L, x) \in Int /\ Rank(S, L, y) \in Int
  BY RankIsNumber
<1>3. x # y => <<x, y>> \in L \/ <<y, x>> \in L
  BY DEF Linear
<1>4. <<x, x>> \notin L
  BY DEF Linear
<1>5. QED
  BY <1>1, <1>2, <1>3, <1>4

LEMMA RanksAreTaken ==
    ASSUME NEW S, IsFiniteSet(S), NEW L, Linear(S, L), NEW k \in 0..(Cardinality(S) - 1)
    PROVE  \E x \in S : Rank(S, L, x) = k
<1>1. PICK n : n = Cardinality(S) /\ n \in Nat
  BY FS_CardinalityType
<1>2. PICK f : f = [x \in S |-> Rank(S, L, x)]
  OBVIOUS
<1>3. f \in Injection(S, 0..(n - 1))
  <2>1. f \in [S -> 0..(n - 1)]
    BY <1>1, <1>2, RankIsNumber
  <2>2. \A x, y \in S : f[x] = f[y] => x = y
    BY <1>2, RankGrows
  <2>3. QED
    BY <2>1, <2>2 DEF Injection, IsInjective
<1>4. IsFiniteSet(0..(n - 1)) /\ Cardinality(0..(n - 1)) = n
  <2>1. PICK a \in Int, b \in Int : a = 0 /\ b = n - 1
    BY <1>1
  <2>2. IsFiniteSet(a..b) /\ Cardinality(a..b) = IF a > b THEN 0 ELSE b - a + 1
    BY FS_Interval
  <2>3. QED
    BY <1>1, <2>1, <2>2
<1>5. f \in Surjection(S, 0..(n - 1))
  BY <1>1, <1>3, <1>4, FS_Injection
<1>6. QED
  BY <1>1, <1>2, <1>5 DEF Surjection

(* The rows of Ordered. *)
LEMMA ListedByRank ==
    ASSUME NEW S, IsFiniteSet(S), NEW L, Linear(S, L),
           NEW s \in [1..Cardinality(S) -> S],
           \A i \in 1..Cardinality(S) : Rank(S, L, s[i]) = i - 1
    PROVE  Lists(s, S, L) /\ Len(s) = Cardinality(S)
<1>1. PICK n : n = Cardinality(S) /\ n \in Nat
  BY FS_CardinalityType
<1>2. s \in Seq(S) /\ Len(s) = n
  BY <1>1
<1>3. ASSUME NEW x \in S PROVE \E i \in 1..n : s[i] = x
  <2>1. PICK k : k = Rank(S, L, x) /\ k \in 0..(n - 1)
    BY <1>1, RankIsNumber
  <2>2. k + 1 \in 1..n /\ (k + 1) - 1 = k
    BY <1>1, <2>1
  <2>3. Rank(S, L, s[k + 1]) = k /\ s[k + 1] \in S
    BY <1>1, <2>2
  <2>4. s[k + 1] = x
    BY <2>1, <2>3, RankGrows
  <2>5. QED
    BY <2>2, <2>4
<1>4. ASSUME NEW i \in 1..n, NEW j \in 1..n, i < j PROVE <<s[i], s[j]>> \in L
  <2>1. s[i] \in S /\ s[j] \in S
    BY <1>1
  <2>2. Rank(S, L, s[i]) < Rank(S, L, s[j])
    BY <1>1, <1>4
  <2>3. QED
    BY <2>1, <2>2, RankGrows
<1>5. QED
  BY <1>1, <1>2, <1>3, <1>4 DEF Lists

LEMMA ListHasRanks ==
    ASSUME NEW S, NEW L, Linear(S, L), NEW s, Lists(s, S, L)
    PROVE  /\ IsFiniteSet(S) /\ Len(s) = Cardinality(S)
           /\ \A i \in 1..Len(s) : Rank(S, L, s[i]) = i - 1
<1>1. PICK n : n = Len(s) /\ n \in Nat
  BY DEF Lists
<1>2. /\ \A i \in 1..n : s[i] \in S
      /\ \A x \in S : \E i \in 1..n : s[i] = x
      /\ \A i, j \in 1..n : i < j => <<s[i], s[j]>> \in L
  BY <1>1 DEF Lists
<1>3. \A i, j \in 1..n : s[i] = s[j] => i = j
  <2> SUFFICES ASSUME NEW i \in 1..n, NEW j \in 1..n, i < j PROVE s[i] # s[j]
    BY <1>1
  <2>1. QED
    BY <1>2 DEF Linear
<1>4. \A i, j \in 1..n : <<s[i], s[j]>> \in L => i < j
  <2> SUFFICES ASSUME NEW i \in 1..n, NEW j \in 1..n, <<s[i], s[j]>> \in L, ~(i < j)
               PROVE FALSE
    OBVIOUS
  <2>1. CASE i = j
    BY <1>2, <2>1 DEF Linear
  <2>2. CASE j < i
    <3>1. <<s[j], s[i]>> \in L /\ s[i] \in S /\ s[j] \in S
      BY <1>2, <2>2
    <3>2. QED
      BY <3>1 DEF Linear
  <2>3. QED
    BY <1>1, <2>1, <2>2
<1>5. ASSUME NEW m \in 0..n, NEW T, T = {s[j] : j \in 1..m}
      PROVE  IsFiniteSet(T) /\ Cardinality(T) = m
  <2>1. PICK f : f = [j \in 1..m |-> s[j]]
    OBVIOUS
  <2>2. \A j \in 1..m : j \in 1..n
    BY <1>1
  <2>3. f \in Bijection(1..m, T)
    BY <1>3, <1>5, <2>1, <2>2 DEF Bijection, Injection, Surjection, IsInjective
  <2>4. IsFiniteSet(1..m) /\ Cardinality(1..m) = m
    <3>1. PICK a \in Int, b \in Int : a = 1 /\ b = m
      BY <1>1
    <3>2. IsFiniteSet(a..b) /\ Cardinality(a..b) = IF a > b THEN 0 ELSE b - a + 1
      BY FS_Interval
    <3>3. QED
      BY <1>1, <3>1, <3>2
  <2>5. QED
    BY <2>3, <2>4, FS_Bijection DEF ExistsBijection
<1>6. S = {s[j] : j \in 1..n}
  BY <1>2
<1>7. IsFiniteSet(S) /\ Cardinality(S) = n
  BY <1>1, <1>5, <1>6
<1>8. ASSUME NEW i \in 1..n PROVE Rank(S, L, s[i]) = i - 1
  <2>1. i - 1 \in 0..n
    BY <1>1
  <2>2. \A j \in 1..n : j < i <=> j \in 1..(i - 1)
    BY <1>1
  <2>3. \A j \in 1..(i - 1) : j \in 1..n
    BY <1>1
  <2>4. Below(S, L, s[i]) = {s[j] : j \in 1..(i - 1)}
    BY <1>2, <1>4, <2>2, <2>3 DEF Below
  <2>5. QED
    BY <1>5, <2>1, <2>4 DEF Rank
<1>9. QED
  BY <1>1, <1>7, <1>8

(* There is one list of a set in an order. *)
LEMMA ListIsUnique ==
    ASSUME NEW S, NEW L, Linear(S, L), NEW s, Lists(s, S, L), NEW t, Lists(t, S, L)
    PROVE  s = t
<1>1. /\ IsFiniteSet(S) /\ Len(s) = Cardinality(S) /\ Len(t) = Cardinality(S)
      /\ \A i \in 1..Len(s) : Rank(S, L, s[i]) = i - 1
      /\ \A i \in 1..Len(t) : Rank(S, L, t[i]) = i - 1
  BY ListHasRanks
<1>2. s \in Seq(S) /\ t \in Seq(S) /\ Len(s) = Len(t)
  BY <1>1 DEF Lists
<1>3. \A i \in 1..Len(s) : s[i] \in S /\ t[i] \in S
  BY <1>2
<1>4. \A i \in 1..Len(s) : s[i] = t[i]
  BY <1>1, <1>2, <1>3, RankGrows
<1>5. QED
  BY <1>2, <1>4

(* Lists of what comes earlier and later make one list. *)
LEMMA ListsJoin ==
    ASSUME NEW A, NEW B, NEW L, \A a \in A, b \in B : <<a, b>> \in L,
           NEW s, Lists(s, A, L), NEW t, Lists(t, B, L)
    PROVE  Lists(s \o t, A \cup B, L)
<1>1. PICK m \in Nat, n \in Nat : m = Len(s) /\ n = Len(t)
  <2>1. s \in Seq(A) /\ t \in Seq(B)
    BY DEF Lists
  <2>2. QED
    BY <2>1
<1>2. PICK u : u = s \o t
  OBVIOUS
<1>3. s \in Seq(A) /\ t \in Seq(B)
  BY DEF Lists
<1>4. s \in Seq(A \cup B) /\ t \in Seq(A \cup B)
  BY <1>3
<1>5. /\ u \in Seq(A \cup B) /\ Len(u) = m + n
      /\ \A i \in 1..m : u[i] = s[i]
      /\ \A i \in 1..n : u[m + i] = t[i]
  BY <1>1, <1>2, <1>4
<1>6. ASSUME NEW x \in A \cup B PROVE \E i \in 1..(m + n) : u[i] = x
  <2>1. CASE x \in A
    <3>1. PICK i \in 1..m : s[i] = x
      BY <1>1, <2>1 DEF Lists
    <3>2. i \in 1..(m + n) /\ u[i] = x
      BY <1>1, <1>5, <3>1
    <3>3. QED
      BY <3>2
  <2>2. CASE x \in B
    <3>1. PICK i \in 1..n : t[i] = x
      BY <1>1, <2>2 DEF Lists
    <3>2. m + i \in 1..(m + n) /\ u[m + i] = x
      BY <1>1, <1>5, <3>1
    <3>3. QED
      BY <3>2
  <2>3. QED
    BY <2>1, <2>2
<1>7. ASSUME NEW i \in 1..(m + n), NEW j \in 1..(m + n), i < j PROVE <<u[i], u[j]>> \in L
  <2>1. CASE j <= m
    <3>1. i \in 1..m /\ j \in 1..m
      BY <1>1, <1>7, <2>1
    <3>2. u[i] = s[i] /\ u[j] = s[j] /\ <<s[i], s[j]>> \in L
      BY <1>1, <1>5, <1>7, <3>1 DEF Lists
    <3>3. QED
      BY <3>2
  <2>2. CASE i > m
    <3>1. PICK k, l : k = i - m /\ l = j - m
      OBVIOUS
    <3>2. k \in 1..n /\ l \in 1..n /\ k < l /\ i = m + k /\ j = m + l
      BY <1>1, <1>7, <2>2, <3>1
    <3>3. u[i] = t[k] /\ u[j] = t[l] /\ <<t[k], t[l]>> \in L
      BY <1>1, <1>5, <3>2 DEF Lists
    <3>4. QED
      BY <3>3
  <2>3. CASE i <= m /\ j > m
    <3>1. PICK l : l = j - m
      OBVIOUS
    <3>2. i \in 1..m /\ l \in 1..n /\ j = m + l
      BY <1>1, <2>3, <3>1
    <3>3. u[i] = s[i] /\ u[j] = t[l]
      BY <1>5, <3>2
    <3>4. s[i] \in A /\ t[l] \in B
      BY <1>1, <1>3, <3>2
    <3>5. QED
      BY <3>3, <3>4
  <2>4. QED
    BY <1>1, <2>1, <2>2, <2>3
<1>8. QED
  BY <1>2, <1>5, <1>6, <1>7 DEF Lists

(* The end of a list is the list of what is there. *)
LEMMA ListEnds ==
    ASSUME NEW S, NEW L, NEW s, Lists(s, S, L), NEW m \in 0..Len(s), NEW T,
           \A x : x \in T <=> \E i \in 1..Len(s) : m < i /\ x = s[i]
    PROVE  Lists(SubSeq(s, m + 1, Len(s)), T, L)
<1>1. PICK n : n = Len(s) /\ n \in Nat
  BY DEF Lists
<1>2. PICK u : u = SubSeq(s, m + 1, n)
  OBVIOUS
<1>3. s \in Seq(S)
  BY DEF Lists
<1>4. Len(u) = n - m /\ \A i \in 1..(n - m) : u[i] = s[m + i]
  BY <1>1, <1>2, <1>3
<1>5. u = [i \in 1..(n - m) |-> s[m + i]]
  BY <1>1, <1>2, <1>3
<1>6. \A i \in 1..(n - m) : m + i \in 1..n /\ m < m + i
  BY <1>1
<1>7. \A i \in 1..(n - m) : s[m + i] \in T
  BY <1>1, <1>6
<1>8. n - m \in Nat
  BY <1>1
<1>9. u \in Seq(T)
  BY <1>5, <1>7, <1>8
<1>10. ASSUME NEW x \in T PROVE \E i \in 1..(n - m) : u[i] = x
  <2>1. PICK i \in 1..n : m < i /\ x = s[i]
    BY <1>1
  <2>2. i - m \in 1..(n - m) /\ m + (i - m) = i
    BY <1>1, <2>1
  <2>3. u[i - m] = x
    BY <1>4, <2>1, <2>2
  <2>4. QED
    BY <2>2, <2>3
<1>11. ASSUME NEW i \in 1..(n - m), NEW j \in 1..(n - m), i < j PROVE <<u[i], u[j]>> \in L
  <2>1. m + i \in 1..n /\ m + j \in 1..n /\ m + i < m + j
    BY <1>1, <1>11
  <2>2. <<s[m + i], s[m + j]>> \in L
    BY <1>1, <2>1 DEF Lists
  <2>3. QED
    BY <1>4, <2>2
<1>12. QED
  BY <1>1, <1>2, <1>4, <1>9, <1>10, <1>11 DEF Lists

(* What comes before what, by the places in a list. *)
LEMMA PlacesTell ==
    ASSUME NEW S, NEW L, Linear(S, L), NEW s, Lists(s, S, L),
           NEW i \in 1..Len(s), NEW j \in 1..Len(s)
    PROVE  <<s[i], s[j]>> \in L <=> i < j
<1>1. s[i] \in S /\ s[j] \in S
  BY DEF Lists
<1>2. i < j => <<s[i], s[j]>> \in L
  BY DEF Lists
<1>3. j < i => <<s[j], s[i]>> \in L
  BY DEF Lists
<1>4. i = j => ~(<<s[i], s[j]>> \in L)
  BY <1>1 DEF Linear
<1>5. ~(<<s[i], s[j]>> \in L /\ <<s[j], s[i]>> \in L)
  BY <1>1 DEF Linear
<1>6. Len(s) \in Nat
  BY DEF Lists
<1>7. i < j \/ j < i \/ i = j
  BY <1>6
<1>8. ~(i < j /\ j < i) /\ (i < j => i # j)
  BY <1>6
<1>9. QED
  BY <1>2, <1>3, <1>4, <1>5, <1>7, <1>8

-----------------------------------------------------------------------------
(* A step taken again and again, n times: w is what a recursive function   *)
(* over 0..n computes.                                                     *)
Iterates(w, n, a, step) ==
    w = [k \in 0..n |-> IF k = 0 THEN a ELSE step[w[k - 1]]]

LEMMA IterationExists ==
    ASSUME NEW X, NEW a \in X, NEW step \in [X -> X], NEW n \in Nat
    PROVE  \E w \in [0..n -> X] : Iterates(w, n, a, step)
<1> DEFINE P == {m \in Nat : \E w \in [0..m -> X] : Iterates(w, m, a, step)}
<1>1. 0 \in P
  <2>1. PICK w : w = [k \in 0..0 |-> a]
    OBVIOUS
  <2>2. 0..0 = {0}
    OBVIOUS
  <2>3. w \in [0..0 -> X] /\ \A k \in 0..0 : k = 0
    BY <2>1, <2>2
  <2>4. Iterates(w, 0, a, step)
    BY <2>1, <2>3 DEF Iterates
  <2>5. QED
    BY <2>3, <2>4
<1>2. ASSUME NEW m \in Nat, m \in P PROVE m + 1 \in P
  <2>1. PICK w \in [0..m -> X] : Iterates(w, m, a, step)
    BY <1>2
  <2>2. PICK v : v = [k \in 0..(m + 1) |-> IF k = 0 THEN a ELSE step[w[k - 1]]]
    OBVIOUS
  <2>3. \A k \in 0..(m + 1) : k # 0 => k - 1 \in 0..m
    OBVIOUS
  <2>4. v \in [0..(m + 1) -> X]
    BY <2>2, <2>3
  <2>5. \A k \in 0..m : k \in 0..(m + 1) /\ w[k] = IF k = 0 THEN a ELSE step[w[k - 1]]
    BY <2>1 DEF Iterates
  <2>6. \A k \in 0..m : v[k] = w[k]
    BY <2>2, <2>5
  <2>7. Iterates(v, m + 1, a, step)
    <3> DEFINE From(x, y) == x = [k \in 0..(m + 1) |-> IF k = 0 THEN a ELSE step[y[k - 1]]]
    <3>1. PICK u : From(u, v)
      OBVIOUS
    <3>2. \A k \in 0..(m + 1) : v[k] = u[k]
      BY <2>2, <2>3, <2>6, <3>1
    <3>3. u = v
      BY <2>2, <3>1, <3>2
    <3> HIDE DEF From
    <3>4. From(v, v)
      BY <3>1, <3>3
    <3>5. QED
      BY <3>4 DEF From, Iterates
  <2>8. QED
    BY <2>4, <2>7
<1> HIDE DEF P
<1>3. n \in P
  BY <1>1, <1>2, NumbersInduction
<1>4. QED
  BY <1>3 DEF P
=============================================================================
