------------------------- MODULE ScopeBuffer_proofs -------------------------
(***************************************************************************)
(* The theorems of ScopeBuffer, for every number of seqs, ids, uuids and   *)
(* scores and every batch.                                                 *)
(*                                                                         *)
(* The inductive invariant Inv has three parts:                            *)
(*                                                                         *)
(*   BufInv     the slice is in seq order, each index holds exactly the    *)
(*              live items that have its key, no two items share a key, no *)
(*              seq is ahead of the cursor, and the uuid span is that of   *)
(*              the first and the last item issued;                        *)
(*   LimitInv   every live item is a payload or a counter in range, and is *)
(*              within the cap of its size;                                *)
(*   Accounted  bytes is the sum of the sizes of the live items, and it is *)
(*              within the budget.                                         *)
(*                                                                         *)
(* A write finds the item it touches through an index and, for a delete,   *)
(* through a binary search of the slice, so the order of the slice and the *)
(* exactness of the indexes are needed to say what any write does; and the *)
(* sum stays exact because the bytes a write charges are those of the      *)
(* items it touched.  Outcome is what every point write and every delete   *)
(* comes to: Inv again, each item either one of before with the same       *)
(* identity or new with the next seq, and the drift of idKeyBytes either   *)
(* kept or cleared.  The replacement of the whole scope is the other kind  *)
(* of step.                                                                *)
(***************************************************************************)
EXTENDS ScopeBuffer, SequenceTheorems, FiniteSetTheorems, WellFoundedInduction, TLAPS

(***************************************************************************)
(* Sums.  The community module defines SumFunctionOnSet, the sum the       *)
(* accounting invariants are stated with, by a recursive function, so each *)
(* fact about it rests on induction over the subsets of a finite set; the  *)
(* induction rules are stated about a set of good values rather than about *)
(* a predicate, which keeps them first-order.                              *)
(***************************************************************************)

\* Every nonempty set of naturals has a least element.
LEMMA NatMin ==
  ASSUME NEW T \in SUBSET Nat, T # {}
  PROVE  \E n \in T : \A m \in T : n <= m
<1> DEFINE F == {0..n : n \in T}
<1>1. F \subseteq FiniteSubsetsOf(Nat) /\ F # {}
  <2>1. \A n \in T : IsFiniteSet(0..n) /\ 0..n \subseteq Nat
    BY FS_Interval
  <2>2. QED
    BY <2>1 DEF FiniteSubsetsOf
<1>2. PICK x \in F : \A y \in F : ~ (<<y, x>> \in StrictSubsetOrdering(Nat))
  <2> HIDE DEF F
  <2> QED BY <1>1, FS_StrictSubsetOrderingWellFounded, WFMin
<1>3. PICK n \in T : x = 0..n
  BY <1>2
<1>4. ASSUME NEW m \in T, m < n
      PROVE  FALSE
  <2>1. 0..m \subseteq 0..n /\ 0..m # 0..n
    <3>1. n \in 0..n /\ n \notin 0..m
      BY <1>4
    <3>2. QED
      BY <3>1, <1>4
  <2>2. <<0..m, 0..n>> \in (SUBSET Nat) \X (SUBSET Nat)
    OBVIOUS
  <2>3. <<0..m, 0..n>> \in StrictSubsetOrdering(Nat)
    BY <2>1, <2>2 DEF StrictSubsetOrdering
  <2>4. 0..m \in F
    OBVIOUS
  <2>5. QED
    <3> HIDE DEF F
    <3> QED BY <2>3, <2>4, <1>2, <1>3
<1>5. QED
  BY <1>4

\* Induction over the naturals, for a set.
LEMMA NatSetInduction ==
  ASSUME NEW G, 0 \in G, \A n \in Nat : n \in G => n + 1 \in G
  PROVE  \A n \in Nat : n \in G
<1> DEFINE B == Nat \ G
<1>1. SUFFICES ASSUME B # {}
               PROVE  FALSE
  OBVIOUS
<1>2. PICK n \in B : \A m \in B : n <= m
  <2>1. B \in SUBSET Nat
    OBVIOUS
  <2> HIDE DEF B
  <2>2. QED
    BY <1>1, <2>1, NatMin
<1>3. n \in Nat /\ n # 0
  BY <1>2
<1>4. n - 1 \in Nat /\ n - 1 \notin B
  BY <1>2, <1>3
<1>5. (n - 1) + 1 \in G
  BY <1>4
<1>6. QED
  BY <1>2, <1>3, <1>5

\* Induction over the subsets of a finite set: a subset is good once all its
\* strict subsets are.
LEMMA SubsetInduction ==
  ASSUME NEW S, IsFiniteSet(S), NEW G,
         \A s \in SUBSET S : (\A t \in SUBSET S : t \subseteq s /\ t # s => t \in G) => s \in G
  PROVE  \A s \in SUBSET S : s \in G
<1> DEFINE B == (SUBSET S) \ G
<1>1. SUFFICES ASSUME B # {}
               PROVE  FALSE
  OBVIOUS
<1>2. B \subseteq FiniteSubsetsOf(S)
  BY FS_FiniteSubsetsOfFinite
<1>3. PICK s \in B : \A t \in B : ~ (<<t, s>> \in StrictSubsetOrdering(S))
  <2> HIDE DEF B
  <2> QED BY <1>1, <1>2, FS_StrictSubsetOrderingWellFounded, WFMin
<1>4. ASSUME NEW t \in SUBSET S, t \subseteq s, t # s
      PROVE  t \in G
  <2>1. <<t, s>> \in StrictSubsetOrdering(S)
    BY <1>3, <1>4 DEF StrictSubsetOrdering
  <2>2. QED
    BY <1>3, <2>1
<1>5. QED
  BY <1>3, <1>4

----------------------------------------------------------------------------
(* The recurrence *)

\* The element the fold takes out of s first.
Pick(s) == CHOOSE x \in s : TRUE

\* One turn of the fold.
SumStep(f, g, s) == IF s = {} THEN 0 ELSE f[Pick(s)] + g[s \ {Pick(s)}]

\* The recurrence of the sum has a solution.
LEMMA IterExists ==
  ASSUME NEW S, IsFiniteSet(S), NEW f, \A x \in S : f[x] \in Int
  PROVE  \E g \in [SUBSET S -> Int] : \A s \in SUBSET S : g[s] = SumStep(f, g, s)
<1> DEFINE Upto(n) == {s \in SUBSET S : Cardinality(s) <= n}
           Good(n) == \E g \in [Upto(n) -> Int] : \A s \in Upto(n) : g[s] = SumStep(f, g, s)
           Reached == {n \in Nat : Good(n)}
<1>0. \A s \in SUBSET S : IsFiniteSet(s) /\ Cardinality(s) \in Nat
  BY FS_Subset, FS_CardinalityType
<1>1. Good(0)
  <2> DEFINE g == [s \in Upto(0) |-> 0]
  <2>1. \A s \in Upto(0) : s = {}
    BY <1>0, FS_EmptySet
  <2>2. g \in [Upto(0) -> Int]
    OBVIOUS
  <2>3. \A s \in Upto(0) : g[s] = SumStep(f, g, s)
    BY <2>1 DEF SumStep
  <2>4. QED
    BY <2>2, <2>3
<1>2. ASSUME NEW n \in Nat, Good(n)
      PROVE  Good(n+1)
  <2>1. PICK g \in [Upto(n) -> Int] : \A s \in Upto(n) : g[s] = SumStep(f, g, s)
    BY <1>2
  <2> DEFINE h == [s \in Upto(n+1) |-> SumStep(f, g, s)]
  <2>2. ASSUME NEW s \in Upto(n+1), s # {}
        PROVE  /\ Pick(s) \in S
               /\ s \ {Pick(s)} \in Upto(n)
    <3>1. Pick(s) \in s
      BY <2>2 DEF Pick
    <3>2. Cardinality(s \ {Pick(s)}) = Cardinality(s) - 1
      BY <3>1, <1>0, FS_RemoveElement
    <3>3. QED
      BY <3>1, <3>2, <1>0
  <2>3. h \in [Upto(n+1) -> Int]
    BY <2>2 DEF SumStep
  <2>4. ASSUME NEW s \in Upto(n)
        PROVE  s \in Upto(n+1) /\ h[s] = g[s]
    <3>1. s \in Upto(n+1)
      BY <1>0
    <3>2. QED
      BY <3>1, <2>1
  <2>5. ASSUME NEW s \in Upto(n+1)
        PROVE h[s] = SumStep(f, h, s)
    <3>1. CASE s = {}
      BY <3>1 DEF SumStep
    <3>2. CASE s # {}
      <4>1. h[s \ {Pick(s)}] = g[s \ {Pick(s)}]
        BY <2>2, <2>4, <3>2
      <4>2. QED
        BY <4>1, <3>2 DEF SumStep
    <3>3. QED
      BY <3>1, <3>2
  <2>6. QED
    BY <2>3, <2>5
<1>3. \A n \in Nat : n \in Reached
  <2>1. 0 \in Reached
    BY <1>1
  <2>2. \A n \in Nat : n \in Reached => n + 1 \in Reached
    <3> HIDE DEF Good
    <3> QED BY <1>2
  <2> HIDE DEF Reached
  <2>3. QED
    BY <2>1, <2>2, NatSetInduction
<1>4. Good(Cardinality(S))
  BY <1>3, <1>0
<1>5. Upto(Cardinality(S)) = SUBSET S
  BY FS_Subset, <1>0
<1>6. QED
  BY <1>4, <1>5

\* SumFunctionOnSet follows its recurrence.
LEMMA SumDef ==
  ASSUME NEW S, IsFiniteSet(S), NEW f, \A x \in S : f[x] \in Int
  PROVE  \E g \in [SUBSET S -> Int] :
            /\ \A s \in SUBSET S : g[s] = SumStep(f, g, s)
            /\ SumFunctionOnSet(f, S) = g[S]
<1> DEFINE Rec(g) == g = [s \in SUBSET S |-> IF s = {} THEN 0 ELSE LET x == CHOOSE x \in s : TRUE IN f[x] + g[s \ {x}]]
           it == CHOOSE g : Rec(g)
<1>1. SumFunctionOnSet(f, S) = it[S]
  BY DEF SumFunctionOnSet, FoldFunctionOnSet, MapThenFoldSet
<1>2. PICK g \in [SUBSET S -> Int] : \A s \in SUBSET S : g[s] = SumStep(f, g, s)
  BY IterExists, Zenon
<1>3. Rec(g)
  BY <1>2 DEF SumStep, Pick
<1>4. Rec(it)
  <2> HIDE DEF Rec
  <2> QED BY <1>3
<1>5. it = [s \in SUBSET S |-> SumStep(f, it, s)]
  BY <1>4, Zenon DEF SumStep, Pick
<1> HIDE DEF it, Rec
<1>6. \A s \in SUBSET S : it[s] = SumStep(f, it, s)
  BY <1>5
<1> DEFINE G == {s \in SUBSET S : it[s] \in Int}
<1>7. \A s \in SUBSET S : s \in G
  <2>1. ASSUME NEW s \in SUBSET S, \A t \in SUBSET S : t \subseteq s /\ t # s => t \in G
        PROVE  s \in G
    <3>1. CASE s = {}
      <4>1. it[{}] = 0
        BY <1>6 DEF SumStep
      <4>2. it[s] = 0
        BY <3>1, <4>1
      <4>3. QED
        BY <4>2
    <3>2. CASE s # {}
      <4>1. Pick(s) \in s
        BY <3>2 DEF Pick
      <4>2. s \ {Pick(s)} \in G
        BY <4>1, <2>1
      <4>3. it[s] = f[Pick(s)] + it[s \ {Pick(s)}]
        BY <1>6, <3>2 DEF SumStep
      <4>4. QED
        BY <4>1, <4>2, <4>3
    <3>3. QED
      BY <3>1, <3>2
  <2> HIDE DEF G
  <2>2. QED
    BY <2>1, SubsetInduction
<1>8. it \in [SUBSET S -> Int]
  BY <1>5, <1>7
<1>9. QED
  BY <1>1, <1>6, <1>8

\* The recurrence again, with any element taken out first.
LEMMA SumRec ==
  ASSUME NEW S, IsFiniteSet(S), NEW f, \A x \in S : f[x] \in Int
  PROVE  \E g \in [SUBSET S -> Int] :
            /\ \A s \in SUBSET S : g[s] = SumStep(f, g, s)
            /\ \A s \in SUBSET S : \A x \in s : g[s] = g[s \ {x}] + f[x]
            /\ SumFunctionOnSet(f, S) = g[S]
<1>1. PICK F \in [SUBSET S -> Int] :
             /\ \A s \in SUBSET S : F[s] = SumStep(f, F, s)
             /\ SumFunctionOnSet(f, S) = F[S]
  BY SumDef, Zenon
<1> DEFINE G == {s \in SUBSET S : \A x \in s : F[s] = F[s \ {x}] + f[x]}
<1>2. ASSUME NEW s \in SUBSET S, \A t \in SUBSET S : t \subseteq s /\ t # s => t \in G,
             NEW x \in s
      PROVE  F[s] = F[s \ {x}] + f[x]
  <2> DEFINE y == Pick(s)
  <2>1. y \in s
    BY DEF Pick
  <2>2. F[s] = f[y] + F[s \ {y}]
    BY <1>1 DEF SumStep
  <2>3. F[s] \in Int /\ F[s \ {x}] \in Int /\ F[s \ {y}] \in Int /\ f[x] \in Int /\ f[y] \in Int
    BY <2>1
  <2> HIDE DEF y
  <2>4. CASE x = y
    BY <2>2, <2>3, <2>4
  <2>5. CASE x # y
    <3>1. s \ {x} \in G /\ s \ {y} \in G
      BY <1>2, <2>1
    <3>2. F[s \ {y}] = F[(s \ {y}) \ {x}] + f[x]
      BY <3>1, <2>5
    <3>3. F[s \ {x}] = F[(s \ {x}) \ {y}] + f[y]
      BY <3>1, <2>5, <2>1
    <3>4. (s \ {y}) \ {x} = (s \ {x}) \ {y} /\ (s \ {x}) \ {y} \in SUBSET S
      OBVIOUS
    <3>5. F[(s \ {x}) \ {y}] \in Int
      BY <3>4
    <3> DEFINE a == F[(s \ {x}) \ {y}]
    <3>6. a \in Int /\ F[s \ {y}] = a + f[x] /\ F[s \ {x}] = a + f[y]
      BY <3>2, <3>3, <3>4, <3>5
    <3> HIDE DEF a
    <3>7. QED
      BY <2>2, <2>3, <3>6
  <2>6. QED
    BY <2>4, <2>5
<1>3. \A s \in SUBSET S : (\A t \in SUBSET S : t \subseteq s /\ t # s => t \in G) => s \in G
  BY <1>2
<1>4. \A s \in SUBSET S : s \in G
  <2> HIDE DEF G
  <2> QED BY <1>3, SubsetInduction
<1>5. QED
  BY <1>1, <1>4

----------------------------------------------------------------------------
(* Sums *)

\* A sum of integers is an integer, and the empty sum is 0.
LEMMA SumType ==
  ASSUME NEW S, IsFiniteSet(S), NEW f, \A x \in S : f[x] \in Int
  PROVE  /\ SumFunctionOnSet(f, S) \in Int
         /\ S = {} => SumFunctionOnSet(f, S) = 0
<1>1. PICK F \in [SUBSET S -> Int] :
             /\ \A s \in SUBSET S : F[s] = SumStep(f, F, s)
             /\ SumFunctionOnSet(f, S) = F[S]
  BY SumDef, Zenon
<1>2. QED
  BY <1>1 DEF SumStep

\* The sum of the pointwise sum of two functions.
LEMMA SumPlus ==
  ASSUME NEW S, IsFiniteSet(S), NEW f, \A x \in S : f[x] \in Int,
         NEW g, \A x \in S : g[x] \in Int,
         NEW h, \A x \in S : h[x] = f[x] + g[x]
  PROVE  SumFunctionOnSet(h, S) = SumFunctionOnSet(f, S) + SumFunctionOnSet(g, S)
<1>0. \A x \in S : h[x] \in Int
  OBVIOUS
<1>1. PICK F \in [SUBSET S -> Int] :
             /\ \A s \in SUBSET S : F[s] = SumStep(f, F, s)
             /\ SumFunctionOnSet(f, S) = F[S]
  BY SumDef, Zenon
<1>2. PICK K \in [SUBSET S -> Int] :
             /\ \A s \in SUBSET S : K[s] = SumStep(g, K, s)
             /\ SumFunctionOnSet(g, S) = K[S]
  BY SumDef, Zenon
<1>3. PICK H \in [SUBSET S -> Int] :
             /\ \A s \in SUBSET S : H[s] = SumStep(h, H, s)
             /\ SumFunctionOnSet(h, S) = H[S]
  BY <1>0, SumDef, Zenon
<1> DEFINE G == {s \in SUBSET S : H[s] = F[s] + K[s]}
<1>4. ASSUME NEW s \in SUBSET S, \A t \in SUBSET S : t \subseteq s /\ t # s => t \in G
      PROVE  s \in G
  <2>1. CASE s = {}
    <3>1. F[{}] = 0 /\ K[{}] = 0 /\ H[{}] = 0
      BY <1>1, <1>2, <1>3 DEF SumStep
    <3>2. H[s] = F[s] + K[s]
      BY <2>1, <3>1
    <3>3. QED
      BY <3>2
  <2>2. CASE s # {}
    <3> DEFINE x == Pick(s)
               r == s \ {x}
    <3>1. x \in s /\ x \in S /\ r \in SUBSET S
      BY <2>2 DEF Pick
    <3>2. r \in G
      BY <3>1, <1>4
    <3>3. F[s] = f[x] + F[r] /\ K[s] = g[x] + K[r] /\ H[s] = h[x] + H[r]
      BY <1>1, <1>2, <1>3, <2>2 DEF SumStep
    <3> HIDE DEF x, r
    <3>4. F[r] \in Int /\ K[r] \in Int /\ f[x] \in Int /\ g[x] \in Int
      BY <3>1
    <3>5. QED
      BY <3>1, <3>2, <3>3, <3>4
  <2>3. QED
    BY <2>1, <2>2
<1>5. \A s \in SUBSET S : s \in G
  <2> HIDE DEF G
  <2> QED BY <1>4, SubsetInduction
<1>6. QED
  BY <1>1, <1>2, <1>3, <1>5

\* Summing over a subset is summing over the whole with 0 elsewhere.
LEMMA SumRestrict ==
  ASSUME NEW S, IsFiniteSet(S), NEW T \in SUBSET S, NEW f, \A x \in T : f[x] \in Int,
         NEW g, \A x \in S : g[x] = IF x \in T THEN f[x] ELSE 0
  PROVE  SumFunctionOnSet(g, S) = SumFunctionOnSet(f, T)
<1>0. IsFiniteSet(T) /\ \A x \in S : g[x] \in Int
  BY FS_Subset
<1>1. PICK F \in [SUBSET T -> Int] :
             /\ \A s \in SUBSET T : F[s] = SumStep(f, F, s)
             /\ \A s \in SUBSET T : \A x \in s : F[s] = F[s \ {x}] + f[x]
             /\ SumFunctionOnSet(f, T) = F[T]
  BY <1>0, SumRec, Zenon
<1>2. PICK K \in [SUBSET S -> Int] :
             /\ \A s \in SUBSET S : K[s] = SumStep(g, K, s)
             /\ SumFunctionOnSet(g, S) = K[S]
  BY <1>0, SumDef, Zenon
<1>3. \A s \in SUBSET T : \A x \in s : F[s] = F[s \ {x}] + f[x]
  BY <1>1
<1> DEFINE G == {s \in SUBSET S : K[s] = F[s \cap T]}
<1>4. ASSUME NEW s \in SUBSET S, \A t \in SUBSET S : t \subseteq s /\ t # s => t \in G
      PROVE  s \in G
  <2>1. CASE s = {}
    <3>1. s \cap T = {} /\ s \cap T \in SUBSET T
      BY <2>1
    <3>2. F[s \cap T] = 0 /\ K[s] = 0
      BY <2>1, <3>1, <1>1, <1>2 DEF SumStep
    <3>3. QED
      BY <3>2
  <2>2. CASE s # {}
    <3> DEFINE x == Pick(s)
               r == s \ {x}
    <3>1. x \in s /\ x \in S /\ r \in SUBSET S
      BY <2>2 DEF Pick
    <3>2. r \in G
      BY <3>1, <1>4
    <3>3. K[s] = g[x] + K[r]
      BY <1>2, <2>2 DEF SumStep
    <3>4. K[r] = F[r \cap T]
      BY <3>2
    <3>5. r \cap T \in SUBSET T /\ s \cap T \in SUBSET T
      OBVIOUS
    <3>6. F[r \cap T] \in Int
      BY <3>5
    <3>7. CASE x \in T
      <4>1. r \cap T = (s \cap T) \ {x} /\ x \in s \cap T
        BY <3>7, <3>1
      <4>2. F[s \cap T] = F[r \cap T] + f[x]
        BY <4>1, <3>5, <1>3
      <4> HIDE DEF x, r
      <4>3. QED
        BY <4>2, <3>1, <3>3, <3>4, <3>6, <3>7
    <3>8. CASE x \notin T
      <4>1. r \cap T = s \cap T
        BY <3>8
      <4>2. F[s \cap T] = K[r] /\ K[r] \in Int
        BY <4>1, <3>4, <3>6
      <4>3. g[x] = 0
        BY <3>1, <3>8
      <4> HIDE DEF x, r
      <4>4. K[s] = F[s \cap T]
        BY <4>2, <4>3, <3>3
      <4>5. QED
        BY <4>4
    <3>9. QED
      BY <3>7, <3>8
  <2>3. QED
    BY <2>1, <2>2
<1>5. \A s \in SUBSET S : s \in G
  <2> HIDE DEF G
  <2> QED BY <1>4, SubsetInduction
<1>6. S \cap T = T
  OBVIOUS
<1>7. QED
  BY <1>1, <1>2, <1>5, <1>6

\* Functions that agree on the index set have the same sum.
LEMMA SumEqual ==
  ASSUME NEW S, IsFiniteSet(S), NEW f, \A x \in S : f[x] \in Int,
         NEW g, \A x \in S : g[x] = f[x]
  PROVE  SumFunctionOnSet(g, S) = SumFunctionOnSet(f, S)
<1>1. S \in SUBSET S /\ \A x \in S : g[x] = IF x \in S THEN f[x] ELSE 0
  OBVIOUS
<1>2. QED
  BY <1>1, SumRestrict

\* The sum of a function that is 0 except at k.
LEMMA SumSingle ==
  ASSUME NEW S, IsFiniteSet(S), NEW k \in S, NEW c \in Int,
         NEW f, \A x \in S : f[x] = IF x = k THEN c ELSE 0
  PROVE  SumFunctionOnSet(f, S) = c
<1> DEFINE T == {k}
           z == [x \in T |-> c]
<1>1. T \in SUBSET S /\ \A x \in T : z[x] \in Int
  OBVIOUS
<1>2. \A x \in S : f[x] = IF x \in T THEN z[x] ELSE 0
  OBVIOUS
<1>3. SumFunctionOnSet(f, S) = SumFunctionOnSet(z, T)
  <2> HIDE DEF T, z
  <2> QED BY <1>1, <1>2, SumRestrict
<1>4. IsFiniteSet(T)
  BY FS_Singleton
<1>5. PICK F \in [SUBSET T -> Int] :
             /\ \A s \in SUBSET T : F[s] = SumStep(z, F, s)
             /\ SumFunctionOnSet(z, T) = F[T]
  <2> HIDE DEF T, z
  <2> QED BY <1>1, <1>4, SumDef, Zenon
<1>6. Pick(T) = k
  BY DEF Pick
<1>7. F[{}] = 0
  BY <1>5 DEF SumStep
<1>8. F[T] = z[k] + F[T \ {k}]
  BY <1>5, <1>6 DEF SumStep
<1>9. F[T \ {k}] = F[{}] /\ z[k] = c
  <2>1. T \ {k} = {}
    OBVIOUS
  <2>2. QED
    BY <2>1
<1> HIDE DEF T, z
<1>10. F[T] = c
  BY <1>7, <1>8, <1>9
<1>11. QED
  BY <1>3, <1>5, <1>10

\* What changing one value does to a sum.
LEMMA SumUpdate ==
  ASSUME NEW S, IsFiniteSet(S), NEW k \in S, NEW f, \A x \in S : f[x] \in Int,
         NEW g, g[k] \in Int, \A x \in S \ {k} : g[x] = f[x]
  PROVE  SumFunctionOnSet(g, S) = SumFunctionOnSet(f, S) - f[k] + g[k]
<1> DEFINE d == [x \in S |-> IF x = k THEN g[k] - f[k] ELSE 0]
           c == g[k] - f[k]
<1>1. c \in Int /\ \A x \in S : d[x] = (IF x = k THEN c ELSE 0) /\ d[x] \in Int
  OBVIOUS
<1>2. \A x \in S : g[x] = f[x] + d[x]
  OBVIOUS
<1>3. f[k] \in Int
  OBVIOUS
<1> HIDE DEF d
<1>4. SumFunctionOnSet(d, S) = c
  <2> HIDE DEF c
  <2> QED BY <1>1, SumSingle
<1>5. SumFunctionOnSet(g, S) = SumFunctionOnSet(f, S) + SumFunctionOnSet(d, S)
  BY <1>1, <1>2, SumPlus
<1>6. SumFunctionOnSet(f, S) \in Int
  BY SumType
<1>7. QED
  BY <1>1, <1>3, <1>4, <1>5, <1>6

\* A sum taken in two parts.
LEMMA SumSplit ==
  ASSUME NEW S, IsFiniteSet(S), NEW T \in SUBSET S, NEW f, \A x \in S : f[x] \in Int
  PROVE  SumFunctionOnSet(f, S) = SumFunctionOnSet(f, T) + SumFunctionOnSet(f, S \ T)
<1> DEFINE U == S \ T
           g == [x \in S |-> IF x \in T THEN f[x] ELSE 0]
           h == [x \in S |-> IF x \in U THEN f[x] ELSE 0]
<1>1. \A x \in S : g[x] = IF x \in T THEN f[x] ELSE 0
  OBVIOUS
<1>2. \A x \in S : h[x] = IF x \in U THEN f[x] ELSE 0
  OBVIOUS
<1>3. \A x \in S : g[x] \in Int /\ h[x] \in Int /\ f[x] = g[x] + h[x]
  OBVIOUS
<1>4. U \in SUBSET S /\ (\A x \in T : f[x] \in Int) /\ (\A x \in U : f[x] \in Int)
  OBVIOUS
<1> HIDE DEF g, h
<1>5. SumFunctionOnSet(g, S) = SumFunctionOnSet(f, T)
  BY <1>1, <1>4, SumRestrict
<1>6. SumFunctionOnSet(h, S) = SumFunctionOnSet(f, U)
  <2> HIDE DEF U
  <2> QED BY <1>2, <1>4, SumRestrict
<1>7. SumFunctionOnSet(f, S) = SumFunctionOnSet(g, S) + SumFunctionOnSet(h, S)
  BY <1>3, SumPlus
<1>8. QED
  BY <1>5, <1>6, <1>7

\* A sum of numbers that are not negative is not negative.
LEMMA SumNonNegative ==
  ASSUME NEW S, IsFiniteSet(S), NEW f, \A x \in S : f[x] \in Nat
  PROVE  SumFunctionOnSet(f, S) \in Nat
<1>0. \A x \in S : f[x] \in Int
  OBVIOUS
<1>1. PICK F \in [SUBSET S -> Int] :
             /\ \A s \in SUBSET S : F[s] = SumStep(f, F, s)
             /\ SumFunctionOnSet(f, S) = F[S]
  BY <1>0, SumDef, Zenon
<1> DEFINE G == {s \in SUBSET S : F[s] \in Nat}
<1>2. ASSUME NEW s \in SUBSET S, \A t \in SUBSET S : t \subseteq s /\ t # s => t \in G
      PROVE  s \in G
  <2>1. CASE s = {}
    <3>1. F[s] = 0
      BY <1>1, <2>1 DEF SumStep
    <3>2. QED
      BY <3>1
  <2>2. CASE s # {}
    <3>1. Pick(s) \in s
      BY <2>2 DEF Pick
    <3>2. F[s \ {Pick(s)}] \in Nat
      BY <1>2, <3>1
    <3>3. F[s] = f[Pick(s)] + F[s \ {Pick(s)}]
      BY <1>1, <2>2 DEF SumStep
    <3>4. QED
      BY <3>1, <3>2, <3>3
  <2>3. QED
    BY <2>1, <2>2
<1>3. \A s \in SUBSET S : s \in G
  <2> HIDE DEF G
  <2> QED BY <1>2, SubsetInduction
<1>4. QED
  BY <1>1, <1>3

\* What sort.Search finds in the window w.
Found(test, w, k) ==
  /\ k \in w.lo..w.hi
  /\ \A j \in w.lo..(k - 1) : ~ test[j]
  /\ k < w.hi => test[k]

LEMMA SearchSpec ==
  ASSUME NEW n \in Nat, NEW test, DOMAIN test = 1..n, Len(test) = n,
         \A i, j \in 1..n : i < j /\ test[i] => test[j]
  PROVE  /\ Search(test) \in 1..(n + 1)
         /\ \A k \in 1..n : test[k] <=> k >= Search(test)
<1> DEFINE W == [lo : 1..(n + 1), hi : 1..(n + 1)]
           Body(f, w) == LET mid == (w.lo + w.hi) \div 2
                         IN  IF w.lo >= w.hi THEN w.lo
                             ELSE IF test[mid] THEN f[[lo |-> w.lo, hi |-> mid]]
                                  ELSE f[[lo |-> mid + 1, hi |-> w.hi]]
           Rec(f) == f = [w \in W |-> Body(f, w)]
           F == CHOOSE f : Rec(f)
           G == [w \in W |-> IF w.lo >= w.hi THEN w.lo ELSE CHOOSE k \in 1..(n + 1) : Found(test, w, k)]
<1>1. Search(test) = F[[lo |-> 1, hi |-> n + 1]]
  BY DEF Search
<1>m. \A w \in W : w.lo < w.hi => LET mid == (w.lo + w.hi) \div 2
                                  IN mid \in 1..n /\ w.lo <= mid /\ mid < w.hi /\ mid + 1 \in 1..(n+1)
  OBVIOUS
<1>2. ASSUME NEW w \in W, w.lo <= w.hi
      PROVE  \E k \in 1..(n + 1) : Found(test, w, k)
  <2> DEFINE T == {k \in w.lo..w.hi : k = w.hi \/ test[k]}
  <2>1. T \in SUBSET Nat /\ w.hi \in T
    BY <1>2
  <2>2. PICK k \in T : \A m \in T : k <= m
    BY <2>1, NatMin
  <2>3. QED
    BY <2>2, <1>2 DEF Found
<1>3. \A w \in W : \A k, l : Found(test, w, k) /\ Found(test, w, l) => k = l
  BY DEF Found
<1>4. ASSUME NEW w \in W, w.lo < w.hi, NEW mid \in 1..n, mid = (w.lo + w.hi) \div 2, NEW k
      PROVE  /\ test[mid] => (Found(test, w, k) <=> Found(test, [lo |-> w.lo, hi |-> mid], k))
             /\ ~ test[mid] => (Found(test, w, k) <=> Found(test, [lo |-> mid + 1, hi |-> w.hi], k))
  <2>0. w.lo <= mid /\ mid < w.hi /\ w.lo \in 1..(n+1) /\ w.hi \in 1..(n+1)
    BY <1>4
  <2> HIDE <1>4
  <2>1. ASSUME test[mid] PROVE Found(test, w, k) <=> Found(test, [lo |-> w.lo, hi |-> mid], k)
    BY <2>0, <2>1 DEF Found
  <2>2. ASSUME ~ test[mid] PROVE Found(test, w, k) <=> Found(test, [lo |-> mid + 1, hi |-> w.hi], k)
    <3>1. \A j \in w.lo..mid : ~ test[j]
      BY <2>0, <2>2
    <3>2. QED
      BY <2>0, <2>2, <3>1 DEF Found
  <2>3. QED
    BY <2>1, <2>2
<1>5. \A w \in W : w.lo <= w.hi => Found(test, w, G[w])
  BY <1>2, SMTT(40) DEF Found
<1>6. Rec(G)
  <2>1. ASSUME NEW w \in W PROVE G[w] = Body(G, w)
    <3>1. CASE w.lo >= w.hi
      BY <3>1
    <3>2. CASE w.lo < w.hi
      <4>1. PICK mid \in 1..n : mid = (w.lo + w.hi) \div 2 /\ w.lo <= mid /\ mid < w.hi /\ mid + 1 \in 1..(n + 1)
        BY <3>2, <1>m
      <4>2. [lo |-> w.lo, hi |-> mid] \in W /\ [lo |-> mid + 1, hi |-> w.hi] \in W
        BY <4>1
      <4> DEFINE u == [lo |-> w.lo, hi |-> mid]
                 v == [lo |-> mid + 1, hi |-> w.hi]
      <4> HIDE DEF G
      <4>c. u.lo <= u.hi /\ v.lo <= v.hi /\ w.lo <= w.hi
        BY <4>1, <3>2
      <4>d. u \in W /\ v \in W
        BY <4>2
      <4>3. Found(test, u, G[u]) /\ Found(test, v, G[v]) /\ Found(test, w, G[w])
        <5> HIDE DEF u, v, W
        <5> QED BY <1>5, <4>c, <4>d
      <4>a. test[mid] => Found(test, w, G[u])
        <5>1. test[mid] => (Found(test, w, G[u]) <=> Found(test, [lo |-> w.lo, hi |-> mid], G[u]))
          <6> HIDE DEF u
          <6> QED BY <4>1, <1>4, <3>2, ZenonT(60)
        <5>2. QED BY <5>1, <4>3
      <4>b. ~ test[mid] => Found(test, w, G[v])
        BY <4>1, <4>3, <1>4, <3>2
      <4>4. G[w] = IF test[mid] THEN G[u] ELSE G[v]
        BY <4>a, <4>b, <4>3, <1>3
      <4>5. w.lo \in Int /\ w.hi \in Int
        OBVIOUS
      <4>6. ~ (w.lo >= w.hi)
        BY <4>5, <3>2
      <4>7. QED
        BY <4>4, <4>1, <4>6
    <3>3. QED
      BY <3>1, <3>2
  <2> HIDE DEF Body
  <2>2. QED
    BY <2>1
<1>7. Rec(F)
  <2> HIDE DEF Rec, G
  <2>1. QED
    BY <1>6
<1>8. ASSUME NEW w \in W
      PROVE  /\ w.lo >= w.hi => F[w] = w.lo
             /\ \A mid : w.lo < w.hi /\ mid = (w.lo + w.hi) \div 2 =>
                  F[w] = IF test[mid] THEN F[[lo |-> w.lo, hi |-> mid]] ELSE F[[lo |-> mid + 1, hi |-> w.hi]]
  <2>1. F[w] = Body(F, w)
    <3> HIDE DEF F, Body
    <3> QED
      BY <1>7
  <2> HIDE DEF F
  <2>2. w.lo \in Int /\ w.hi \in Int
    OBVIOUS
  <2>3. QED
    BY <2>1, <2>2
<1> HIDE DEF F, G
<1>9. \A d \in Nat : \A w \in W : w.hi - w.lo = d => Found(test, w, F[w])
  <2> DEFINE Bad == {d \in Nat : \E w \in W : w.hi - w.lo = d /\ ~ Found(test, w, F[w])}
  <2>1. SUFFICES ASSUME Bad # {} PROVE FALSE
    OBVIOUS
  <2>2. PICK d \in Bad : \A m \in Bad : d <= m
    BY <2>1, NatMin
  <2>3. PICK w \in W : w.hi - w.lo = d /\ ~ Found(test, w, F[w])
    BY <2>2
  <2>4. \A x \in W : x.hi - x.lo \in Nat /\ x.hi - x.lo < d => Found(test, x, F[x])
    BY <2>2
  <2>5. CASE w.lo = w.hi
    <3>0. w.lo >= w.hi
      BY <2>5
    <3>1. F[w] = w.lo
      BY <1>8, <3>0
    <3>2. QED
      BY <3>1, <2>3, <2>5 DEF Found
  <2>6. CASE w.lo < w.hi
    <3>1. PICK mid \in 1..n : mid = (w.lo + w.hi) \div 2 /\ w.lo <= mid /\ mid < w.hi /\ mid + 1 \in 1..(n + 1)
        BY <2>6, <1>m
    <3> DEFINE u == [lo |-> w.lo, hi |-> mid]
               v == [lo |-> mid + 1, hi |-> w.hi]
    <3>2. u \in W /\ v \in W
        BY <3>1
    <3>a. u.lo = w.lo /\ u.hi = mid /\ v.lo = mid + 1 /\ v.hi = w.hi
      OBVIOUS
    <3> HIDE DEF u, v
    <3>b. w.lo \in Int /\ w.hi \in Int /\ d \in Nat
      OBVIOUS
    <3>c. u.hi - u.lo \in Nat /\ u.hi - u.lo < d /\ v.hi - v.lo \in Nat /\ v.hi - v.lo < d
      <4>1. PICK lo, hi : lo = w.lo /\ hi = w.hi
        OBVIOUS
      <4>2. lo \in Int /\ hi \in Int /\ mid \in Int /\ d \in Nat /\ hi - lo = d /\ lo <= mid /\ mid < hi
        BY <4>1, <3>1, <3>b, <2>3
      <4>3. mid - lo \in Nat /\ mid - lo < d /\ hi - (mid + 1) \in Nat /\ hi - (mid + 1) < d
        BY <4>2
      <4>4. QED
        BY <4>1, <4>3, <3>a
    <3>3. Found(test, u, F[u]) /\ Found(test, v, F[v])
      BY <2>4, <3>c, <3>2
    <3>4. F[w] = IF test[mid] THEN F[u] ELSE F[v]
      BY <1>8, <3>1, <2>6 DEF u, v
    <3> HIDE DEF Found
    <3>5. QED
      BY <3>3, <3>4, <1>4, <3>1, <2>6, <2>3, SMTT(40) DEF u, v
  <2>7. QED
    BY <2>5, <2>6, <2>3, <2>2
<1> DEFINE w == [lo |-> 1, hi |-> n + 1]
<1>10. w \in W /\ w.lo = 1 /\ w.hi = n + 1
  OBVIOUS
<1> HIDE DEF w
<1>11. Found(test, w, F[w])
  <2>1. w.hi - w.lo = n
    BY <1>10
  <2>2. QED
    BY <1>9, <1>10, <2>1
<1>13. Search(test) = F[w]
  BY <1>1 DEF w
<1>12. QED
  BY <1>13, <1>10, <1>11 DEF Found

\* Counting the same values under other names.
LEMMA SumReindex ==
  ASSUME NEW S, IsFiniteSet(S), NEW g, \A x \in S : g[x] \in Int,
         NEW h, \A x, y \in S : h[x] = h[y] => x = y,
         NEW T, \A y : y \in T <=> \E x \in S : y = h[x],
         NEW f, \A x \in S : f[h[x]] = g[x]
  PROVE  IsFiniteSet(T) /\ SumFunctionOnSet(f, T) = SumFunctionOnSet(g, S)
<1>1. T = {h[x] : x \in S}
  OBVIOUS
<1>2. IsFiniteSet(T)
  <2>1. [x \in S |-> h[x]] \in Surjection(S, T)
    BY DEF Surjection
  <2>2. QED
    BY <2>1, FS_Surjection
<1>3. \A y \in T : f[y] \in Int
  OBVIOUS
<1>4. PICK F \in [SUBSET T -> Int] :
            /\ \A s \in SUBSET T : F[s] = SumStep(f, F, s)
            /\ \A s \in SUBSET T : \A x \in s : F[s] = F[s \ {x}] + f[x]
            /\ SumFunctionOnSet(f, T) = F[T]
  BY <1>2, <1>3, SumRec, Zenon
<1>5. PICK H \in [SUBSET S -> Int] :
            /\ \A s \in SUBSET S : H[s] = SumStep(g, H, s)
            /\ \A s \in SUBSET S : \A x \in s : H[s] = H[s \ {x}] + g[x]
            /\ SumFunctionOnSet(g, S) = H[S]
  BY SumRec, Zenon
<1> DEFINE image(s) == {h[x] : x \in s}
           G == {s \in SUBSET S : F[image(s)] = H[s]}
<1>6. ASSUME NEW s \in SUBSET S, \A t \in SUBSET S : t \subseteq s /\ t # s => t \in G
      PROVE  s \in G
  <2>0. image(s) \in SUBSET T
    OBVIOUS
  <2>1. CASE s = {}
    <3>1. image(s) = {}
      BY <2>1
    <3>2. F[{}] = 0 /\ H[{}] = 0
      BY <1>4, <1>5 DEF SumStep
    <3>3. QED
      BY <2>1, <3>1, <3>2
  <2>2. CASE s # {}
    <3>1. PICK x \in s : TRUE
      BY <2>2
    <3>2. s \ {x} \in G
      BY <1>6
    <3>3. h[x] \in image(s) /\ image(s) \ {h[x]} = image(s \ {x})
      OBVIOUS
    <3> HIDE DEF image
    <3>4. H[s] = H[s \ {x}] + g[x]
      BY <1>5
    <3>5. F[image(s)] = F[image(s \ {x})] + f[h[x]]
      <4>1. PICK A \in SUBSET T : A = image(s)
        BY <2>0
      <4>2. F[A] = F[A \ {h[x]}] + f[h[x]]
        BY <1>4, <3>3, <4>1
      <4>3. QED
        BY <3>3, <4>1, <4>2
    <3>6. F[image(s \ {x})] = H[s \ {x}] /\ f[h[x]] = g[x]
      BY <3>2
    <3>7. QED
      BY <3>4, <3>5, <3>6
  <2>3. QED
    BY <2>1, <2>2
<1>7. \A s \in SUBSET S : s \in G
  <2> HIDE DEF G
  <2> QED BY <1>6, SubsetInduction
<1>8. image(S) = T
  BY <1>1
<1>9. QED
  BY <1>2, <1>4, <1>5, <1>7, <1>8

\* One more element.
LEMMA SumInsert ==
  ASSUME NEW S, IsFiniteSet(S), NEW p, p \notin S,
         NEW f, \A x \in S : f[x] \in Int,
         NEW T, \A y : y \in T <=> y \in S \/ y = p,
         NEW g, g[p] \in Int, \A x \in S : g[x] = f[x]
  PROVE  SumFunctionOnSet(g, T) = SumFunctionOnSet(f, S) + g[p]
<1>1. IsFiniteSet(T)
  <2>1. T = S \cup {p}
    OBVIOUS
  <2>2. QED
    BY <2>1, FS_AddElement
<1>2. \A x \in T : g[x] \in Int
  OBVIOUS
<1>4. SumFunctionOnSet(g, T) = SumFunctionOnSet(g, {p}) + SumFunctionOnSet(g, T \ {p})
  <2>1. {p} \in SUBSET T
    OBVIOUS
  <2>2. QED
    BY <2>1, <1>1, <1>2, SumSplit
<1>5. SumFunctionOnSet(g, T \ {p}) = SumFunctionOnSet(g, S)
  <2>1. T \ {p} = S
    OBVIOUS
  <2>2. QED
    BY <2>1, Zenon
<1>6. SumFunctionOnSet(g, S) = SumFunctionOnSet(f, S)
  BY SumEqual
<1>7. SumFunctionOnSet(g, {p}) = g[p]
  <2>1. IsFiniteSet({p}) /\ p \in {p} /\ \A x \in {p} : g[x] = IF x = p THEN g[p] ELSE 0
    BY FS_Singleton
  <2>2. QED
    BY <2>1, SumSingle
<1>8. SumFunctionOnSet(f, S) \in Int
  BY SumType
<1>9. QED
  BY <1>4, <1>5, <1>6, <1>7, <1>8

\* Some elements less.
LEMMA SumWithout ==
  ASSUME NEW S, IsFiniteSet(S), NEW D, D \subseteq S,
         NEW f, \A x \in S : f[x] \in Int,
         NEW g, \A x \in D : g[x] = f[x],
         NEW T, \A y : y \in T <=> y \in S /\ y \notin D,
         NEW h, \A x \in T : h[x] = f[x]
  PROVE  SumFunctionOnSet(h, T) = SumFunctionOnSet(f, S) - SumFunctionOnSet(g, D)
<1>1. T = S \ D /\ IsFiniteSet(D) /\ IsFiniteSet(T)
  <2>1. T = S \ D /\ T \subseteq S
    OBVIOUS
  <2>2. QED
    BY <2>1, FS_Subset
<1>2. SumFunctionOnSet(f, S) = SumFunctionOnSet(f, D) + SumFunctionOnSet(f, S \ D)
  BY SumSplit
<1>3. (\A x \in D : f[x] \in Int) /\ \A x \in T : f[x] \in Int
  OBVIOUS
<1>4. SumFunctionOnSet(g, D) = SumFunctionOnSet(f, D) /\ SumFunctionOnSet(h, T) = SumFunctionOnSet(f, T)
  BY <1>1, <1>3, SumEqual
<1>5. SumFunctionOnSet(f, D) \in Int /\ SumFunctionOnSet(f, T) \in Int
  BY <1>1, <1>3, SumType
<1>6. QED
  BY <1>1, <1>2, <1>4, <1>5

----------------------------------------------------------------------------
(* Indexes *)

IsMap(f) == f = [x \in DOMAIN f |-> f[x]]

\* f maps the key of every pointer in R back to it, and nothing else.
IsIndex(f, R, key) ==
  /\ IsMap(f)
  /\ DOMAIN f = {key[p] : p \in R}
  /\ \A p \in R : f[key[p]] = p

Distinct(R, key) == \A p, q \in R : key[p] = key[q] => p = q

\* What every index is equal to.
LEMMA IndexIs ==
  ASSUME NEW R, NEW key, Distinct(R, key), NEW f, IsIndex(f, R, key)
  PROVE  f = [x \in {key[p] : p \in R} |-> CHOOSE p \in R : key[p] = x]
<1> DEFINE g == [x \in {key[p] : p \in R} |-> CHOOSE p \in R : key[p] = x]
<1>1. ASSUME NEW x \in {key[p] : p \in R} PROVE f[x] = g[x]
  <2>1. PICK p \in R : x = key[p]
    OBVIOUS
  <2>2. f[x] = p
    BY <2>1 DEF IsIndex
  <2>3. g[x] = CHOOSE q \in R : key[q] = x
    OBVIOUS
  <2>4. QED
    BY <2>1, <2>2, <2>3 DEF Distinct
<1> HIDE DEF g
<1>2. f = [x \in {key[p] : p \in R} |-> f[x]] /\ g = [x \in {key[p] : p \in R} |-> g[x]]
  BY DEF IsIndex, IsMap, g
<1>3. QED
  BY <1>1, <1>2 DEF g

\* Deleting the keys of G from an index.
LEMMA RestrictedIndex ==
  ASSUME NEW R, NEW key, Distinct(R, key), NEW f, IsIndex(f, R, key), NEW G, G \subseteq R,
         NEW D, D = {key[p] : p \in G}
  PROVE  IsIndex(Restrict(f, DOMAIN f \ D), R \ G, key)
<1> DEFINE r == Restrict(f, DOMAIN f \ D)
<1>1. DOMAIN r = DOMAIN f \ D /\ (\A x \in DOMAIN f \ D : r[x] = f[x]) /\ IsMap(r)
  BY DEF Restrict, IsMap
<1>2. \A p \in R : key[p] \in D <=> p \in G
  BY DEF Distinct
<1> HIDE DEF r
<1>3. DOMAIN r = {key[p] : p \in R \ G}
  BY <1>1, <1>2 DEF IsIndex
<1>4. ASSUME NEW p \in R \ G PROVE r[key[p]] = p
  <2>1. key[p] \in DOMAIN f \ D
    BY <1>2 DEF IsIndex
  <2>2. QED
    BY <1>1, <2>1 DEF IsIndex
<1>5. QED
  BY <1>1, <1>3, <1>4 DEF IsIndex, r

\* Adding one key to an index.
LEMMA ExtendedIndex ==
  ASSUME NEW R, NEW key, NEW f, IsIndex(f, R, key), NEW p, p \notin R,
         NEW k2, \A q \in R : k2[q] = key[q], k2[p] \notin DOMAIN f,
         NEW g, IsMap(g), \A y : y \in DOMAIN g <=> y \in DOMAIN f \/ y = k2[p],
         NEW Q, \A q : q \in Q <=> q \in R \/ q = p,
         g[k2[p]] = p, \A y \in DOMAIN f : g[y] = f[y]
  PROVE  IsIndex(g, Q, k2)
<1>1. DOMAIN f = {key[q] : q \in R}
  BY DEF IsIndex
<1>2. DOMAIN g = {k2[q] : q \in Q}
  BY <1>1
<1>3. \A q \in Q : g[k2[q]] = q
  BY DEF IsIndex
<1>4. QED
  BY <1>2, <1>3 DEF IsIndex

\* Keys outside R do not matter.
LEMMA SameKeys ==
  ASSUME NEW R, NEW key, NEW k2, \A p \in R : k2[p] = key[p], NEW f, IsIndex(f, R, key)
  PROVE  IsIndex(f, R, k2)
BY DEF IsIndex

LEMMA NoIndex ==
  ASSUME NEW key
  PROVE  IsIndex(EmptyIndex, {}, key)
BY DEF IsIndex, IsMap, EmptyIndex

----------------------------------------------------------------------------
(* The invariant of the slice and its indexes *)

SeqKey == [p \in Ptrs |-> heap[p].seq]
UUIDKey == [p \in Ptrs |-> heap[p].uuid]
IdKey == [p \in Ptrs |-> heap[p].id]

Live == Range(items)

Named == {p \in Live : heap[p].id # NoId}

Ordered == \A i, j \in DOMAIN items : i < j => heap[items[i]].seq < heap[items[j]].seq

KeysDistinct == Distinct(Live, UUIDKey) /\ Distinct(Named, IdKey)

Indexed == IsIndex(bySeq, Live, SeqKey) /\ IsIndex(byUUID, Live, UUIDKey) /\ IsIndex(byID, Named, IdKey)

\* No item has a seq that the cursor has not reached.
SeqsIssued == \A p \in Live : heap[p].seq <= lastSeq

\* The span is set together with the first seq.
Span ==
  /\ \A p \in Live : /\ heap[p].seq = lastSeq => heap[p].uuid = lastUUID
                     /\ heap[p].seq = 1 => heap[p].uuid = firstUUID
  /\ lastSeq = 0 <=> lastUUID = NoUUID
  /\ lastSeq = 0 <=> firstUUID = NoUUID

BufInv == TypeOK /\ Ordered /\ KeysDistinct /\ Indexed /\ SeqsIssued /\ Span

\* The slice as a function.
LEMMA SliceFacts ==
  ASSUME TypeOK
  PROVE  /\ Len(items) \in Nat /\ DOMAIN items = 1..Len(items)
         /\ \A i \in 1..Len(items) : items[i] \in Ptrs /\ items[i] \in Live
         /\ Live \subseteq Ptrs
         /\ \A p \in Live : \E i \in 1..Len(items) : items[i] = p
         /\ \A p \in Ptrs : /\ heap[p].seq \in 1..MaxSeq /\ heap[p].uuid \in UUIDs
                            /\ heap[p].id \in Ids \cup {NoId}
                            /\ SeqKey[p] = heap[p].seq /\ UUIDKey[p] = heap[p].uuid /\ IdKey[p] = heap[p].id
BY DEF TypeOK, Live, Range, SeqKey, UUIDKey, IdKey, Item

\* Order alone keeps the items of the slice, and their seqs, apart.
LEMMA OrderedDistinct ==
  ASSUME TypeOK, Ordered
  PROVE  /\ Distinct(Live, SeqKey)
         /\ \A i, j \in 1..Len(items) : heap[items[i]].seq = heap[items[j]].seq => i = j
<1>1. ASSUME NEW i \in 1..Len(items), NEW j \in 1..Len(items), heap[items[i]].seq = heap[items[j]].seq
      PROVE  i = j
  <2>1. i \in Int /\ j \in Int /\ heap[items[i]].seq \in Int /\ heap[items[j]].seq \in Int
    BY SliceFacts, ScopeBufferConstants
  <2>2. ~ (i < j) /\ ~ (j < i)
    BY <1>1, <2>1, SliceFacts DEF Ordered
  <2>3. QED
    BY <2>1, <2>2
<1>2. ASSUME NEW p \in Live, NEW q \in Live, SeqKey[p] = SeqKey[q]
      PROVE  p = q
  <2>1. PICK i \in 1..Len(items) : items[i] = p
    BY SliceFacts
  <2>2. PICK j \in 1..Len(items) : items[j] = q
    BY SliceFacts
  <2>3. heap[items[i]].seq = heap[items[j]].seq
    BY <1>2, <2>1, <2>2, SliceFacts
  <2>4. QED
    BY <1>1, <2>1, <2>2, <2>3
<1>3. QED
  BY <1>1, <1>2 DEF Distinct

\* The cut that sinceSeq and deleteUpToSeqLocked search for.
LEMMA FirstAfterIs ==
  ASSUME TypeOK, Ordered, NEW n \in Int
  PROVE  /\ FirstAfter(n) \in 1..(Len(items) + 1)
         /\ \A k \in 1..Len(items) : SeqAt(k) > n <=> k >= FirstAfter(n)
<1> DEFINE test == [k \in DOMAIN items |-> SeqAt(k) > n]
<1>1. Len(items) \in Nat /\ DOMAIN test = 1..Len(items)
  BY SliceFacts
<1>2. Len(test) = Len(items)
  BY <1>1
<1>3. \A k \in 1..Len(items) : test[k] <=> SeqAt(k) > n
  BY <1>1
<1>4. \A k \in 1..Len(items) : SeqAt(k) \in Int
  BY SliceFacts, ScopeBufferConstants DEF SeqAt, ItemAt
<1>5. \A i, j \in 1..Len(items) : i < j => SeqAt(i) < SeqAt(j)
  BY SliceFacts DEF Ordered, SeqAt, ItemAt
<1> HIDE DEF test
<1>6. \A i, j \in 1..Len(items) : i < j /\ test[i] => test[j]
  BY <1>3, <1>4, <1>5
<1>7. /\ Search(test) \in 1..(Len(items) + 1)
      /\ \A k \in 1..Len(items) : test[k] <=> k >= Search(test)
  BY <1>1, <1>2, <1>6, SearchSpec
<1>8. FirstAfter(n) = Search(test)
  BY DEF FirstAfter, test
<1>9. QED
  BY <1>3, <1>7, <1>8

\* indexBySeqLocked finds every item of the slice.
LEMMA IndexBySeqIs ==
  ASSUME TypeOK, Ordered, NEW i \in 1..Len(items), NEW n, n = heap[items[i]].seq
  PROVE  IndexBySeq(n) = i
<1> DEFINE test == [k \in DOMAIN items |-> SeqAt(k) >= n]
<1>1. Len(items) \in Nat /\ DOMAIN test = 1..Len(items)
  BY SliceFacts
<1>2. Len(test) = Len(items)
  BY <1>1
<1>3. \A k \in 1..Len(items) : test[k] <=> SeqAt(k) >= n
  BY <1>1
<1>4. n \in Int /\ n = SeqAt(i) /\ \A k \in 1..Len(items) : SeqAt(k) \in Int
  BY SliceFacts, ScopeBufferConstants DEF SeqAt, ItemAt
<1>5. \A k, j \in 1..Len(items) : k < j => SeqAt(k) < SeqAt(j)
  BY SliceFacts DEF Ordered, SeqAt, ItemAt
<1> HIDE DEF test
<1>6. \A k, j \in 1..Len(items) : k < j /\ test[k] => test[j]
  BY <1>3, <1>4, <1>5
<1>7. /\ Search(test) \in 1..(Len(items) + 1)
      /\ \A k \in 1..Len(items) : test[k] <=> k >= Search(test)
  BY <1>1, <1>2, <1>6, SearchSpec
<1>8. i >= Search(test)
  BY <1>3, <1>4, <1>7
<1>9. \A k \in 1..Len(items) : k >= Search(test) => k >= i
  BY <1>3, <1>4, <1>5, <1>7, <1>1
<1>10. Search(test) = i
  BY <1>7, <1>8, <1>9, <1>1
<1>11. IndexBySeq(n) = IF Search(test) > Len(items) THEN 0 ELSE IF SeqAt(Search(test)) # n THEN 0 ELSE Search(test)
  BY DEF IndexBySeq, test
<1>12. QED
  BY <1>1, <1>4, <1>10, <1>11

\* What is found in an index is in the slice, where its seq leads.
LEMMA Located ==
  ASSUME BufInv, NEW p \in Live
  PROVE  /\ IndexBySeq(heap[p].seq) \in 1..Len(items)
         /\ items[IndexBySeq(heap[p].seq)] = p
         /\ p \in Ptrs
<1>1. PICK i \in 1..Len(items) : items[i] = p
  BY SliceFacts DEF BufInv
<1>2. IndexBySeq(heap[p].seq) = i
  BY <1>1, IndexBySeqIs DEF BufInv
<1>3. QED
  BY <1>1, <1>2, SliceFacts DEF BufInv

LEMMA Lookups ==
  ASSUME BufInv
  PROVE  /\ \A n \in DOMAIN bySeq : bySeq[n] \in Live /\ heap[bySeq[n]].seq = n
         /\ \A u \in DOMAIN byUUID : byUUID[u] \in Live /\ heap[byUUID[u]].uuid = u
         /\ \A k \in DOMAIN byID : byID[k] \in Live /\ heap[byID[k]].id = k /\ k # NoId
<1>1. /\ \A n \in DOMAIN bySeq : \E p \in Live : n = SeqKey[p] /\ bySeq[n] = p
      /\ \A n \in DOMAIN byUUID : \E p \in Live : n = UUIDKey[p] /\ byUUID[n] = p
      /\ \A n \in DOMAIN byID : \E p \in Named : n = IdKey[p] /\ byID[n] = p
  BY DEF BufInv, Indexed, IsIndex
<1>2. \A p \in Live : SeqKey[p] = heap[p].seq /\ UUIDKey[p] = heap[p].uuid /\ IdKey[p] = heap[p].id
  BY SliceFacts DEF BufInv
<1>3. \A p \in Named : p \in Live /\ heap[p].id # NoId
  BY DEF Named
<1>4. QED
  BY <1>1, <1>2, <1>3

\* The invariant in the words of the properties.
LEMMA IndexesFromInv == BufInv => IndexesExact
<1> SUFFICES ASSUME BufInv PROVE IndexesExact
  OBVIOUS
<1>0. Distinct(Live, SeqKey)
  BY OrderedDistinct DEF BufInv
<1>f. \A p \in Live : SeqKey[p] = heap[p].seq /\ UUIDKey[p] = heap[p].uuid /\ IdKey[p] = heap[p].id
  BY SliceFacts DEF BufInv
<1>1. \A i, j \in DOMAIN items : i < j => SeqAt(i) < SeqAt(j)
  BY DEF BufInv, Ordered, SeqAt, ItemAt
<1>2. IsInjective(items)
  BY OrderedDistinct, SliceFacts DEF IsInjective, BufInv
<1>3. bySeq = SeqIndex(items)
  <2>1. bySeq = [x \in {SeqKey[p] : p \in Live} |-> CHOOSE p \in Live : SeqKey[p] = x]
    BY <1>0, IndexIs DEF BufInv, Indexed
  <2>2. {SeqKey[p] : p \in Live} = {heap[p].seq : p \in Live}
    BY <1>f
  <2>3. \A x : (CHOOSE p \in Live : SeqKey[p] = x) = (CHOOSE p \in Live : heap[p].seq = x)
    BY <1>f
  <2>4. QED
    BY <2>1, <2>2, <2>3 DEF SeqIndex, Live
<1>4. byUUID = UUIDIndex(items)
  <2>1. byUUID = [x \in {UUIDKey[p] : p \in Live} |-> CHOOSE p \in Live : UUIDKey[p] = x]
    BY IndexIs DEF BufInv, Indexed, KeysDistinct
  <2>2. {UUIDKey[p] : p \in Live} = {heap[p].uuid : p \in Live}
    BY <1>f
  <2>3. \A x : (CHOOSE p \in Live : UUIDKey[p] = x) = (CHOOSE p \in Live : heap[p].uuid = x)
    BY <1>f
  <2>4. QED
    BY <2>1, <2>2, <2>3 DEF UUIDIndex, Live
<1>5. byID = IdIndex(items)
  <2>1. byID = [x \in {IdKey[p] : p \in Named} |-> CHOOSE p \in Named : IdKey[p] = x]
    BY IndexIs DEF BufInv, Indexed, KeysDistinct
  <2>2. {IdKey[p] : p \in Named} = {heap[p].id : p \in Live} \ {NoId}
    BY <1>f DEF Named
  <2>3. ASSUME NEW x \in {heap[p].id : p \in Live} \ {NoId}
        PROVE  (CHOOSE p \in Named : IdKey[p] = x) = (CHOOSE p \in Live : heap[p].id = x)
    <3>1. \A p : p \in Named /\ IdKey[p] = x <=> p \in Live /\ heap[p].id = x
      BY <1>f DEF Named
    <3>2. \A p : p \in Live /\ heap[p].id = x => \A q : q \in Live /\ heap[q].id = x => p = q
      BY <3>1 DEF BufInv, KeysDistinct, Distinct
    <3>3. PICK p \in Live : heap[p].id = x
      OBVIOUS
    <3>4. (CHOOSE q \in Live : heap[q].id = x) = p
      BY <3>2, <3>3
    <3>5. (CHOOSE q \in Named : IdKey[q] = x) = p
      BY <3>1, <3>2, <3>3
    <3>6. QED
      BY <3>4, <3>5
  <2>4. QED
    BY <2>1, <2>2, <2>3 DEF IdIndex, Live
<1>6. ASSUME NEW i \in DOMAIN items, NEW j \in DOMAIN items, i # j
      PROVE  ItemAt(i).uuid # ItemAt(j).uuid /\ (ItemAt(i).id = ItemAt(j).id => ItemAt(i).id = NoId)
  <2>1. items[i] \in Live /\ items[j] \in Live /\ items[i] # items[j]
    BY <1>2, <1>6, SliceFacts DEF IsInjective, BufInv
  <2>2. QED
    BY <2>1, <1>f DEF BufInv, KeysDistinct, Distinct, Named, ItemAt
<1>7. SpanOfUUIDs
  BY Lookups DEF BufInv, Span, SpanOfUUIDs
<1>8. QED
  BY <1>1, <1>2, <1>3, <1>4, <1>5, <1>6, <1>7 DEF IndexesExact, IndexesAgree

----------------------------------------------------------------------------
(* Steps *)

\* What items are charged.
LEMMA SizeTypes ==
  /\ \A id \in Ids \cup {NoId} : IdBytes(id) \in Nat
  /\ \A payload \in Payloads : ContentBytes(payload, NoCell) = PayloadLen[payload]
  /\ \A payload \in Payloads : ContentBytes(payload, NoCell) \in Nat
  /\ \A payload : \A counter \in Int : ContentBytes(payload, counter) = CounterCellOverhead
  /\ ItemBase \in Nat /\ CounterCellOverhead \in Nat
<1>1. \A id \in Ids \cup {NoId} : IdBytes(id) \in Nat
  BY ScopeBufferConstants DEF IdBytes
<1>2. /\ \A payload \in Payloads : ContentBytes(payload, NoCell) = PayloadLen[payload]
      /\ \A payload \in Payloads : ContentBytes(payload, NoCell) \in Nat
  BY ScopeBufferConstants DEF ContentBytes
<1>3. \A payload : \A counter \in Int : ContentBytes(payload, counter) = CounterCellOverhead
  BY CounterInputs DEF ContentBytes
<1>4. ItemBase \in Nat /\ CounterCellOverhead \in Nat
  BY ScopeBufferConstants
<1>5. QED
  BY <1>1, <1>2, <1>3, <1>4

\* Indexes of live items have live keys and live values.
LEMMA IndexTypes ==
  ASSUME heap' \in [Ptrs -> Item], items' \in Seq(Ptrs), Indexed'
  PROVE  /\ \A f \in {byID', bySeq', byUUID'} : Range(f) \subseteq Ptrs
         /\ DOMAIN byID' \subseteq Ids /\ DOMAIN bySeq' \subseteq 1..MaxSeq /\ DOMAIN byUUID' \subseteq UUIDs
<1>1. Live' \subseteq Ptrs /\ Named' \subseteq Live' /\ \A p \in Named' : heap'[p].id # NoId
  BY DEF Live, Named, Range
<1>2. \A p \in Live' : /\ heap'[p].seq \in 1..MaxSeq /\ heap'[p].uuid \in UUIDs
                       /\ heap'[p].id \in Ids \cup {NoId}
                       /\ SeqKey'[p] = heap'[p].seq /\ UUIDKey'[p] = heap'[p].uuid /\ IdKey'[p] = heap'[p].id
  BY <1>1 DEF Item, SeqKey, UUIDKey, IdKey
<1>3. ASSUME NEW f, NEW R, NEW key, R \subseteq Ptrs, IsIndex(f, R, key)
      PROVE  Range(f) \subseteq Ptrs
  BY <1>3 DEF IsIndex, Range
<1>4. Range(byID') \subseteq Ptrs /\ Range(bySeq') \subseteq Ptrs /\ Range(byUUID') \subseteq Ptrs
  BY <1>1, <1>3 DEF Indexed
<1>d. /\ DOMAIN bySeq' = {SeqKey'[p] : p \in Live'}
      /\ DOMAIN byUUID' = {UUIDKey'[p] : p \in Live'}
      /\ DOMAIN byID' = {IdKey'[p] : p \in Named'}
  BY DEF Indexed, IsIndex
<1>5. DOMAIN bySeq' \subseteq 1..MaxSeq
  BY <1>2, <1>d
<1>8. DOMAIN byUUID' \subseteq UUIDs
  BY <1>2, <1>d
<1>6. ASSUME NEW k \in DOMAIN byID' PROVE k \in Ids
  <2>1. PICK p \in Named' : k = IdKey'[p]
    BY <1>d
  <2>2. QED
    BY <2>1, <1>1, <1>2
<1>7. QED
  BY <1>4, <1>5, <1>6, <1>8

\* Steps that overwrite items in place, leaving their keys alone.
LEMMA KeepsKeys ==
  ASSUME BufInv,
         UNCHANGED <<items, byID, bySeq, byUUID, lastSeq, firstUUID, lastUUID, idKeyBytes, capacity>>,
         heap' \in [Ptrs -> Item], bytes' \in Int,
         \A p \in Ptrs : heap'[p].seq = heap[p].seq /\ heap'[p].uuid = heap[p].uuid /\ heap'[p].id = heap[p].id
  PROVE  BufInv'
<1>1. /\ Live' = Live /\ Named' = Named /\ SeqKey' = SeqKey /\ UUIDKey' = UUIDKey /\ IdKey' = IdKey
      /\ Live \subseteq Ptrs
  BY SliceFacts DEF BufInv, Live, Named, SeqKey, UUIDKey, IdKey
<1>2. Indexed' /\ KeysDistinct'
  BY <1>1 DEF BufInv, Indexed, KeysDistinct
<1>3. Ordered'
  BY SliceFacts DEF BufInv, Ordered
<1>4. SeqsIssued' /\ Span'
  BY <1>1 DEF BufInv, SeqsIssued, Span
<1>5. TypeOK'
  BY DEF BufInv, TypeOK
<1>6. QED
  BY <1>2, <1>3, <1>4, <1>5 DEF BufInv

\* There is an unused pointer for every seq that is still to come.
LEMMA NewPtrIs ==
  ASSUME BufInv, lastSeq < MaxSeq
  PROVE  NewPtr \in Ptrs /\ NewPtr \notin Live
<1>0. TypeOK /\ Ordered /\ SeqsIssued /\ Live \subseteq Ptrs
  BY SliceFacts DEF BufInv
<1>1. lastSeq \in Nat /\ IsFiniteSet(1..lastSeq) /\ Cardinality(1..lastSeq) = lastSeq
  <2>1. lastSeq \in Nat
    BY <1>0 DEF TypeOK
  <2>2. QED
    BY <2>1, FS_Interval
<1>2. \E g : g \in Injection(Live, 1..lastSeq)
  <2> DEFINE g == [p \in Live |-> heap[p].seq]
  <2>1. \A p \in Live : g[p] = SeqKey[p] /\ g[p] \in 1..lastSeq
    BY <1>0, <1>1, SliceFacts DEF SeqsIssued
  <2>2. \A p, q \in Live : g[p] = g[q] => p = q
    BY <1>0, <2>1, OrderedDistinct DEF Distinct
  <2>3. g \in Injection(Live, 1..lastSeq)
    BY <2>1, <2>2 DEF Injection, IsInjective
  <2>4. QED
    BY <2>3
<1>3. Cardinality(Live) <= lastSeq
  BY <1>1, <1>2, FS_Injection
<1>4. Live # Ptrs
  <2>1. MaxSeq <= Cardinality(Ptrs) /\ Cardinality(Ptrs) \in Nat
    BY PtrRoom, FS_CardinalityType
  <2>2. QED
    BY <1>1, <1>3, <2>1, ScopeBufferConstants
<1>5. \E p \in Ptrs : p \notin Range(items)
  BY <1>0, <1>4 DEF Live
<1>6. QED
  BY <1>5 DEF NewPtr, Live

LEMMA InsertKeeps ==
  ASSUME BufInv, NEW id \in Ids \cup {NoId}, NEW payload \in Payloads \cup {NoPayload},
         NEW counter \in Int \cup {NoCell}, NEW u \in FreshUUIDs, id \notin DOMAIN byID,
         counter = NoCell => payload \in Payloads,
         Insert(id, payload, counter, u)
  PROVE  /\ BufInv'
         /\ NewPtr \in Ptrs \ Live /\ Live' = Live \cup {NewPtr}
         /\ heap' = [heap EXCEPT ![NewPtr] =
              [id |-> id, uuid |-> u, seq |-> lastSeq + 1, payload |-> payload, counter |-> counter]]
<1>0. TypeOK /\ Ordered /\ KeysDistinct /\ Indexed /\ SeqsIssued /\ Span /\ Live \subseteq Ptrs
  BY SliceFacts DEF BufInv
<1> DEFINE it == [id |-> id, uuid |-> u, seq |-> lastSeq + 1, payload |-> payload, counter |-> counter]
<1>p. PICK p : p = NewPtr
  OBVIOUS
<1>h. lastSeq < MaxSeq /\ heap' = [heap EXCEPT ![p] = it] /\ items' = Append(items, p)
  BY <1>p DEF Insert
<1>s. bySeq' = [n \in DOMAIN bySeq \cup {lastSeq + 1} |-> IF n = lastSeq + 1 THEN p ELSE bySeq[n]]
  BY <1>p DEF Insert
<1>i. byID' = IF id = NoId THEN byID
              ELSE [k \in DOMAIN byID \cup {id} |-> IF k = id THEN p ELSE byID[k]]
  BY <1>p DEF Insert
<1>u. byUUID' = [k \in DOMAIN byUUID \cup {u} |-> IF k = u THEN p ELSE byUUID[k]]
  BY <1>p DEF Insert
<1>l. /\ lastSeq' = lastSeq + 1
      /\ firstUUID' = IF firstUUID = NoUUID THEN u ELSE firstUUID
      /\ lastUUID' = u
  BY <1>p DEF Insert, NewLast
<1>b. bytes' = bytes + ApproxItemSize(it) /\ idKeyBytes' = idKeyBytes + IdBytes(id) /\ capacity' = Grown
  BY <1>p DEF Insert
<1>2. p \in Ptrs /\ p \notin Live
  BY <1>h, <1>p, NewPtrIs
<1>3. lastSeq \in Nat /\ lastSeq + 1 \in 1..MaxSeq /\ u \in UUIDs /\ u \notin DOMAIN byUUID
  <2>1. lastSeq \in 0..MaxSeq
    BY <1>0 DEF TypeOK
  <2>2. QED
    BY <2>1, <1>h, ScopeBufferConstants DEF FreshUUIDs
<1>4. it \in Item /\ it.seq = lastSeq + 1 /\ it.uuid = u /\ it.id = id
  BY <1>3 DEF Item
<1> HIDE DEF it
<1>5. /\ heap' \in [Ptrs -> Item] /\ heap'[p] = it
      /\ \A q \in Ptrs : q # p => heap'[q] = heap[q]
  <2>1. heap \in [Ptrs -> Item]
    BY <1>0 DEF TypeOK
  <2>2. QED
    BY <2>1, <1>h, <1>2, <1>4
<1>6. /\ items' \in Seq(Ptrs) /\ Len(items') = Len(items) + 1 /\ Len(items) \in Nat
      /\ DOMAIN items' = 1..(Len(items) + 1)
      /\ \A i \in 1..Len(items) : items'[i] = items[i]
      /\ items'[Len(items) + 1] = p
  <2>1. items \in Seq(Ptrs)
    BY <1>0 DEF TypeOK
  <2>2. QED
    BY <2>1, <1>h, <1>2, AppendProperties, LenProperties
<1>7. Live' = Live \cup {p}
  <2>1. Live' = {items'[i] : i \in 1..(Len(items) + 1)}
    BY <1>6 DEF Live, Range
  <2>2. Live = {items[i] : i \in 1..Len(items)}
    BY <1>0, SliceFacts DEF Live, Range
  <2>3. ASSUME NEW x \in Live' PROVE x \in Live \cup {p}
    BY <2>1, <2>2, <1>6
  <2>4. ASSUME NEW x \in Live PROVE x \in Live'
    <3>1. PICK i \in 1..Len(items) : x = items[i]
      BY <2>2
    <3>2. i \in 1..(Len(items) + 1) /\ items'[i] = x
      BY <3>1, <1>6
    <3>3. QED
      BY <3>2, <2>1
  <2>5. Len(items) + 1 \in 1..(Len(items) + 1)
    BY <1>6
  <2>6. p \in Live'
    BY <2>1, <2>5, <1>6
  <2>7. QED
    BY <2>3, <2>4, <2>6
<1>8. /\ \A q \in Live : SeqKey'[q] = SeqKey[q] /\ UUIDKey'[q] = UUIDKey[q] /\ IdKey'[q] = IdKey[q]
      /\ SeqKey'[p] = lastSeq + 1 /\ UUIDKey'[p] = u /\ IdKey'[p] = id
  <2>1. \A q \in Ptrs : /\ SeqKey'[q] = heap'[q].seq /\ UUIDKey'[q] = heap'[q].uuid /\ IdKey'[q] = heap'[q].id
                        /\ SeqKey[q] = heap[q].seq /\ UUIDKey[q] = heap[q].uuid /\ IdKey[q] = heap[q].id
    BY DEF SeqKey, UUIDKey, IdKey
  <2>2. SeqKey'[p] = lastSeq + 1 /\ UUIDKey'[p] = u /\ IdKey'[p] = id
    BY <2>1, <1>2, <1>4, <1>5
  <2>3. ASSUME NEW q \in Live
        PROVE  SeqKey'[q] = SeqKey[q] /\ UUIDKey'[q] = UUIDKey[q] /\ IdKey'[q] = IdKey[q]
    <3>1. q \in Ptrs /\ heap'[q] = heap[q]
      BY <1>0, <1>2, <1>5
    <3>2. QED
      BY <2>1, <3>1
  <2>4. QED
    BY <2>2, <2>3
<1>9. lastSeq + 1 \notin DOMAIN bySeq
  <2>1. \A q \in Live : heap[q].seq \in Int /\ heap[q].seq <= lastSeq /\ SeqKey[q] = heap[q].seq
    BY <1>0, SliceFacts DEF SeqsIssued
  <2>2. DOMAIN bySeq = {SeqKey[q] : q \in Live}
    BY <1>0 DEF Indexed, IsIndex
  <2>3. QED
    BY <2>1, <2>2, <1>3
<1>10. IsIndex(bySeq', Live', SeqKey')
  <2>1. IsIndex(bySeq, Live, SeqKey) /\ SeqKey'[p] \notin DOMAIN bySeq
    BY <1>0, <1>8, <1>9 DEF Indexed
  <2>2. \A q \in Live : SeqKey'[q] = SeqKey[q]
    BY <1>8
  <2>3. /\ IsMap(bySeq') /\ \A y : y \in DOMAIN bySeq' <=> y \in DOMAIN bySeq \/ y = SeqKey'[p]
        /\ bySeq'[SeqKey'[p]] = p /\ \A y \in DOMAIN bySeq : bySeq'[y] = bySeq[y]
    BY <2>1, <1>s, <1>8 DEF IsMap
  <2>4. p \notin Live /\ \A q : q \in Live' <=> q \in Live \/ q = p
    BY <1>2, <1>7
  <2>5. QED
    BY <2>1, <2>2, <2>3, <2>4, ExtendedIndex
<1>11. IsIndex(byUUID', Live', UUIDKey')
  <2>1. IsIndex(byUUID, Live, UUIDKey) /\ UUIDKey'[p] \notin DOMAIN byUUID
    BY <1>0, <1>8, <1>3 DEF Indexed
  <2>2. \A q \in Live : UUIDKey'[q] = UUIDKey[q]
    BY <1>8
  <2>3. /\ IsMap(byUUID') /\ \A y : y \in DOMAIN byUUID' <=> y \in DOMAIN byUUID \/ y = UUIDKey'[p]
        /\ byUUID'[UUIDKey'[p]] = p /\ \A y \in DOMAIN byUUID : byUUID'[y] = byUUID[y]
    BY <2>1, <1>u, <1>8 DEF IsMap
  <2>4. p \notin Live /\ \A q : q \in Live' <=> q \in Live \/ q = p
    BY <1>2, <1>7
  <2>5. QED
    BY <2>1, <2>2, <2>3, <2>4, ExtendedIndex
<1>12. Named' = IF id = NoId THEN Named ELSE Named \cup {p}
  BY <1>0, <1>2, <1>4, <1>5, <1>7 DEF Named
<1>n. Named \subseteq Live
  BY DEF Named
<1>13. IsIndex(byID', Named', IdKey')
  <2>0. IsIndex(byID, Named, IdKey) /\ p \notin Named /\ \A q \in Named : IdKey'[q] = IdKey[q]
    BY <1>0, <1>2, <1>8, <1>n DEF Indexed
  <2>1. CASE id = NoId
    BY <2>0, <2>1, <1>i, <1>12, SameKeys
  <2>2. CASE id # NoId
    <3>1. IdKey'[p] \notin DOMAIN byID
      BY <1>8
    <3>2. byID' = [k \in DOMAIN byID \cup {id} |-> IF k = id THEN p ELSE byID[k]] /\ Named' = Named \cup {p}
      BY <2>2, <1>i, <1>12
    <3>3. /\ IsMap(byID') /\ \A y : y \in DOMAIN byID' <=> y \in DOMAIN byID \/ y = IdKey'[p]
          /\ byID'[IdKey'[p]] = p /\ \A y \in DOMAIN byID : byID'[y] = byID[y]
      BY <3>1, <3>2, <1>8 DEF IsMap
    <3>4. \A q : q \in Named' <=> q \in Named \/ q = p
      BY <3>2
    <3>5. QED
      BY <2>0, <3>1, <3>3, <3>4, ExtendedIndex
  <2>3. QED
    BY <2>1, <2>2
<1>14. KeysDistinct'
  <2>1. Distinct(Live', UUIDKey')
    <3>1. \A q \in Live : UUIDKey'[q] # u
      BY <1>0, <1>3, <1>8 DEF Indexed, IsIndex
    <3>2. QED
      BY <3>1, <1>0, <1>7, <1>8 DEF KeysDistinct, Distinct
  <2>2. Distinct(Named', IdKey')
    <3>1. \A q \in Named : IdKey'[q] # id
      BY <1>0, <1>8, <1>n DEF Indexed, IsIndex
    <3>2. QED
      BY <3>1, <1>0, <1>12, <1>8, <1>n DEF KeysDistinct, Distinct
  <2>3. QED
    BY <2>1, <2>2 DEF KeysDistinct
<1>15. Ordered'
  <2> SUFFICES ASSUME NEW i \in DOMAIN items', NEW j \in DOMAIN items', i < j
               PROVE  heap'[items'[i]].seq < heap'[items'[j]].seq
    BY DEF Ordered
  <2>1. i \in 1..Len(items)
    BY <1>6
  <2>2. items'[i] = items[i] /\ items[i] \in Live /\ heap'[items[i]] = heap[items[i]]
    BY <2>1, <1>0, <1>2, <1>5, <1>6, SliceFacts
  <2>3. CASE j \in 1..Len(items)
    <3>1. items'[j] = items[j] /\ items[j] \in Live /\ heap'[items[j]] = heap[items[j]]
      BY <2>3, <1>0, <1>2, <1>5, <1>6, SliceFacts
    <3>2. QED
      BY <2>1, <2>2, <2>3, <3>1, <1>0, SliceFacts DEF Ordered
  <2>4. CASE j = Len(items) + 1
    <3>1. heap'[items'[j]].seq = lastSeq + 1
      BY <2>4, <1>4, <1>5, <1>6
    <3>2. heap[items[i]].seq <= lastSeq /\ heap[items[i]].seq \in Int
      BY <2>2, <1>0, SliceFacts DEF SeqsIssued
    <3>3. QED
      BY <2>2, <3>1, <3>2, <1>3
  <2>5. QED
    BY <2>3, <2>4, <1>6
<1>16. SeqsIssued'
  <2>1. \A q \in Live : heap'[q] = heap[q] /\ heap[q].seq <= lastSeq /\ heap[q].seq \in Int
    BY <1>0, <1>2, <1>5, SliceFacts DEF SeqsIssued
  <2>2. QED
    BY <2>1, <1>l, <1>3, <1>4, <1>5, <1>7 DEF SeqsIssued
<1>17. Span'
  <2>1. \A q \in Live : heap'[q] = heap[q] /\ heap[q].seq <= lastSeq /\ heap[q].seq \in Int
                        /\ (heap[q].seq = 1 => heap[q].uuid = firstUUID) /\ lastSeq # 0
    BY <1>0, <1>2, <1>3, <1>5, SliceFacts DEF SeqsIssued, Span
  <2>2. heap'[p].seq = lastSeq + 1 /\ heap'[p].uuid = u /\ u # NoUUID
    BY <1>3, <1>4, <1>5, ScopeBufferConstants
  <2>3. lastSeq = 0 <=> firstUUID = NoUUID
    BY <1>0 DEF Span
  <2>4. lastSeq' = lastSeq + 1 /\ lastSeq' # 0 /\ lastUUID' = u /\ firstUUID' = IF firstUUID = NoUUID THEN u ELSE firstUUID
    BY <1>l, <1>3
  <2>5. \A q \in Live' : /\ heap'[q].seq = lastSeq' => heap'[q].uuid = lastUUID'
                         /\ heap'[q].seq = 1 => heap'[q].uuid = firstUUID'
    <3> SUFFICES ASSUME NEW q \in Live'
                 PROVE  /\ heap'[q].seq = lastSeq' => heap'[q].uuid = lastUUID'
                        /\ heap'[q].seq = 1 => heap'[q].uuid = firstUUID'
      OBVIOUS
    <3>1. CASE q \in Live
      BY <3>1, <2>1, <2>3, <2>4, <1>3
    <3>2. CASE q = p
      BY <3>2, <2>2, <2>3, <2>4, <1>3
    <3>3. QED
      BY <3>1, <3>2, <1>7
  <2>6. QED
    BY <2>2, <2>4, <2>5, <2>3 DEF Span
<1>18. TypeOK'
  <2>1. Indexed'
    BY <1>10, <1>11, <1>13 DEF Indexed
  <2>2. capacity' \in Nat /\ Len(items') <= capacity'
    <3>1. capacity \in Nat /\ Len(items) <= capacity
      BY <1>0 DEF TypeOK
    <3>2. QED
      BY <3>1, <1>b, <1>6 DEF Grown
  <2>3. bytes' \in Int /\ idKeyBytes' \in Int
    <3>1. IdBytes(id) \in Nat
      BY SizeTypes
    <3>2. ContentBytes(payload, counter) \in Nat
      BY SizeTypes
    <3>3. ApproxItemSize(it) \in Nat
      BY <3>1, <3>2, SizeTypes DEF ApproxItemSize, it
    <3>4. bytes \in Int /\ idKeyBytes \in Int
      BY <1>0 DEF TypeOK
    <3>5. QED
      BY <3>1, <3>3, <3>4, <1>b
  <2>4. lastSeq' \in 0..MaxSeq /\ {firstUUID', lastUUID'} \subseteq UUIDs \cup {NoUUID}
    BY <1>0, <1>l, <1>3 DEF TypeOK
  <2>5. QED
    BY <2>1, <2>2, <2>3, <2>4, <1>5, <1>6, IndexTypes DEF TypeOK
<1>19. QED
  BY <1>p, <1>h, <1>2, <1>7, <1>10, <1>11, <1>13, <1>14, <1>15, <1>16, <1>17, <1>18 DEF BufInv, Indexed, it

\* The limits single requests are checked against, of a stored item.
Sound(it) ==
  /\ it.counter # NoCell <=> it.payload = NoPayload
  /\ it.counter # NoCell => it.counter \in -MaxCounterValue..MaxCounterValue
  /\ ApproxItemSize(it) <= MaxItemBytes

LimitInv == \A p \in Live : Sound(heap[p])

LEMMA LimitsFromInv == BufInv /\ LimitInv => ItemsWithinLimits
BY SliceFacts DEF BufInv, LimitInv, Sound, ItemsWithinLimits, ItemsWithinCap, CountersInRange, ItemAt

\* The size of a sound item.
LEMMA SoundSize ==
  ASSUME NEW it \in Item, Sound(it)
  PROVE  ApproxItemSize(it) \in Nat /\ ContentBytes(it.payload, it.counter) \in Nat
<1>1. it.id \in Ids \cup {NoId} /\ it.payload \in Payloads \cup {NoPayload} /\ it.counter \in Int \cup {NoCell}
  BY DEF Item
<1>2. ContentBytes(it.payload, it.counter) \in Nat
  <2>1. CASE it.counter = NoCell
    BY <1>1, <2>1, SizeTypes DEF Sound
  <2>2. CASE it.counter \in Int
    BY <2>2, SizeTypes
  <2>3. QED
    BY <1>1, <2>1, <2>2
<1>3. QED
  BY <1>1, <1>2, SizeTypes DEF ApproxItemSize

\* Steps that overwrite one live item with another of the same keys.
LEMMA OverwriteKeeps ==
  ASSUME BufInv, LimitInv, NEW p \in Live, NEW it \in Item, Sound(it),
         it.id = heap[p].id, it.uuid = heap[p].uuid, it.seq = heap[p].seq,
         heap' = [heap EXCEPT ![p] = it], bytes' \in Int,
         UNCHANGED <<items, byID, bySeq, byUUID, lastSeq, firstUUID, lastUUID, idKeyBytes, capacity>>
  PROVE  BufInv' /\ LimitInv'
<1>0. TypeOK /\ Live \subseteq Ptrs /\ p \in Ptrs
  BY SliceFacts DEF BufInv
<1>1. heap' \in [Ptrs -> Item] /\ heap'[p] = it /\ \A q \in Ptrs : q # p => heap'[q] = heap[q]
  BY <1>0 DEF TypeOK
<1>2. \A q \in Ptrs : heap'[q].seq = heap[q].seq /\ heap'[q].uuid = heap[q].uuid /\ heap'[q].id = heap[q].id
  BY <1>1
<1>3. BufInv'
  BY <1>1, <1>2, KeepsKeys
<1>4. Live' = Live
  BY DEF Live
<1>5. LimitInv'
  <2>1. ASSUME NEW q \in Live PROVE Sound(heap'[q])
    <3>1. CASE q = p
      BY <3>1, <1>1
    <3>2. CASE q # p
      BY <3>2, <1>0, <1>1 DEF LimitInv
    <3>3. QED
      BY <3>1, <3>2
  <2>2. QED
    BY <2>1, <1>4 DEF LimitInv, Sound, ApproxItemSize
<1>6. QED
  BY <1>3, <1>5

LEMMA RewrittenItem ==
  ASSUME NEW old \in Item, NEW payload, NEW counter
  PROVE  [old EXCEPT !.payload = payload, !.counter = counter]
           = [id |-> old.id, uuid |-> old.uuid, seq |-> old.seq, payload |-> payload, counter |-> counter]
<1>1. PICK r : r = [old EXCEPT !.payload = payload]
  OBVIOUS
<1>2. r = [id |-> old.id, uuid |-> old.uuid, seq |-> old.seq, payload |-> payload, counter |-> old.counter]
  BY <1>1 DEF Item
<1>3. [r EXCEPT !.counter = counter]
        = [id |-> old.id, uuid |-> old.uuid, seq |-> old.seq, payload |-> payload, counter |-> counter]
  BY <1>2
<1>4. QED
  BY <1>1, <1>3

\* replaceItemAtIndexLocked overwrites the item its caller found.
LEMMA ReplaceIs ==
  ASSUME BufInv, LimitInv, NEW p \in Live, NEW payload \in Payloads \cup {NoPayload},
         NEW counter \in Int \cup {NoCell}, counter # NoCell <=> payload = NoPayload,
         counter # NoCell => counter \in -MaxCounterValue..MaxCounterValue,
         ItemBase + IdBytes(heap[p].id) + ContentBytes(payload, counter) <= MaxItemBytes,
         ReplaceItem(p, payload, counter)
  PROVE  \E it \in Item :
           /\ Sound(it) /\ it.id = heap[p].id /\ it.uuid = heap[p].uuid /\ it.seq = heap[p].seq
           /\ heap' = [heap EXCEPT ![p] = it]
           /\ bytes' = bytes - ApproxItemSize(heap[p]) + ApproxItemSize(it) /\ bytes' \in Int
           /\ bytes' <= bytes \/ bytes' <= Budget
           /\ UNCHANGED <<items, byID, bySeq, byUUID, lastSeq, firstUUID, lastUUID, idKeyBytes, capacity>>
<1> DEFINE old == heap[p]
           it == [id |-> old.id, uuid |-> old.uuid, seq |-> old.seq, payload |-> payload, counter |-> counter]
<1>0. p \in Ptrs /\ items[IndexBySeq(heap[p].seq)] = p /\ heap \in [Ptrs -> Item] /\ bytes \in Int
  BY Located DEF BufInv, TypeOK
<1>1. old \in Item /\ Sound(old)
  BY <1>0 DEF LimitInv
<1>2. it \in Item
  BY <1>1 DEF Item
<1>3. [old EXCEPT !.payload = payload, !.counter = counter] = it
  BY <1>1, RewrittenItem
<1>4. /\ Reserves(ContentBytes(payload, counter) - ContentBytes(old.payload, old.counter))
      /\ heap' = [heap EXCEPT ![p] = it]
      /\ bytes' = bytes + (ContentBytes(payload, counter) - ContentBytes(old.payload, old.counter))
      /\ UNCHANGED <<items, byID, bySeq, byUUID, lastSeq, firstUUID, lastUUID, idKeyBytes, capacity>>
  BY <1>0, <1>3 DEF ReplaceItem, Identity, ContentDelta
<1>5. /\ it.id = heap[p].id /\ it.uuid = heap[p].uuid /\ it.seq = heap[p].seq
      /\ it.payload = payload /\ it.counter = counter
  OBVIOUS
<1>6. ApproxItemSize(it) = ItemBase + IdBytes(heap[p].id) + ContentBytes(payload, counter)
  BY DEF ApproxItemSize
<1>7. Sound(it)
  BY <1>5, <1>6 DEF Sound
<1> HIDE DEF it
<1>8. ApproxItemSize(heap[p]) = ItemBase + IdBytes(heap[p].id) + ContentBytes(old.payload, old.counter)
  BY DEF ApproxItemSize
<1>9. /\ ContentBytes(payload, counter) \in Nat /\ ContentBytes(old.payload, old.counter) \in Nat
      /\ IdBytes(heap[p].id) \in Nat /\ ItemBase \in Nat
  <2>1. old.id \in Ids \cup {NoId}
    BY <1>1 DEF Item
  <2>2. QED
    BY <2>1, <1>1, <1>2, <1>5, <1>7, SoundSize, SizeTypes
<1>10. bytes' = bytes - ApproxItemSize(heap[p]) + ApproxItemSize(it) /\ bytes' \in Int
  BY <1>0, <1>4, <1>6, <1>8, <1>9
<1>11. bytes' <= bytes \/ bytes' <= Budget
  BY <1>0, <1>4, <1>9 DEF Reserves
<1>12. QED
  BY <1>2, <1>4, <1>5, <1>7, <1>10, <1>11

\* An increment overwrites a counter with one of the same size.
LEMMA IncrementIs ==
  ASSUME BufInv, LimitInv, NEW id \in DOMAIN byID, NEW by \in Increments, CounterIncrement(id, by)
  PROVE  \E it \in Item :
           /\ Sound(it) /\ it.id = heap[byID[id]].id /\ it.uuid = heap[byID[id]].uuid
           /\ it.seq = heap[byID[id]].seq
           /\ heap' = [heap EXCEPT ![byID[id]] = it]
           /\ bytes' = bytes - ApproxItemSize(heap[byID[id]]) + ApproxItemSize(it) /\ bytes' \in Int
           /\ bytes' <= bytes \/ bytes' <= Budget
           /\ UNCHANGED <<items, byID, bySeq, byUUID, lastSeq, firstUUID, lastUUID, idKeyBytes, capacity>>
<1>p. PICK p \in Live : p = byID[id]
  BY Lookups
<1> DEFINE old == heap[p]
           it == [id |-> old.id, uuid |-> old.uuid, seq |-> old.seq, payload |-> old.payload,
                  counter |-> old.counter + by]
<1>0. p \in Ptrs /\ heap \in [Ptrs -> Item] /\ bytes \in Int
  BY SliceFacts DEF BufInv, TypeOK
<1>1. old \in Item /\ Sound(old)
  BY <1>0 DEF LimitInv
<1>2. /\ old.counter # NoCell /\ SumInRange(old.counter, by)
      /\ heap' = [heap EXCEPT ![p].counter = old.counter + by]
      /\ UNCHANGED <<items, byID, bySeq, byUUID, lastSeq, firstUUID, lastUUID, bytes, idKeyBytes, capacity>>
  BY <1>p, <1>0 DEF CounterIncrement
<1>3. old.counter \in Int /\ by \in Int
  BY <1>1, <1>2, CounterInputs, ScopeBufferConstants DEF Item
<1>4. it \in Item /\ old.counter + by \in Int
  BY <1>1, <1>3 DEF Item
<1>5. [old EXCEPT !.counter = old.counter + by] = it
  BY <1>1 DEF Item
<1>6. heap' = [heap EXCEPT ![p] = it]
  BY <1>2, <1>5, <1>0
<1>7. /\ it.id = old.id /\ it.uuid = old.uuid /\ it.seq = old.seq /\ it.payload = old.payload
      /\ it.counter = old.counter + by
  OBVIOUS
<1>8. ContentBytes(it.payload, it.counter) = ContentBytes(old.payload, old.counter)
  BY <1>3, <1>4, <1>7, SizeTypes
<1>9. ApproxItemSize(it) = ApproxItemSize(old)
  BY <1>7, <1>8 DEF ApproxItemSize
<1>10. Sound(it)
  <2>1. it.counter # NoCell
    BY <1>4, <1>7, CounterInputs
  <2>2. QED
    BY <2>1, <1>1, <1>2, <1>7, <1>9 DEF Sound, SumInRange
<1>11. bytes' = bytes - ApproxItemSize(old) + ApproxItemSize(it) /\ bytes' \in Int /\ bytes' <= bytes
  <2>1. ApproxItemSize(old) \in Nat
    BY <1>1, SoundSize
  <2>2. QED
    BY <2>1, <1>0, <1>2, <1>9
<1> HIDE DEF it
<1>12. QED
  BY <1>p, <1>2, <1>4, <1>6, <1>7, <1>10, <1>11

\* Deletes take a set of pointers out of the slice and keep the order of the rest.
LEMMA ThinnedKeeps ==
  ASSUME BufInv, LimitInv, NEW gone,
         items' \in Seq(Ptrs), \A p : p \in Live' <=> p \in Live /\ p \notin gone,
         NEW e, \A i \in 1..Len(items') : e[i] \in 1..Len(items) /\ items'[i] = items[e[i]],
         \A i, j \in 1..Len(items') : i < j => e[i] < e[j],
         Indexed', UNCHANGED <<heap, lastSeq, firstUUID, lastUUID>>,
         capacity' \in Nat, Len(items') <= capacity', bytes' \in Int, idKeyBytes' \in Int
  PROVE  BufInv' /\ LimitInv'
<1>0. TypeOK /\ Ordered /\ KeysDistinct /\ SeqsIssued /\ Span /\ Live \subseteq Ptrs
  BY SliceFacts DEF BufInv
<1>1. /\ \A p \in Live' : p \in Live
      /\ \A p \in Named' : p \in Named
      /\ UUIDKey' = UUIDKey /\ IdKey' = IdKey
  BY DEF Named, UUIDKey, IdKey
<1>2. KeysDistinct'
  BY <1>0, <1>1 DEF KeysDistinct, Distinct
<1>3. SeqsIssued' /\ Span'
  BY <1>0, <1>1 DEF SeqsIssued, Span
<1>4. Ordered'
  <2>1. DOMAIN items' = 1..Len(items') /\ DOMAIN items = 1..Len(items)
    BY <1>0, SliceFacts, LenProperties
  <2>2. QED
    BY <2>1, <1>0 DEF Ordered
<1>5. TypeOK'
  <2>1. heap' \in [Ptrs -> Item] /\ lastSeq' \in 0..MaxSeq /\ {firstUUID', lastUUID'} \subseteq UUIDs \cup {NoUUID}
    BY <1>0 DEF TypeOK
  <2>2. QED
    BY <2>1, IndexTypes DEF TypeOK
<1>6. LimitInv'
  BY <1>1 DEF LimitInv, Sound, ApproxItemSize
<1>7. QED
  BY <1>2, <1>3, <1>4, <1>5, <1>6 DEF BufInv

\* The indexes of what a delete leaves: entries deleted one by one,
LEMMA UnindexKeeps ==
  ASSUME BufInv, NEW gone, gone \subseteq Live, \A p : p \in Live' <=> p \in Live /\ p \notin gone,
         UNCHANGED heap, Unindex(gone)
  PROVE  Indexed'
<1>0. /\ Distinct(Live, SeqKey) /\ Distinct(Live, UUIDKey) /\ Distinct(Named, IdKey)
      /\ IsIndex(bySeq, Live, SeqKey) /\ IsIndex(byUUID, Live, UUIDKey) /\ IsIndex(byID, Named, IdKey)
  BY OrderedDistinct DEF BufInv, KeysDistinct, Indexed
<1>1. SeqKey' = SeqKey /\ UUIDKey' = UUIDKey /\ IdKey' = IdKey
  BY DEF SeqKey, UUIDKey, IdKey
<1>2. \A p \in gone : SeqKey[p] = heap[p].seq /\ UUIDKey[p] = heap[p].uuid /\ IdKey[p] = heap[p].id
  BY SliceFacts DEF BufInv
<1>3. Live' = Live \ gone
  OBVIOUS
<1>4. IsIndex(bySeq', Live', SeqKey')
  <2>1. {heap[p].seq : p \in gone} = {SeqKey[p] : p \in gone}
    BY <1>2
  <2>2. bySeq' = Restrict(bySeq, DOMAIN bySeq \ {SeqKey[p] : p \in gone})
    BY <2>1 DEF Unindex
  <2>3. QED
    BY <2>2, <1>0, <1>1, <1>3, RestrictedIndex
<1>5. IsIndex(byUUID', Live', UUIDKey')
  <2>1. {heap[p].uuid : p \in gone} = {UUIDKey[p] : p \in gone}
    BY <1>2
  <2>2. byUUID' = Restrict(byUUID, DOMAIN byUUID \ {UUIDKey[p] : p \in gone})
    BY <2>1 DEF Unindex
  <2>3. QED
    BY <2>2, <1>0, <1>1, <1>3, RestrictedIndex
<1>6. IsIndex(byID', Named', IdKey')
  <2> DEFINE N == {p \in gone : heap[p].id # NoId}
  <2>1. N \subseteq Named /\ Named' = Named \ N
    BY <1>3 DEF Named
  <2>2. DOMAIN byID \ {heap[p].id : p \in gone} = DOMAIN byID \ {IdKey[p] : p \in N}
    <3>1. \A k \in DOMAIN byID : k # NoId
      BY Lookups
    <3>2. \A k \in DOMAIN byID : (\E p \in gone : k = heap[p].id) <=> \E p \in N : k = IdKey[p]
      BY <3>1, <1>2
    <3>3. QED
      BY <3>2
  <2>3. byID' = Restrict(byID, DOMAIN byID \ {IdKey[p] : p \in N})
    BY <2>2 DEF Unindex
  <2> HIDE DEF N
  <2>4. QED
    BY <2>1, <2>3, <1>0, <1>1, RestrictedIndex
<1>7. QED
  BY <1>4, <1>5, <1>6 DEF Indexed

\* indexes built anew from the rest,
LEMMA RebuiltKeeps ==
  ASSUME BufInv, items' \in Seq(Ptrs), \A p \in Live' : p \in Live, UNCHANGED heap,
         bySeq' = SeqIndex(items'), byID' = IdIndex(items'), byUUID' = UUIDIndex(items')
  PROVE  Indexed'
<1>0. Distinct(Live, SeqKey) /\ Distinct(Live, UUIDKey) /\ Distinct(Named, IdKey)
  BY OrderedDistinct DEF BufInv, KeysDistinct
<1>1. SeqKey' = SeqKey /\ UUIDKey' = UUIDKey /\ IdKey' = IdKey /\ Live' = Range(items')
  BY DEF SeqKey, UUIDKey, IdKey, Live
<1>2. \A p \in Live' : SeqKey[p] = heap[p].seq /\ UUIDKey[p] = heap[p].uuid /\ IdKey[p] = heap[p].id
  BY SliceFacts DEF BufInv
<1>3. \A p : p \in Named' <=> p \in Live' /\ heap[p].id # NoId
  BY DEF Named
<1>4. Distinct(Live', SeqKey) /\ Distinct(Live', UUIDKey) /\ Distinct(Named', IdKey)
  BY <1>0, <1>3 DEF Distinct, Named
<1>5. IsIndex(bySeq', Live', SeqKey')
  <2>1. bySeq' = [x \in {heap[p].seq : p \in Live'} |-> CHOOSE p \in Live' : heap[p].seq = x]
    BY <1>1 DEF SeqIndex
  <2>2. {heap[p].seq : p \in Live'} = {SeqKey[p] : p \in Live'}
    BY <1>2, <1>3
  <2>3. ASSUME NEW p \in Live' PROVE bySeq'[SeqKey[p]] = p
    <3>1. p \in Live' /\ heap[p].seq = SeqKey[p] /\ SeqKey[p] \in {heap[q].seq : q \in Live'}
      BY <2>2, <1>2, <1>3
    <3>2. bySeq'[SeqKey[p]] = CHOOSE q \in Live' : heap[q].seq = SeqKey[p]
      BY <2>1, <3>1
    <3>3. \A q \in Live' : heap[q].seq = SeqKey[p] => q = p
      BY <3>1, <1>2, <1>3, <1>4 DEF Distinct
    <3>4. QED
      BY <3>1, <3>2, <3>3
  <2>4. IsMap(bySeq') /\ DOMAIN bySeq' = {SeqKey[p] : p \in Live'}
    BY <2>1, <2>2 DEF IsMap
  <2>5. QED
    BY <2>3, <2>4, <1>1 DEF IsIndex
<1>6. IsIndex(byUUID', Live', UUIDKey')
  <2>1. byUUID' = [x \in {heap[p].uuid : p \in Live'} |-> CHOOSE p \in Live' : heap[p].uuid = x]
    BY <1>1 DEF UUIDIndex
  <2>2. {heap[p].uuid : p \in Live'} = {UUIDKey[p] : p \in Live'}
    BY <1>2, <1>3
  <2>3. ASSUME NEW p \in Live' PROVE byUUID'[UUIDKey[p]] = p
    <3>1. p \in Live' /\ heap[p].uuid = UUIDKey[p] /\ UUIDKey[p] \in {heap[q].uuid : q \in Live'}
      BY <2>2, <1>2, <1>3
    <3>2. byUUID'[UUIDKey[p]] = CHOOSE q \in Live' : heap[q].uuid = UUIDKey[p]
      BY <2>1, <3>1
    <3>3. \A q \in Live' : heap[q].uuid = UUIDKey[p] => q = p
      BY <3>1, <1>2, <1>3, <1>4 DEF Distinct
    <3>4. QED
      BY <3>1, <3>2, <3>3
  <2>4. IsMap(byUUID') /\ DOMAIN byUUID' = {UUIDKey[p] : p \in Live'}
    BY <2>1, <2>2 DEF IsMap
  <2>5. QED
    BY <2>3, <2>4, <1>1 DEF IsIndex
<1>7. IsIndex(byID', Named', IdKey')
  <2>1. byID' = [x \in {heap[p].id : p \in Live'} \ {NoId} |-> CHOOSE p \in Live' : heap[p].id = x]
    BY <1>1 DEF IdIndex
  <2>2. {heap[p].id : p \in Live'} \ {NoId} = {IdKey[p] : p \in Named'}
    BY <1>2, <1>3
  <2>3. ASSUME NEW p \in Named' PROVE byID'[IdKey[p]] = p
    <3>1. p \in Live' /\ heap[p].id = IdKey[p] /\ IdKey[p] \in {heap[q].id : q \in Live'} \ {NoId}
      BY <2>2, <1>2, <1>3
    <3>2. byID'[IdKey[p]] = CHOOSE q \in Live' : heap[q].id = IdKey[p]
      BY <2>1, <3>1
    <3>3. \A q \in Live' : heap[q].id = IdKey[p] => q = p
      BY <3>1, <1>2, <1>3, <1>4 DEF Distinct
    <3>4. QED
      BY <3>1, <3>2, <3>3
  <2>4. IsMap(byID') /\ DOMAIN byID' = {IdKey[p] : p \in Named'}
    BY <2>1, <2>2 DEF IsMap
  <2>5. QED
    BY <2>3, <2>4, <1>1 DEF IsIndex
<1>8. QED
  BY <1>5, <1>6, <1>7 DEF Indexed

\* or none, when the slice is empty.
LEMMA ResetKeeps ==
  ASSUME items' = <<>>, ResetIfEmptyLocked
  PROVE  Indexed' /\ idKeyBytes' = 0
<1>1. Live' = {} /\ Named' = {}
  BY DEF Live, Named, Range
<1>2. QED
  BY <1>1, NoIndex DEF ResetIfEmptyLocked, Indexed

\* RemoveAt and the suffix of a slice, item by item.
LEMMA RemoveAtIs ==
  ASSUME TypeOK, NEW i \in 1..Len(items)
  PROVE  /\ RemoveAt(items, i) \in Seq(Ptrs) /\ Len(RemoveAt(items, i)) = Len(items) - 1
         /\ \A j \in 1..(Len(items) - 1) : RemoveAt(items, i)[j] = items[IF j < i THEN j ELSE j + 1]
<1>0. Len(items) \in Nat /\ i \in Nat /\ \A k \in 1..Len(items) : items[k] \in Ptrs
  BY SliceFacts
<1>1. PICK s : s = SubSeq(items, 1, i - 1)
  OBVIOUS
<1>2. PICK t : t = SubSeq(items, i + 1, Len(items))
  OBVIOUS
<1>3. /\ s \in Seq(Ptrs) /\ Len(s) = i - 1
      /\ \A j \in 1..(i - 1) : s[j] = items[j]
  <2>1. 1 \in Int /\ i - 1 \in Int /\ \A k \in 1..(i - 1) : items[k] \in Ptrs
    BY <1>0
  <2>2. /\ s \in Seq(Ptrs) /\ Len(s) = (IF 1 <= i - 1 THEN (i - 1) - 1 + 1 ELSE 0)
        /\ \A j \in 1..((i - 1) - 1 + 1) : s[j] = items[1 + j - 1]
    BY <2>1, <1>1, SubSeqProperties
  <2>3. QED
    BY <2>2, <1>0
<1>4. /\ t \in Seq(Ptrs) /\ Len(t) = Len(items) - i
      /\ \A j \in 1..(Len(items) - i) : t[j] = items[i + j]
  <2>1. i + 1 \in Int /\ Len(items) \in Int /\ \A k \in (i + 1)..Len(items) : items[k] \in Ptrs
    BY <1>0
  <2>2. /\ t \in Seq(Ptrs) /\ Len(t) = (IF i + 1 <= Len(items) THEN Len(items) - (i + 1) + 1 ELSE 0)
        /\ \A j \in 1..(Len(items) - (i + 1) + 1) : t[j] = items[(i + 1) + j - 1]
    BY <2>1, <1>2, SubSeqProperties
  <2>3. QED
    BY <2>2, <1>0
<1>5. PICK r : r = s \o t
  OBVIOUS
<1>6. /\ r \in Seq(Ptrs) /\ Len(r) = Len(s) + Len(t)
      /\ \A j \in 1..(Len(s) + Len(t)) : r[j] = IF j <= Len(s) THEN s[j] ELSE t[j - Len(s)]
  BY <1>3, <1>4, <1>5, ConcatProperties
<1>7. Len(r) = Len(items) - 1
  BY <1>0, <1>3, <1>4, <1>6
<1>8. ASSUME NEW j \in 1..(Len(items) - 1)
      PROVE  r[j] = items[IF j < i THEN j ELSE j + 1]
  <2>1. CASE j < i
    BY <2>1, <1>0, <1>3, <1>4, <1>6
  <2>2. CASE ~ (j < i)
    <3>1. r[j] = t[j - (i - 1)] /\ j - (i - 1) \in 1..(Len(items) - i)
      BY <2>2, <1>0, <1>3, <1>4, <1>6, SMTT(40)
    <3>2. i + (j - (i - 1)) = j + 1
      BY <1>0
    <3>3. QED
      BY <2>2, <3>1, <3>2, <1>4
  <2>3. QED
    BY <2>1, <2>2
<1>9. RemoveAt(items, i) = r
  BY <1>1, <1>2, <1>5 DEF RemoveAt
<1>10. QED
  BY <1>6, <1>7, <1>8, <1>9

LEMMA SuffixIs ==
  ASSUME TypeOK, NEW c \in 1..(Len(items) + 1)
  PROVE  /\ SubSeq(items, c, Len(items)) \in Seq(Ptrs)
         /\ Len(SubSeq(items, c, Len(items))) = Len(items) + 1 - c
         /\ \A j \in 1..(Len(items) + 1 - c) : SubSeq(items, c, Len(items))[j] = items[c + j - 1]
<1>0. Len(items) \in Nat /\ c \in Nat /\ \A k \in 1..Len(items) : items[k] \in Ptrs
  BY SliceFacts
<1>1. PICK s : s = SubSeq(items, c, Len(items))
  OBVIOUS
<1>2. c \in Int /\ Len(items) \in Int /\ \A k \in c..Len(items) : items[k] \in Ptrs
  BY <1>0
<1>3. /\ s \in Seq(Ptrs) /\ Len(s) = (IF c <= Len(items) THEN Len(items) - c + 1 ELSE 0)
      /\ \A j \in 1..(Len(items) - c + 1) : s[j] = items[c + j - 1]
  BY <1>1, <1>2, SubSeqProperties
<1>4. /\ s \in Seq(Ptrs) /\ Len(s) = Len(items) + 1 - c
      /\ \A j \in 1..(Len(items) + 1 - c) : s[j] = items[c + j - 1]
  BY <1>0, <1>3
<1>5. QED
  BY <1>1, <1>4

\* What live items are charged.
LEMMA Charges ==
  ASSUME BufInv, LimitInv, NEW S, S \subseteq Live
  PROVE  IsFiniteSet(S) /\ SizesOf(S) \in Nat /\ IdBytesOf(S) \in Int
<1>1. Live \subseteq Ptrs /\ heap \in [Ptrs -> Item]
  BY SliceFacts DEF BufInv, TypeOK
<1>2. IsFiniteSet(S)
  BY <1>1, PtrRoom, FS_Subset
<1>3. ASSUME NEW p \in S PROVE ApproxItemSize(heap[p]) \in Nat /\ IdBytes(heap[p].id) \in Int
  <2>1. heap[p] \in Item /\ Sound(heap[p])
    BY <1>1 DEF LimitInv
  <2>2. heap[p].id \in Ids \cup {NoId}
    BY <2>1 DEF Item
  <2>3. QED
    BY <2>1, <2>2, SoundSize, SizeTypes
<1>4. SizesOf(S) \in Nat
  <2>1. PICK f : f = [p \in S |-> ApproxItemSize(heap[p])]
    OBVIOUS
  <2>2. \A p \in S : f[p] \in Nat
    BY <2>1, <1>3
  <2>3. QED
    BY <2>1, <2>2, <1>2, SumNonNegative DEF SizesOf
<1>5. IdBytesOf(S) \in Int
  <2>1. PICK f : f = [p \in S |-> IdBytes(heap[p].id)]
    OBVIOUS
  <2>2. \A p \in S : f[p] \in Int
    BY <2>1, <1>3
  <2>3. QED
    BY <2>1, <2>2, <1>2, SumType DEF IdBytesOf
<1>6. QED
  BY <1>2, <1>4, <1>5

\* deleteIndexLocked takes the item at i out of everything.
LEMMA DeleteIndexKeeps ==
  ASSUME BufInv, LimitInv, NEW i \in 1..Len(items), DeleteIndexLocked(i)
  PROVE  /\ BufInv' /\ LimitInv'
         /\ \A p : p \in Live' <=> p \in Live /\ p # items[i]
         /\ UNCHANGED <<heap, lastSeq, firstUUID, lastUUID>>
         /\ bytes' = bytes - SizesOf({items[i]})
         /\ (items' = <<>> /\ idKeyBytes' = 0) \/ idKeyBytes' = idKeyBytes - IdBytes(heap[items[i]].id)
<1>0. TypeOK /\ Ordered /\ Len(items) \in Nat /\ DOMAIN items = 1..Len(items)
  BY SliceFacts DEF BufInv
<1>1. PICK rest : rest = RemoveAt(items, i)
  OBVIOUS
<1>2. PICK g : g = items[i]
  OBVIOUS
<1>3. /\ items' = rest /\ bytes' = bytes - SizesOf({g})
      /\ UNCHANGED <<heap, lastSeq, firstUUID, lastUUID>>
  BY <1>1, <1>2 DEF DeleteIndexLocked
<1>4. \/ /\ rest = <<>> /\ ResetIfEmptyLocked /\ capacity' = 0
      \/ /\ rest # <<>> /\ Unindex({g}) /\ capacity' = capacity
         /\ idKeyBytes' = idKeyBytes - IdBytes(heap[g].id)
      \/ /\ rest # <<>> /\ capacity' = Len(rest)
         /\ bySeq' = SeqIndex(rest) /\ byID' = IdIndex(rest) /\ byUUID' = UUIDIndex(rest)
         /\ idKeyBytes' = idKeyBytes - IdBytes(heap[g].id)
  BY <1>1, <1>2, SMTT(40) DEF DeleteIndexLocked, ItemAt
<1>5. /\ rest \in Seq(Ptrs) /\ Len(rest) = Len(items) - 1
      /\ \A j \in 1..(Len(items) - 1) : rest[j] = items[IF j < i THEN j ELSE j + 1]
  BY <1>0, <1>1, RemoveAtIs
<1>6. PICK e : e = [j \in 1..(Len(items) - 1) |-> IF j < i THEN j ELSE j + 1]
  OBVIOUS
<1>7. \A j \in 1..Len(items') : e[j] \in 1..Len(items) /\ e[j] # i /\ items'[j] = items[e[j]]
  BY <1>0, <1>3, <1>5, <1>6
<1>8. \A j, k \in 1..Len(items') : j < k => e[j] < e[k]
  BY <1>0, <1>3, <1>5, <1>6
<1>9. ASSUME NEW p PROVE p \in Live' <=> p \in Live /\ p # g
  <2>1. DOMAIN items' = 1..Len(items')
    BY <1>3, <1>5, LenProperties
  <2>2. ASSUME p \in Live' PROVE p \in Live /\ p # g
    <3>1. PICK j \in 1..Len(items') : p = items'[j]
      BY <2>1, <2>2 DEF Live, Range
    <3>2. e[j] \in 1..Len(items) /\ e[j] # i /\ p = items[e[j]]
      BY <3>1, <1>7
    <3>3. p \in Live
      BY <3>2, <1>0, SliceFacts
    <3>4. p # g
      BY <3>2, <1>0, <1>2, OrderedDistinct
    <3>5. QED
      BY <3>3, <3>4
  <2>3. ASSUME p \in Live, p # g PROVE p \in Live'
    <3>1. PICK k \in 1..Len(items) : items[k] = p
      BY <2>3, <1>0, SliceFacts
    <3>2. k # i
      BY <2>3, <3>1, <1>2
    <3>3. PICK j \in 1..(Len(items) - 1) : k = IF j < i THEN j ELSE j + 1
      <4>1. CASE k < i
        BY <4>1, <1>0
      <4>2. CASE k > i
        <5>1. k - 1 \in 1..(Len(items) - 1) /\ ~ (k - 1 < i) /\ k = (k - 1) + 1
          BY <4>2, <1>0
        <5>2. QED
          BY <5>1
      <4>3. QED
        BY <3>2, <4>1, <4>2, <1>0
    <3>4. j \in DOMAIN items' /\ items'[j] = p
      BY <2>1, <3>1, <3>3, <1>3, <1>5
    <3>5. QED
      BY <3>4 DEF Live, Range
  <2>4. QED
    BY <2>2, <2>3
<1>10. {g} \subseteq Live /\ \A p : p \in Live' <=> p \in Live /\ p \notin {g}
  BY <1>0, <1>2, <1>9, SliceFacts
<1>11. g \in Ptrs /\ Sound(heap[g]) /\ heap[g] \in Item /\ bytes \in Int /\ idKeyBytes \in Int
       /\ capacity \in Nat /\ Len(items) <= capacity
  BY <1>0, <1>10, SliceFacts DEF LimitInv, TypeOK
<1>12. bytes' \in Int
  <2>1. SizesOf({g}) \in Int
    BY <1>10, Charges
  <2>2. QED
    BY <2>1, <1>3, <1>11
<1>13. IdBytes(heap[g].id) \in Nat
  BY <1>11, SizeTypes DEF Item
<1>14. /\ Indexed' /\ capacity' \in Nat /\ Len(items') <= capacity' /\ idKeyBytes' \in Int
       /\ ((items' = <<>> /\ idKeyBytes' = 0) \/ idKeyBytes' = idKeyBytes - IdBytes(heap[g].id))
  <2>1. CASE rest = <<>> /\ ResetIfEmptyLocked /\ capacity' = 0
    BY <2>1, <1>3, EmptySeq, ResetKeeps
  <2>2. CASE /\ rest # <<>> /\ Unindex({g}) /\ capacity' = capacity
             /\ idKeyBytes' = idKeyBytes - IdBytes(heap[g].id)
    <3>1. Indexed'
      BY <2>2, <1>3, <1>10, UnindexKeeps
    <3>2. QED
      BY <3>1, <2>2, <1>0, <1>3, <1>5, <1>11, <1>13
  <2>3. CASE /\ rest # <<>> /\ capacity' = Len(rest)
             /\ bySeq' = SeqIndex(rest) /\ byID' = IdIndex(rest) /\ byUUID' = UUIDIndex(rest)
             /\ idKeyBytes' = idKeyBytes - IdBytes(heap[g].id)
    <3>1. items' \in Seq(Ptrs) /\ \A p \in Live' : p \in Live
      BY <1>3, <1>5, <1>10
    <3>2. bySeq' = SeqIndex(items') /\ byID' = IdIndex(items') /\ byUUID' = UUIDIndex(items')
      BY <2>3, <1>3
    <3>3. Indexed'
      BY <3>1, <3>2, <1>3, RebuiltKeeps
    <3>4. QED
      BY <3>3, <2>3, <1>3, <1>5, <1>11, <1>13, LenProperties
  <2>4. QED
    BY <2>1, <2>2, <2>3, <1>4
<1>15. BufInv' /\ LimitInv'
  <2>1. items' \in Seq(Ptrs) /\ \A p : p \in Live' <=> p \in Live /\ p \notin {g}
    BY <1>3, <1>5, <1>10
  <2>2. QED
    BY <2>1, <1>3, <1>7, <1>8, <1>12, <1>14, ThinnedKeeps
<1>16. QED
  BY <1>2, <1>3, <1>9, <1>14, <1>15

\* deleteUpToSeqLocked takes the items up to n out of everything.
LEMMA DeleteUpToKeeps ==
  ASSUME BufInv, LimitInv, NEW n \in Int, DeleteUpToSeqLocked(n)
  PROVE  \E gone \in SUBSET Live :
           /\ BufInv' /\ LimitInv'
           /\ \A p : p \in Live' <=> p \in Live /\ p \notin gone
           /\ UNCHANGED <<heap, lastSeq, firstUUID, lastUUID>>
           /\ bytes' = bytes - SizesOf(gone)
           /\ (items' = <<>> /\ idKeyBytes' = 0) \/ idKeyBytes' = idKeyBytes - IdBytesOf(gone)
<1>0. TypeOK /\ Ordered /\ Len(items) \in Nat /\ DOMAIN items = 1..Len(items)
  BY SliceFacts DEF BufInv
<1>1. PICK c : c = FirstAfter(n)
  OBVIOUS
<1>2. PICK rest : rest = SubSeq(items, c, Len(items))
  OBVIOUS
<1>3. PICK gone : gone = {items[i] : i \in 1..(c - 1)}
  OBVIOUS
<1>4. /\ items' = rest /\ bytes' = bytes - SizesOf(gone) /\ capacity' = Len(rest)
      /\ UNCHANGED <<heap, lastSeq, firstUUID, lastUUID>>
      /\ IF rest = <<>> THEN ResetIfEmptyLocked
         ELSE Unindex(gone) /\ idKeyBytes' = idKeyBytes - IdBytesOf(gone)
  BY <1>1, <1>2, <1>3 DEF DeleteUpToSeqLocked, Kept
<1>5. c \in 1..(Len(items) + 1)
  BY <1>0, <1>1, FirstAfterIs
<1>6. /\ rest \in Seq(Ptrs) /\ Len(rest) = Len(items) + 1 - c
      /\ \A j \in 1..(Len(items) + 1 - c) : rest[j] = items[c + j - 1]
  BY <1>0, <1>2, <1>5, SuffixIs
<1>7. PICK e : e = [j \in 1..(Len(items) + 1 - c) |-> c + j - 1]
  OBVIOUS
<1>8. \A j \in 1..Len(items') : e[j] \in 1..Len(items) /\ e[j] >= c /\ items'[j] = items[e[j]]
  BY <1>0, <1>4, <1>5, <1>6, <1>7
<1>9. \A j, k \in 1..Len(items') : j < k => e[j] < e[k]
  BY <1>0, <1>4, <1>5, <1>6, <1>7
<1>10. gone \subseteq Live
  BY <1>0, <1>3, <1>5, SliceFacts
<1>11. ASSUME NEW p PROVE p \in Live' <=> p \in Live /\ p \notin gone
  <2>1. DOMAIN items' = 1..Len(items')
    BY <1>4, <1>6, LenProperties
  <2>2. ASSUME p \in Live' PROVE p \in Live /\ p \notin gone
    <3>1. PICK j \in 1..Len(items') : p = items'[j]
      BY <2>1, <2>2 DEF Live, Range
    <3>2. e[j] \in 1..Len(items) /\ e[j] >= c /\ p = items[e[j]]
      BY <3>1, <1>8
    <3>3. p \in Live
      BY <3>2, <1>0, SliceFacts
    <3>4. ASSUME NEW i \in 1..(c - 1) PROVE items[i] # p
      <4>1. i \in 1..Len(items) /\ i # e[j]
        BY <1>0, <1>5, <3>2
      <4>2. QED
        BY <4>1, <3>2, <1>0, OrderedDistinct
    <3>5. QED
      BY <3>3, <3>4, <1>3
  <2>3. ASSUME p \in Live, p \notin gone PROVE p \in Live'
    <3>1. PICK k \in 1..Len(items) : items[k] = p
      BY <2>3, <1>0, SliceFacts
    <3>2. ~ (k \in 1..(c - 1))
      BY <2>3, <3>1, <1>3
    <3>3. PICK j : j = k + 1 - c
      OBVIOUS
    <3>4. j \in 1..(Len(items) + 1 - c) /\ c + j - 1 = k
      BY <3>2, <3>3, <1>0, <1>5
    <3>5. j \in DOMAIN items' /\ items'[j] = p
      BY <2>1, <3>1, <3>4, <1>4, <1>6
    <3>6. QED
      BY <3>5 DEF Live, Range
  <2>4. QED
    BY <2>2, <2>3
<1>12. bytes \in Int /\ idKeyBytes \in Int /\ SizesOf(gone) \in Int /\ IdBytesOf(gone) \in Int
  BY <1>0, <1>10, Charges DEF TypeOK
<1>13. /\ Indexed' /\ idKeyBytes' \in Int
       /\ ((items' = <<>> /\ idKeyBytes' = 0) \/ idKeyBytes' = idKeyBytes - IdBytesOf(gone))
  <2>1. CASE rest = <<>>
    BY <2>1, <1>4, ResetKeeps
  <2>2. CASE rest # <<>>
    <3>1. Indexed'
      BY <2>2, <1>4, <1>10, <1>11, UnindexKeeps
    <3>2. QED
      BY <2>2, <3>1, <1>4, <1>12
  <2>3. QED
    BY <2>1, <2>2
<1>14. BufInv' /\ LimitInv'
  <2>1. items' \in Seq(Ptrs) /\ capacity' \in Nat /\ Len(items') <= capacity' /\ bytes' \in Int
    BY <1>4, <1>6, <1>12, LenProperties
  <2>2. QED
    BY <2>1, <1>4, <1>8, <1>9, <1>11, <1>13, ThinnedKeeps
<1>15. QED
  BY <1>4, <1>10, <1>11, <1>13, <1>14

\* There is a pointer of its own for every item of a batch.
LEMMA PtrSeqIs ==
  LET ptrs == SetToSeq(Ptrs)
  IN  \A i \in 1..MaxSeq : ptrs[i] \in Ptrs /\ \A j \in 1..MaxSeq : ptrs[i] = ptrs[j] => i = j
<1>1. Cardinality(Ptrs) \in Nat /\ ExistsBijection(1..Cardinality(Ptrs), Ptrs)
  BY PtrRoom, FS_CardinalityType
<1>2. \E f \in [1..Cardinality(Ptrs) -> Ptrs] : IsInjective(f)
  BY <1>1 DEF ExistsBijection, Bijection, Injection
<1>3. PICK ptrs : ptrs = SetToSeq(Ptrs)
  OBVIOUS
<1>4. ptrs \in [1..Cardinality(Ptrs) -> Ptrs] /\ IsInjective(ptrs)
  BY <1>2, <1>3 DEF SetToSeq
<1>5. \A i \in 1..MaxSeq : i \in 1..Cardinality(Ptrs)
  BY <1>1, PtrRoom, ScopeBufferConstants
<1>6. \A i \in 1..MaxSeq : ptrs[i] \in Ptrs /\ \A j \in 1..MaxSeq : ptrs[i] = ptrs[j] => i = j
  BY <1>4, <1>5 DEF IsInjective
<1>7. QED
  BY <1>3, <1>6

\* The ids of a batch have a length.
LEMMA BatchIdBytesType ==
  ASSUME NEW bt \in Batches
  PROVE  BatchIdBytes(bt) \in Int
<1>1. PICK n : n = Len(bt)
  OBVIOUS
<1>2. n \in Nat /\ DOMAIN bt = 1..n /\ \A i \in 1..n : bt[i] \in BatchItem
  BY <1>1, ScopeBufferConstants, LenProperties
<1>3. PICK g : g = [i \in DOMAIN bt |-> IdBytes(bt[i].id)]
  OBVIOUS
<1>4. ASSUME NEW i \in 1..n PROVE g[i] \in Int
  <2>1. bt[i].id \in Ids \cup {NoId}
    BY <1>2 DEF BatchItem
  <2>2. QED
    BY <2>1, <1>2, <1>3, SizeTypes
<1>5. IsFiniteSet(1..n) /\ DOMAIN g = 1..n
  BY <1>2, <1>3, FS_Interval
<1>6. SumFunctionOnSet(g, DOMAIN g) \in Int
  BY <1>4, <1>5, SumType
<1>7. QED
  BY <1>3, <1>6 DEF BatchIdBytes, SumFunction

\* buildReplacementState makes a sound scope of whatever was there before.
LEMMA ReplacementKeeps ==
  ASSUME BufInv, NEW bt \in Batches, NEW us \in [DOMAIN bt -> UUIDs],
         BuildReplacementState(bt, us), idKeyBytes' \in Int
  PROVE  /\ BufInv' /\ LimitInv'
         /\ bytes' = SizesOf(Live)' /\ BatchIdBytes(bt) = IdBytesOf(Live)' /\ BatchIdBytes(bt) \in Int
<1>0. PICK n : n = Len(bt)
  OBVIOUS
<1>1. n \in Nat /\ n <= MaxSeq /\ MaxSeq \in Nat /\ DOMAIN bt = 1..n
      /\ \A i \in 1..n : bt[i] \in BatchItem /\ us[i] \in UUIDs
  BY <1>0, ScopeBufferConstants, LenProperties
<1>2. \A i \in 1..n : bt[i].id \in Ids \cup {NoId} /\ bt[i].payload \in Payloads
  BY <1>1 DEF BatchItem
<1>3. PICK ptrs : ptrs = SetToSeq(Ptrs)
  OBVIOUS
<1>4. \A i \in 1..n : ptrs[i] \in Ptrs /\ \A j \in 1..n : ptrs[i] = ptrs[j] => i = j
  BY <1>1, <1>3, PtrSeqIs
<1>5. PICK its : its = [i \in 1..n |-> [id |-> bt[i].id, uuid |-> us[i], seq |-> i,
                                        payload |-> bt[i].payload, counter |-> NoCell]]
  OBVIOUS
<1>6. \A i \in 1..n : /\ its[i] \in Item /\ its[i].id = bt[i].id /\ its[i].uuid = us[i] /\ its[i].seq = i
                      /\ its[i].payload = bt[i].payload /\ its[i].counter = NoCell
  <2>1. ASSUME NEW i \in 1..n
        PROVE  /\ its[i] \in Item /\ its[i].id = bt[i].id /\ its[i].uuid = us[i] /\ its[i].seq = i
               /\ its[i].payload = bt[i].payload /\ its[i].counter = NoCell
    <3>1. its[i] = [id |-> bt[i].id, uuid |-> us[i], seq |-> i, payload |-> bt[i].payload, counter |-> NoCell]
      BY <1>5
    <3>2. i \in 1..MaxSeq /\ us[i] \in UUIDs /\ bt[i].id \in Ids \cup {NoId} /\ bt[i].payload \in Payloads
      BY <1>1, <1>2
    <3>3. QED
      BY <3>1, <3>2 DEF Item
  <2>2. QED
    BY <2>1
<1>7. /\ \A i, j \in 1..n : i # j => us[i] # us[j] /\ (bt[i].id # NoId => bt[i].id # bt[j].id)
      /\ \A i \in 1..n : Measures(bt[i].id, bt[i].payload)
  BY <1>1 DEF BuildReplacementState
<1>8. heap' = [p \in Ptrs |-> IF \E i \in 1..n : ptrs[i] = p
                              THEN its[CHOOSE i \in 1..n : ptrs[i] = p] ELSE heap[p]]
  BY <1>1, <1>3, <1>5 DEF BuildReplacementState
<1>9. items' = [i \in 1..n |-> ptrs[i]] /\ bySeq' = [k \in 1..n |-> ptrs[k]]
  BY <1>1, <1>3 DEF BuildReplacementState
<1>10. byID' = [k \in {bt[i].id : i \in 1..n} \ {NoId} |-> ptrs[CHOOSE i \in 1..n : bt[i].id = k]]
  BY <1>1, <1>3 DEF BuildReplacementState
<1>11. byUUID' = [u \in Range(us) |-> ptrs[CHOOSE i \in 1..n : us[i] = u]]
  BY <1>1, <1>3 DEF BuildReplacementState
<1>12. /\ lastSeq' = n /\ capacity' = n
       /\ firstUUID' = (IF bt = <<>> THEN NoUUID ELSE us[1])
       /\ lastUUID' = (IF bt = <<>> THEN NoUUID ELSE us[n])
  BY <1>0 DEF BuildReplacementState
<1>13. bytes' = SumFunction([i \in 1..n |-> ApproxItemSize(its[i])])
  BY <1>1, <1>5 DEF BuildReplacementState
<1>14. (bt = <<>>) <=> (n = 0)
  BY <1>0, <1>1, ScopeBufferConstants, EmptySeq
<1>15. \A i \in 1..n : heap'[ptrs[i]] = its[i]
  <2>1. ASSUME NEW i \in 1..n PROVE heap'[ptrs[i]] = its[i]
    <3>1. (CHOOSE j \in 1..n : ptrs[j] = ptrs[i]) = i
      BY <1>4
    <3>2. heap'[ptrs[i]] = its[CHOOSE j \in 1..n : ptrs[j] = ptrs[i]]
      BY <1>4, <1>8
    <3>3. QED
      BY <3>1, <3>2
  <2>2. QED
    BY <2>1
<1>16. heap' \in [Ptrs -> Item]
  <2>1. heap \in [Ptrs -> Item]
    BY DEF BufInv, TypeOK
  <2>2. ASSUME NEW p \in Ptrs PROVE heap'[p] \in Item
    <3>1. CASE \E i \in 1..n : ptrs[i] = p
      BY <3>1, <1>6, <1>15
    <3>2. CASE ~ \E i \in 1..n : ptrs[i] = p
      BY <3>2, <2>1, <1>8
    <3>3. QED
      BY <3>1, <3>2
  <2>3. DOMAIN heap' = Ptrs /\ heap' = [p \in Ptrs |-> heap'[p]]
    BY <1>8
  <2>4. QED
    BY <2>2, <2>3
<1>17. items' \in Seq(Ptrs) /\ Len(items') = n /\ DOMAIN items' = 1..n /\ \A i \in 1..n : items'[i] = ptrs[i]
  <2>1. items' \in [1..n -> Ptrs]
    BY <1>4, <1>9
  <2>2. items' \in Seq(Ptrs)
    BY <2>1, <1>1, SeqDef
  <2>3. QED
    BY <2>1, <2>2, <1>1, <1>9, LenProperties
<1>18. \A p : p \in Live' <=> \E i \in 1..n : p = ptrs[i]
  BY <1>17 DEF Live, Range
<1>19. \A p : p \in Named' <=> \E i \in 1..n : p = ptrs[i] /\ bt[i].id # NoId
  BY <1>6, <1>15, <1>18 DEF Named
<1>20. \A i \in 1..n : SeqKey'[ptrs[i]] = i /\ UUIDKey'[ptrs[i]] = us[i] /\ IdKey'[ptrs[i]] = bt[i].id
  <2>1. \A p \in Ptrs : SeqKey'[p] = heap'[p].seq /\ UUIDKey'[p] = heap'[p].uuid /\ IdKey'[p] = heap'[p].id
    BY DEF SeqKey, UUIDKey, IdKey
  <2>2. QED
    BY <2>1, <1>4, <1>6, <1>15
<1>21. IsIndex(bySeq', Live', SeqKey')
  <2>1. IsMap(bySeq') /\ DOMAIN bySeq' = 1..n /\ \A k \in 1..n : bySeq'[k] = ptrs[k]
    BY <1>9 DEF IsMap
  <2>2. 1..n = {SeqKey'[p] : p \in Live'}
    BY <1>18, <1>20
  <2>3. QED
    BY <2>1, <2>2, <1>18, <1>20 DEF IsIndex
<1>22. IsIndex(byUUID', Live', UUIDKey')
  <2>1. IsMap(byUUID') /\ DOMAIN byUUID' = {us[i] : i \in 1..n}
    BY <1>1, <1>11 DEF IsMap, Range
  <2>2. ASSUME NEW i \in 1..n PROVE byUUID'[us[i]] = ptrs[i]
    <3>1. (CHOOSE j \in 1..n : us[j] = us[i]) = i
      BY <1>7
    <3>2. us[i] \in Range(us)
      BY <1>1 DEF Range
    <3>3. byUUID'[us[i]] = ptrs[CHOOSE j \in 1..n : us[j] = us[i]]
      BY <3>2, <1>11
    <3>4. QED
      BY <3>1, <3>3
  <2>3. {us[i] : i \in 1..n} = {UUIDKey'[p] : p \in Live'}
    BY <1>18, <1>20
  <2>4. QED
    BY <2>1, <2>2, <2>3, <1>18, <1>20 DEF IsIndex
<1>23. IsIndex(byID', Named', IdKey')
  <2>1. IsMap(byID') /\ DOMAIN byID' = {bt[i].id : i \in 1..n} \ {NoId}
    BY <1>10 DEF IsMap
  <2>2. ASSUME NEW i \in 1..n, bt[i].id # NoId PROVE byID'[bt[i].id] = ptrs[i]
    <3>1. (CHOOSE j \in 1..n : bt[j].id = bt[i].id) = i
      BY <2>2, <1>7
    <3>2. bt[i].id \in {bt[j].id : j \in 1..n} \ {NoId}
      BY <2>2
    <3>3. byID'[bt[i].id] = ptrs[CHOOSE j \in 1..n : bt[j].id = bt[i].id]
      BY <3>2, <1>10
    <3>4. QED
      BY <3>1, <3>3
  <2>3. {bt[i].id : i \in 1..n} \ {NoId} = {IdKey'[p] : p \in Named'}
    BY <1>19, <1>20
  <2>4. QED
    BY <2>1, <2>2, <2>3, <1>19, <1>20 DEF IsIndex
<1>24. Indexed'
  BY <1>21, <1>22, <1>23 DEF Indexed
<1>25. KeysDistinct'
  <2>1. Distinct(Live', UUIDKey')
    BY <1>7, <1>18, <1>20 DEF Distinct
  <2>2. Distinct(Named', IdKey')
    BY <1>7, <1>19, <1>20 DEF Distinct
  <2>3. QED
    BY <2>1, <2>2 DEF KeysDistinct
<1>26. Ordered'
  BY <1>6, <1>15, <1>17 DEF Ordered
<1>27. SeqsIssued'
  BY <1>1, <1>6, <1>12, <1>15, <1>18 DEF SeqsIssued
<1>28. Span'
  <2>1. CASE n = 0
    BY <2>1, <1>1, <1>12, <1>14, <1>18 DEF Span
  <2>2. CASE n # 0
    <3>1. 1 \in 1..n /\ n \in 1..n
      BY <2>2, <1>1
    <3>2. firstUUID' = us[1] /\ lastUUID' = us[n] /\ firstUUID' # NoUUID /\ lastUUID' # NoUUID
      BY <2>2, <3>1, <1>1, <1>12, <1>14, ScopeBufferConstants
    <3>3. QED
      BY <2>2, <3>2, <1>6, <1>12, <1>15, <1>18 DEF Span
  <2>3. QED
    BY <2>1, <2>2
<1>29. LimitInv'
  <2>1. ASSUME NEW i \in 1..n PROVE Sound(its[i])
    <3>1. ContentBytes(bt[i].payload, NoCell) = PayloadLen[bt[i].payload] /\ bt[i].payload # NoPayload
      BY <1>2, SizeTypes, ScopeBufferConstants
    <3>2. ApproxItemSize(its[i]) = ItemBase + IdBytes(bt[i].id) + PayloadLen[bt[i].payload]
      BY <3>1, <1>6 DEF ApproxItemSize
    <3>3. QED
      BY <3>1, <3>2, <1>6, <1>7 DEF Sound, Measures
  <2>2. QED
    BY <2>1, <1>15, <1>18 DEF LimitInv, Sound, ApproxItemSize
<1>30. \A i \in 1..n : ApproxItemSize(its[i]) \in Int /\ IdBytes(bt[i].id) \in Int
  <2>1. ASSUME NEW i \in 1..n PROVE ApproxItemSize(its[i]) \in Int /\ IdBytes(bt[i].id) \in Int
    <3>1. IdBytes(bt[i].id) \in Nat /\ ContentBytes(bt[i].payload, NoCell) \in Nat /\ ItemBase \in Nat
      BY <1>2, SizeTypes
    <3>2. QED
      BY <3>1, <1>6 DEF ApproxItemSize
  <2>2. QED
    BY <2>1
<1>31. IsFiniteSet(1..n)
  BY <1>1, FS_Interval
<1>32. bytes' = SizesOf(Live)' /\ bytes' \in Int
  <2>1. PICK g : g = [i \in 1..n |-> ApproxItemSize(its[i])]
    OBVIOUS
  <2>2. PICK f : f = [p \in Live' |-> ApproxItemSize(heap'[p])]
    OBVIOUS
  <2>3. \A i \in 1..n : g[i] \in Int /\ f[ptrs[i]] = g[i]
    BY <2>1, <2>2, <1>15, <1>18, <1>30
  <2>4. SumFunctionOnSet(f, Live') = SumFunctionOnSet(g, 1..n) /\ SumFunctionOnSet(g, 1..n) \in Int
    <3>1. PICK S : S = 1..n
      OBVIOUS
    <3>2. PICK T : T = Live'
      OBVIOUS
    <3>3. IsFiniteSet(S) /\ (\A i \in S : g[i] \in Int) /\ \A i \in S : f[ptrs[i]] = g[i]
      BY <2>3, <3>1, <1>31
    <3>4. (\A i, j \in S : ptrs[i] = ptrs[j] => i = j) /\ \A y : y \in T <=> \E i \in S : y = ptrs[i]
      BY <3>1, <3>2, <1>4, <1>18
    <3>5. SumFunctionOnSet(f, T) = SumFunctionOnSet(g, S) /\ SumFunctionOnSet(g, S) \in Int
      BY <3>3, <3>4, SumReindex, SumType, SMTT(40)
    <3>6. QED
      BY <3>1, <3>2, <3>5
  <2>5. bytes' = SumFunctionOnSet(g, 1..n)
    BY <2>1, <1>13 DEF SumFunction
  <2>6. SizesOf(Live)' = SumFunctionOnSet(f, Live')
    BY <2>2 DEF SizesOf, ApproxItemSize
  <2>7. QED
    BY <2>4, <2>5, <2>6
<1>33. BatchIdBytes(bt) = IdBytesOf(Live)' /\ BatchIdBytes(bt) \in Int
  <2>1. PICK g : g = [i \in 1..n |-> IdBytes(bt[i].id)]
    OBVIOUS
  <2>2. PICK f : f = [p \in Live' |-> IdBytes(heap'[p].id)]
    OBVIOUS
  <2>3. \A i \in 1..n : g[i] \in Int /\ f[ptrs[i]] = g[i]
    BY <2>1, <2>2, <1>6, <1>15, <1>18, <1>30
  <2>4. SumFunctionOnSet(f, Live') = SumFunctionOnSet(g, 1..n) /\ SumFunctionOnSet(g, 1..n) \in Int
    <3>1. PICK S : S = 1..n
      OBVIOUS
    <3>2. PICK T : T = Live'
      OBVIOUS
    <3>3. IsFiniteSet(S) /\ (\A i \in S : g[i] \in Int) /\ \A i \in S : f[ptrs[i]] = g[i]
      BY <2>3, <3>1, <1>31
    <3>4. (\A i, j \in S : ptrs[i] = ptrs[j] => i = j) /\ \A y : y \in T <=> \E i \in S : y = ptrs[i]
      BY <3>1, <3>2, <1>4, <1>18
    <3>5. SumFunctionOnSet(f, T) = SumFunctionOnSet(g, S) /\ SumFunctionOnSet(g, S) \in Int
      BY <3>3, <3>4, SumReindex, SumType
    <3>6. QED
      BY <3>1, <3>2, <3>5
  <2>5. BatchIdBytes(bt) = SumFunctionOnSet(g, 1..n)
    BY <2>1, <1>1 DEF BatchIdBytes, SumFunction
  <2>6. IdBytesOf(Live)' = SumFunctionOnSet(f, Live')
    BY <2>2 DEF IdBytesOf
  <2>7. QED
    BY <2>4, <2>5, <2>6
<1>34. TypeOK'
  <2>1. lastSeq' \in 0..MaxSeq /\ capacity' \in Nat /\ Len(items') <= capacity'
    BY <1>1, <1>12, <1>17
  <2>2. {firstUUID', lastUUID'} \subseteq UUIDs \cup {NoUUID}
    BY <1>1, <1>12, <1>14
  <2>3. QED
    BY <2>1, <2>2, <1>16, <1>17, <1>24, <1>32, IndexTypes DEF TypeOK
<1>35. QED
  BY <1>24, <1>25, <1>26, <1>27, <1>28, <1>29, <1>32, <1>33, <1>34 DEF BufInv

----------------------------------------------------------------------------
(* The running sums *)

\* A live item, and what it is charged.
LEMMA LiveItem ==
  ASSUME BufInv, LimitInv, NEW p \in Live
  PROVE  /\ p \in Ptrs /\ heap[p] \in Item /\ Sound(heap[p]) /\ heap[p].id \in Ids \cup {NoId}
         /\ ApproxItemSize(heap[p]) \in Nat /\ IdBytes(heap[p].id) \in Nat
<1>1. p \in Ptrs /\ heap[p] \in Item /\ Sound(heap[p])
  BY SliceFacts DEF BufInv, TypeOK, LimitInv
<1>2. heap[p].id \in Ids \cup {NoId}
  BY <1>1 DEF Item
<1>3. QED
  BY <1>1, <1>2, SoundSize, SizeTypes

\* An insert adds what the new item is charged,
LEMMA ChargesInserted ==
  ASSUME BufInv, LimitInv, NEW p \in Ptrs, p \notin Live, NEW it \in Item, Sound(it),
         heap' = [heap EXCEPT ![p] = it], \A q : q \in Live' <=> q \in Live \/ q = p
  PROVE  /\ SizesOf(Live)' = SizesOf(Live) + ApproxItemSize(it)
         /\ IdBytesOf(Live)' = IdBytesOf(Live) + IdBytes(it.id)
<1>0. heap \in [Ptrs -> Item] /\ IsFiniteSet(Live) /\ Live \subseteq Ptrs
  BY Charges, SliceFacts DEF BufInv, TypeOK
<1>1. heap'[p] = it /\ \A q \in Live : heap'[q] = heap[q]
  BY <1>0
<1>2. it.id \in Ids \cup {NoId} /\ IdBytes(it.id) \in Int /\ ApproxItemSize(it) \in Int
  <2>1. it.id \in Ids \cup {NoId}
    BY DEF Item
  <2>2. QED
    BY <2>1, SoundSize, SizeTypes
<1>3. SizesOf(Live)' = SizesOf(Live) + ApproxItemSize(it)
  <2>1. PICK f : f = [q \in Live |-> ApproxItemSize(heap[q])]
    OBVIOUS
  <2>2. PICK g : g = [q \in Live' |-> ApproxItemSize(heap'[q])]
    OBVIOUS
  <2>3. \A q \in Live : f[q] \in Int /\ g[q] = f[q]
    BY <2>1, <2>2, <1>1, LiveItem
  <2>4. g[p] = ApproxItemSize(it)
    BY <2>2, <1>1
  <2>5. SumFunctionOnSet(g, Live') = SumFunctionOnSet(f, Live) + g[p]
    <3>1. PICK T : T = Live'
      OBVIOUS
    <3>2. \A q : q \in T <=> q \in Live \/ q = p
      BY <3>1
    <3>3. SumFunctionOnSet(g, T) = SumFunctionOnSet(f, Live) + g[p]
      BY <3>2, <2>3, <2>4, <1>0, <1>2, SumInsert
    <3>4. QED
      BY <3>1, <3>3
  <2>6. SizesOf(Live)' = SumFunctionOnSet(g, Live') /\ SizesOf(Live) = SumFunctionOnSet(f, Live)
    BY <2>1, <2>2 DEF SizesOf, ApproxItemSize
  <2>7. QED
    BY <2>4, <2>5, <2>6
<1>4. IdBytesOf(Live)' = IdBytesOf(Live) + IdBytes(it.id)
  <2>1. PICK f : f = [q \in Live |-> IdBytes(heap[q].id)]
    OBVIOUS
  <2>2. PICK g : g = [q \in Live' |-> IdBytes(heap'[q].id)]
    OBVIOUS
  <2>3. \A q \in Live : f[q] \in Int /\ g[q] = f[q]
    BY <2>1, <2>2, <1>1, LiveItem
  <2>4. g[p] = IdBytes(it.id)
    BY <2>2, <1>1
  <2>5. SumFunctionOnSet(g, Live') = SumFunctionOnSet(f, Live) + g[p]
    <3>1. PICK T : T = Live'
      OBVIOUS
    <3>2. \A q : q \in T <=> q \in Live \/ q = p
      BY <3>1
    <3>3. SumFunctionOnSet(g, T) = SumFunctionOnSet(f, Live) + g[p]
      BY <3>2, <2>3, <2>4, <1>0, <1>2, SumInsert
    <3>4. QED
      BY <3>1, <3>3
  <2>6. IdBytesOf(Live)' = SumFunctionOnSet(g, Live') /\ IdBytesOf(Live) = SumFunctionOnSet(f, Live)
    BY <2>1, <2>2 DEF IdBytesOf
  <2>7. QED
    BY <2>4, <2>5, <2>6
<1>5. QED
  BY <1>3, <1>4

\* an overwrite exchanges what one item is charged,
LEMMA ChargesOverwritten ==
  ASSUME BufInv, LimitInv, NEW p \in Live, NEW it \in Item, Sound(it), it.id = heap[p].id,
         heap' = [heap EXCEPT ![p] = it], UNCHANGED items
  PROVE  /\ SizesOf(Live)' = SizesOf(Live) - ApproxItemSize(heap[p]) + ApproxItemSize(it)
         /\ IdBytesOf(Live)' = IdBytesOf(Live)
<1>0. heap \in [Ptrs -> Item] /\ IsFiniteSet(Live) /\ Live \subseteq Ptrs /\ Live' = Live
  BY Charges, SliceFacts DEF BufInv, TypeOK, Live
<1>1. heap'[p] = it /\ \A q \in Live : q # p => heap'[q] = heap[q]
  BY <1>0
<1>2. ApproxItemSize(it) \in Int
  BY SoundSize
<1>3. SizesOf(Live)' = SizesOf(Live) - ApproxItemSize(heap[p]) + ApproxItemSize(it)
  <2>1. PICK f : f = [q \in Live |-> ApproxItemSize(heap[q])]
    OBVIOUS
  <2>2. PICK g : g = [q \in Live |-> ApproxItemSize(heap'[q])]
    OBVIOUS
  <2>3. (\A q \in Live : f[q] \in Int) /\ \A q \in Live \ {p} : g[q] = f[q]
    BY <2>1, <2>2, <1>1, LiveItem
  <2>4. g[p] = ApproxItemSize(it) /\ f[p] = ApproxItemSize(heap[p])
    BY <2>1, <2>2, <1>1
  <2>5. SumFunctionOnSet(g, Live) = SumFunctionOnSet(f, Live) - f[p] + g[p]
    BY <2>3, <2>4, <1>0, <1>2, SumUpdate
  <2>6. SizesOf(Live)' = SumFunctionOnSet(g, Live) /\ SizesOf(Live) = SumFunctionOnSet(f, Live)
    BY <2>1, <2>2, <1>0 DEF SizesOf, ApproxItemSize
  <2>7. QED
    BY <2>4, <2>5, <2>6
<1>4. IdBytesOf(Live)' = IdBytesOf(Live)
  <2>1. PICK f : f = [q \in Live |-> IdBytes(heap[q].id)]
    OBVIOUS
  <2>2. PICK g : g = [q \in Live |-> IdBytes(heap'[q].id)]
    OBVIOUS
  <2>3. \A q \in Live : heap'[q].id = heap[q].id
    BY <1>1
  <2>4. g = f
    BY <2>1, <2>2, <2>3
  <2>5. IdBytesOf(Live)' = SumFunctionOnSet(g, Live) /\ IdBytesOf(Live) = SumFunctionOnSet(f, Live)
    BY <2>1, <2>2, <1>0 DEF IdBytesOf
  <2>6. QED
    BY <2>4, <2>5
<1>5. QED
  BY <1>3, <1>4

\* and a delete takes off what the deleted items are charged.
LEMMA ChargesDeleted ==
  ASSUME BufInv, LimitInv, NEW gone, gone \subseteq Live, UNCHANGED heap,
         \A q : q \in Live' <=> q \in Live /\ q \notin gone
  PROVE  /\ SizesOf(Live)' = SizesOf(Live) - SizesOf(gone)
         /\ IdBytesOf(Live)' = IdBytesOf(Live) - IdBytesOf(gone)
<1>0. IsFiniteSet(Live)
  BY Charges
<1>1. PICK T : T = Live'
  OBVIOUS
<1>2. \A q : q \in T <=> q \in Live /\ q \notin gone
  BY <1>1
<1>3. SizesOf(Live)' = SizesOf(Live) - SizesOf(gone)
  <2>1. PICK f : f = [q \in Live |-> ApproxItemSize(heap[q])]
    OBVIOUS
  <2>2. PICK g : g = [q \in gone |-> ApproxItemSize(heap[q])]
    OBVIOUS
  <2>3. PICK h : h = [q \in T |-> ApproxItemSize(heap[q])]
    OBVIOUS
  <2>4. (\A q \in Live : f[q] \in Int) /\ (\A q \in gone : g[q] = f[q]) /\ (\A q \in T : h[q] = f[q])
    BY <2>1, <2>2, <2>3, <1>2, LiveItem
  <2>5. SumFunctionOnSet(h, T) = SumFunctionOnSet(f, Live) - SumFunctionOnSet(g, gone)
    BY <2>4, <1>0, <1>2, SumWithout
  <2>6. /\ SizesOf(Live)' = SumFunctionOnSet(h, T) /\ SizesOf(Live) = SumFunctionOnSet(f, Live)
        /\ SizesOf(gone) = SumFunctionOnSet(g, gone)
    BY <2>1, <2>2, <2>3, <1>1 DEF SizesOf, ApproxItemSize
  <2>7. QED
    BY <2>5, <2>6
<1>4. IdBytesOf(Live)' = IdBytesOf(Live) - IdBytesOf(gone)
  <2>1. PICK f : f = [q \in Live |-> IdBytes(heap[q].id)]
    OBVIOUS
  <2>2. PICK g : g = [q \in gone |-> IdBytes(heap[q].id)]
    OBVIOUS
  <2>3. PICK h : h = [q \in T |-> IdBytes(heap[q].id)]
    OBVIOUS
  <2>4. (\A q \in Live : f[q] \in Int) /\ (\A q \in gone : g[q] = f[q]) /\ (\A q \in T : h[q] = f[q])
    BY <2>1, <2>2, <2>3, <1>2, LiveItem
  <2>5. SumFunctionOnSet(h, T) = SumFunctionOnSet(f, Live) - SumFunctionOnSet(g, gone)
    BY <2>4, <1>0, <1>2, SumWithout
  <2>6. /\ IdBytesOf(Live)' = SumFunctionOnSet(h, T) /\ IdBytesOf(Live) = SumFunctionOnSet(f, Live)
        /\ IdBytesOf(gone) = SumFunctionOnSet(g, gone)
    BY <2>1, <2>2, <2>3, <1>1 DEF IdBytesOf
  <2>7. QED
    BY <2>5, <2>6
<1>5. QED
  BY <1>3, <1>4

----------------------------------------------------------------------------
(* The inductive invariant *)

\* b.bytes is what the live items are charged, within what the store admitted.
Accounted == bytes = SizesOf(Live) /\ bytes <= Budget

Inv == BufInv /\ LimitInv /\ Accounted

\* What every point write and every delete comes to.
Outcome ==
  /\ Inv'
  /\ lastSeq' >= lastSeq
  /\ \A p \in Live' : \/ /\ p \in Live /\ heap'[p].seq = heap[p].seq
                         /\ heap'[p].uuid = heap[p].uuid /\ heap'[p].id = heap[p].id
                      \/ heap'[p].seq = lastSeq' /\ lastSeq' > lastSeq
  /\ IdKeyDrift' \in {IdKeyDrift, 0}

LEMMA InsertOutcome ==
  ASSUME Inv, NEW id \in Ids \cup {NoId}, NEW payload \in Payloads \cup {NoPayload},
         NEW counter \in Int \cup {NoCell}, NEW u \in FreshUUIDs, id \notin DOMAIN byID,
         counter # NoCell <=> payload = NoPayload,
         counter # NoCell => counter \in -MaxCounterValue..MaxCounterValue,
         ItemBase + IdBytes(id) + ContentBytes(payload, counter) <= MaxItemBytes,
         Insert(id, payload, counter, u)
  PROVE  Outcome
<1>0. BufInv /\ LimitInv /\ Accounted /\ TypeOK
  BY DEF Inv, BufInv
<1>i. PICK it : it = [id |-> id, uuid |-> u, seq |-> lastSeq + 1, payload |-> payload, counter |-> counter]
  OBVIOUS
<1>p. PICK p : p = NewPtr
  OBVIOUS
<1>1. counter = NoCell => payload \in Payloads
  OBVIOUS
<1>2. BufInv' /\ p \in Ptrs \ Live /\ Live' = Live \cup {p} /\ heap' = [heap EXCEPT ![p] = it]
  BY <1>0, <1>1, <1>i, <1>p, InsertKeeps
<1>3. /\ lastSeq < MaxSeq /\ lastSeq' = lastSeq + 1 /\ lastSeq \in Int
      /\ Reserves(ApproxItemSize(it)) /\ bytes' = bytes + ApproxItemSize(it)
      /\ idKeyBytes' = idKeyBytes + IdBytes(id)
  BY <1>0, <1>i DEF Insert, TypeOK
<1>4. it.id = id /\ it.seq = lastSeq + 1 /\ it.payload = payload /\ it.counter = counter /\ it.uuid = u
  BY <1>i
<1>5. it \in Item
  <2>1. lastSeq + 1 \in 1..MaxSeq /\ u \in UUIDs
    <3>1. lastSeq \in 0..MaxSeq /\ MaxSeq \in Nat
      BY <1>0, ScopeBufferConstants DEF TypeOK
    <3>2. QED
      BY <3>1, <1>3 DEF FreshUUIDs
  <2>2. QED
    BY <1>i, <2>1 DEF Item
<1>6. Sound(it)
  BY <1>4 DEF Sound, ApproxItemSize
<1>7. heap \in [Ptrs -> Item] /\ Live \subseteq Ptrs /\ bytes \in Int /\ idKeyBytes \in Int
  BY <1>0, SliceFacts DEF TypeOK
<1>8. heap'[p] = it /\ \A q \in Live : heap'[q] = heap[q]
  BY <1>2, <1>7
<1>9. LimitInv'
  BY <1>0, <1>2, <1>6, <1>8 DEF LimitInv, Sound, ApproxItemSize
<1>10. /\ SizesOf(Live)' = SizesOf(Live) + ApproxItemSize(it)
       /\ IdBytesOf(Live)' = IdBytesOf(Live) + IdBytes(it.id)
  <2>1. p \in Ptrs /\ p \notin Live /\ \A q : q \in Live' <=> q \in Live \/ q = p
    BY <1>2
  <2>2. QED
    BY <2>1, <1>0, <1>2, <1>5, <1>6, ChargesInserted
<1>11. ApproxItemSize(it) \in Nat /\ SizesOf(Live) \in Int /\ IdBytesOf(Live) \in Int /\ IdBytes(id) \in Int
  BY <1>0, <1>5, <1>6, SoundSize, Charges, SizeTypes
<1>12. Accounted'
  <2>1. bytes' = SizesOf(Live)'
    BY <1>0, <1>3, <1>10 DEF Accounted
  <2>2. bytes' <= Budget
    BY <1>0, <1>3, <1>7, <1>11, ScopeBufferConstants DEF Accounted, Reserves
  <2>3. QED
    BY <2>1, <2>2 DEF Accounted
<1>13. IdKeyDrift' = IdKeyDrift
  BY <1>3, <1>4, <1>7, <1>10, <1>11 DEF IdKeyDrift, Live
<1>14. \A q \in Live' : \/ /\ q \in Live /\ heap'[q].seq = heap[q].seq
                           /\ heap'[q].uuid = heap[q].uuid /\ heap'[q].id = heap[q].id
                        \/ heap'[q].seq = lastSeq' /\ lastSeq' > lastSeq
  BY <1>2, <1>3, <1>4, <1>8
<1>15. QED
  BY <1>2, <1>3, <1>9, <1>12, <1>13, <1>14 DEF Outcome, Inv

LEMMA OverwriteOutcome ==
  ASSUME Inv, NEW p \in Live,
         \E it \in Item :
           /\ Sound(it) /\ it.id = heap[p].id /\ it.uuid = heap[p].uuid /\ it.seq = heap[p].seq
           /\ heap' = [heap EXCEPT ![p] = it]
           /\ bytes' = bytes - ApproxItemSize(heap[p]) + ApproxItemSize(it) /\ bytes' \in Int
           /\ bytes' <= bytes \/ bytes' <= Budget
           /\ UNCHANGED <<items, byID, bySeq, byUUID, lastSeq, firstUUID, lastUUID, idKeyBytes, capacity>>
  PROVE  Outcome
<1>0. BufInv /\ LimitInv /\ Accounted /\ TypeOK
  BY DEF Inv, BufInv
<1>1. PICK it \in Item :
           /\ Sound(it) /\ it.id = heap[p].id /\ it.uuid = heap[p].uuid /\ it.seq = heap[p].seq
           /\ heap' = [heap EXCEPT ![p] = it]
           /\ bytes' = bytes - ApproxItemSize(heap[p]) + ApproxItemSize(it) /\ bytes' \in Int
           /\ bytes' <= bytes \/ bytes' <= Budget
           /\ UNCHANGED <<items, byID, bySeq, byUUID, lastSeq, firstUUID, lastUUID, idKeyBytes, capacity>>
  OBVIOUS
<1>2. BufInv' /\ LimitInv'
  BY <1>0, <1>1, OverwriteKeeps
<1>3. /\ SizesOf(Live)' = SizesOf(Live) - ApproxItemSize(heap[p]) + ApproxItemSize(it)
      /\ IdBytesOf(Live)' = IdBytesOf(Live)
  BY <1>0, <1>1, ChargesOverwritten
<1>4. Accounted'
  <2>1. bytes \in Int /\ Budget \in Nat
    BY <1>0, ScopeBufferConstants DEF TypeOK
  <2>2. QED
    BY <2>1, <1>0, <1>1, <1>3 DEF Accounted
<1>5. IdKeyDrift' = IdKeyDrift
  BY <1>1, <1>3 DEF IdKeyDrift, Live
<1>6. \A q \in Live' : /\ q \in Live /\ heap'[q].seq = heap[q].seq
                       /\ heap'[q].uuid = heap[q].uuid /\ heap'[q].id = heap[q].id
  <2>1. Live' = Live /\ Live \subseteq Ptrs /\ heap \in [Ptrs -> Item]
    BY <1>0, <1>1, SliceFacts DEF TypeOK, Live
  <2>2. QED
    BY <2>1, <1>1
<1>7. lastSeq' >= lastSeq
  BY <1>0, <1>1 DEF TypeOK
<1>8. QED
  BY <1>2, <1>4, <1>5, <1>6, <1>7 DEF Outcome, Inv

LEMMA DeleteOutcome ==
  ASSUME Inv, NEW gone, gone \subseteq Live, BufInv', LimitInv',
         \A p : p \in Live' <=> p \in Live /\ p \notin gone,
         UNCHANGED <<heap, lastSeq, firstUUID, lastUUID>>,
         bytes' = bytes - SizesOf(gone),
         (items' = <<>> /\ idKeyBytes' = 0) \/ idKeyBytes' = idKeyBytes - IdBytesOf(gone)
  PROVE  Outcome
<1>0. BufInv /\ LimitInv /\ Accounted /\ TypeOK /\ bytes \in Int /\ idKeyBytes \in Int
  BY DEF Inv, BufInv, TypeOK
<1>1. /\ SizesOf(Live)' = SizesOf(Live) - SizesOf(gone)
      /\ IdBytesOf(Live)' = IdBytesOf(Live) - IdBytesOf(gone)
  BY <1>0, ChargesDeleted
<1>2. SizesOf(gone) \in Nat /\ IdBytesOf(gone) \in Int /\ IdBytesOf(Live) \in Int
  BY <1>0, Charges
<1>3. Accounted'
  BY <1>0, <1>1, <1>2, ScopeBufferConstants DEF Accounted
<1>4. IdKeyDrift' \in {IdKeyDrift, 0}
  <2>0. IdKeyDrift = idKeyBytes - IdBytesOf(Live) /\ IdKeyDrift' = idKeyBytes' - IdBytesOf(Live)'
    BY DEF IdKeyDrift, Live
  <2>1. CASE items' = <<>> /\ idKeyBytes' = 0
    <3>1. Live' = {}
      BY <2>1 DEF Live, Range
    <3>2. IdBytesOf(Live)' = SumFunctionOnSet([p \in {} |-> IdBytes(heap'[p].id)], {})
      BY <3>1 DEF IdBytesOf
    <3>3. IdBytesOf(Live)' = 0
      BY <3>2, SumType, FS_EmptySet
    <3>4. QED
      BY <2>0, <2>1, <3>3
  <2>2. CASE idKeyBytes' = idKeyBytes - IdBytesOf(gone)
    BY <2>0, <2>2, <1>0, <1>1, <1>2
  <2>3. QED
    BY <2>1, <2>2
<1>5. lastSeq' >= lastSeq
  BY <1>0 DEF TypeOK
<1>6. QED
  BY <1>3, <1>4, <1>5 DEF Outcome, Inv

\* The write paths, one by one.
LEMMA ReplaceOutcome ==
  ASSUME Inv, NEW p \in Live, NEW payload \in Payloads, Measures(heap[p].id, payload),
         ReplaceItem(p, payload, NoCell)
  PROVE  Outcome
<1>1. payload # NoPayload /\ NoCell \in Int \cup {NoCell} /\ payload \in Payloads \cup {NoPayload}
  BY ScopeBufferConstants
<1>2. ItemBase + IdBytes(heap[p].id) + ContentBytes(payload, NoCell) <= MaxItemBytes
  BY SizeTypes DEF Measures
<1>3. BufInv /\ LimitInv
  BY DEF Inv
<1>4. \E it \in Item :
           /\ Sound(it) /\ it.id = heap[p].id /\ it.uuid = heap[p].uuid /\ it.seq = heap[p].seq
           /\ heap' = [heap EXCEPT ![p] = it]
           /\ bytes' = bytes - ApproxItemSize(heap[p]) + ApproxItemSize(it) /\ bytes' \in Int
           /\ bytes' <= bytes \/ bytes' <= Budget
           /\ UNCHANGED <<items, byID, bySeq, byUUID, lastSeq, firstUUID, lastUUID, idKeyBytes, capacity>>
  BY <1>1, <1>2, <1>3, ReplaceIs
<1>5. QED
  BY <1>4, OverwriteOutcome

LEMMA InsertNewOutcome ==
  ASSUME Inv, NEW id \in Ids \cup {NoId}, NEW payload \in Payloads, id \notin DOMAIN byID,
         InsertNewItemLocked(id, payload)
  PROVE  Outcome
<1>1. payload # NoPayload /\ NoCell \in Int \cup {NoCell} /\ payload \in Payloads \cup {NoPayload}
  BY ScopeBufferConstants
<1>2. ItemBase + IdBytes(id) + ContentBytes(payload, NoCell) <= MaxItemBytes
  BY SizeTypes DEF InsertNewItemLocked, Measures
<1>3. PICK u \in FreshUUIDs : Insert(id, payload, NoCell, u)
  BY DEF InsertNewItemLocked
<1>4. QED
  BY <1>1, <1>2, <1>3, InsertOutcome

LEMMA CounterOutcome ==
  ASSUME Inv, NEW id \in Ids, NEW by \in Increments, CounterAdd(id, by)
  PROVE  Outcome
<1>0. BufInv /\ LimitInv /\ by \in Int /\ by \in -MaxCounterValue..MaxCounterValue
  BY CounterInputs, ScopeBufferConstants DEF Inv
<1>1. ItemBase + IdBytes(id) + CounterCellOverhead <= MaxItemBytes
  BY DEF CounterAdd
<1>2. CASE id \notin DOMAIN byID
  <2>1. PICK u \in FreshUUIDs : Insert(id, NoPayload, by, u)
    BY <1>2 DEF CounterAdd
  <2>2. by # NoCell /\ ContentBytes(NoPayload, by) = CounterCellOverhead
    BY <1>0, CounterInputs, SizeTypes
  <2>3. id \in Ids \cup {NoId} /\ NoPayload \in Payloads \cup {NoPayload} /\ by \in Int \cup {NoCell}
    BY <1>0
  <2>4. ItemBase + IdBytes(id) + ContentBytes(NoPayload, by) <= MaxItemBytes
    BY <1>1, <2>2
  <2>5. QED
    BY <2>1, <2>2, <2>3, <2>4, <1>0, <1>2, InsertOutcome
<1>3. CASE id \in DOMAIN byID
  <2>1. PICK p \in Live : p = byID[id] /\ heap[p].id = id
    BY <1>0, <1>3, Lookups
  <2>2. CASE CounterIncrement(id, by)
    <3>1. \E it \in Item :
           /\ Sound(it) /\ it.id = heap[p].id /\ it.uuid = heap[p].uuid /\ it.seq = heap[p].seq
           /\ heap' = [heap EXCEPT ![p] = it]
           /\ bytes' = bytes - ApproxItemSize(heap[p]) + ApproxItemSize(it) /\ bytes' \in Int
           /\ bytes' <= bytes \/ bytes' <= Budget
           /\ UNCHANGED <<items, byID, bySeq, byUUID, lastSeq, firstUUID, lastUUID, idKeyBytes, capacity>>
      BY <2>1, <2>2, <1>0, <1>3, IncrementIs
    <3>2. QED
      BY <3>1, OverwriteOutcome
  <2>3. CASE CounterPromote(id, by)
    <3>1. PICK v : v = Number[heap[p].payload]
      OBVIOUS
    <3>2. /\ heap[p].counter = NoCell /\ v # NotANumber /\ v \in -MaxCounterValue..MaxCounterValue
          /\ v + by \in -MaxCounterValue..MaxCounterValue /\ ReplaceItem(p, NoPayload, v + by)
      BY <2>1, <2>3, <3>1 DEF CounterPromote, IsCounterPayload, SumInRange
    <3>3. PICK w : w = v + by
      OBVIOUS
    <3>4. w \in Int /\ w \in -MaxCounterValue..MaxCounterValue /\ ReplaceItem(p, NoPayload, w)
      BY <3>2, <3>3, <1>0, ScopeBufferConstants
    <3>5. w # NoCell /\ ContentBytes(NoPayload, w) = CounterCellOverhead
      BY <3>4, CounterInputs, SizeTypes
    <3>6. ItemBase + IdBytes(heap[p].id) + ContentBytes(NoPayload, w) <= MaxItemBytes
      BY <3>5, <2>1, <1>1
    <3>7. \E it \in Item :
           /\ Sound(it) /\ it.id = heap[p].id /\ it.uuid = heap[p].uuid /\ it.seq = heap[p].seq
           /\ heap' = [heap EXCEPT ![p] = it]
           /\ bytes' = bytes - ApproxItemSize(heap[p]) + ApproxItemSize(it) /\ bytes' \in Int
           /\ bytes' <= bytes \/ bytes' <= Budget
           /\ UNCHANGED <<items, byID, bySeq, byUUID, lastSeq, firstUUID, lastUUID, idKeyBytes, capacity>>
      <4>1. NoPayload \in Payloads \cup {NoPayload} /\ w \in Int \cup {NoCell}
        BY <3>4
      <4>2. QED
        BY <4>1, <3>4, <3>5, <3>6, <1>0, ReplaceIs
    <3>8. QED
      BY <3>7, OverwriteOutcome
  <2>4. QED
    BY <1>3, <2>2, <2>3 DEF CounterAdd
<1>4. QED
  BY <1>2, <1>3

\* The delete paths.
LEMMA DeleteOneOutcome ==
  ASSUME Inv, NEW p \in Live, DeleteIndexLocked(IndexBySeq(heap[p].seq))
  PROVE  Outcome
<1>0. BufInv /\ LimitInv
  BY DEF Inv
<1>1. PICK i \in 1..Len(items) : i = IndexBySeq(heap[p].seq) /\ items[i] = p
  BY <1>0, Located
<1>2. /\ BufInv' /\ LimitInv'
      /\ \A q : q \in Live' <=> q \in Live /\ q # items[i]
      /\ UNCHANGED <<heap, lastSeq, firstUUID, lastUUID>>
      /\ bytes' = bytes - SizesOf({items[i]})
      /\ (items' = <<>> /\ idKeyBytes' = 0) \/ idKeyBytes' = idKeyBytes - IdBytes(heap[items[i]].id)
  BY <1>0, <1>1, DeleteIndexKeeps
<1>3. IdBytesOf({p}) = IdBytes(heap[p].id)
  <2>1. PICK f : f = [q \in {p} |-> IdBytes(heap[q].id)]
    OBVIOUS
  <2>2. f[p] = IdBytes(heap[p].id) /\ f[p] \in Int
    BY <2>1, <1>0, LiveItem
  <2>3. IsFiniteSet({p}) /\ p \in {p} /\ \A x \in {p} : f[x] = IF x = p THEN f[p] ELSE 0
    BY FS_Singleton
  <2>4. SumFunctionOnSet(f, {p}) = f[p]
    BY <2>2, <2>3, SumSingle
  <2>5. QED
    BY <2>1, <2>2, <2>4 DEF IdBytesOf
<1>4. PICK gone : gone = {p}
  OBVIOUS
<1>5. /\ gone \subseteq Live /\ \A q : q \in Live' <=> q \in Live /\ q \notin gone
      /\ bytes' = bytes - SizesOf(gone)
      /\ ((items' = <<>> /\ idKeyBytes' = 0) \/ idKeyBytes' = idKeyBytes - IdBytesOf(gone))
  BY <1>1, <1>2, <1>3, <1>4
<1>6. QED
  BY <1>2, <1>5, DeleteOutcome

LEMMA DeleteUpToOutcome ==
  ASSUME Inv, NEW n \in Int, DeleteUpToSeqLocked(n)
  PROVE  Outcome
<1>0. BufInv /\ LimitInv
  BY DEF Inv
<1>1. PICK gone \in SUBSET Live :
           /\ BufInv' /\ LimitInv'
           /\ \A p : p \in Live' <=> p \in Live /\ p \notin gone
           /\ UNCHANGED <<heap, lastSeq, firstUUID, lastUUID>>
           /\ bytes' = bytes - SizesOf(gone)
           /\ (items' = <<>> /\ idKeyBytes' = 0) \/ idKeyBytes' = idKeyBytes - IdBytesOf(gone)
  BY <1>0, DeleteUpToKeeps
<1>2. QED
  BY <1>1, DeleteOutcome

LEMMA PointOutcome ==
  ASSUME Inv, PointStep
  PROVE  Outcome
<1>0. /\ \A n \in DOMAIN bySeq : bySeq[n] \in Live /\ heap[bySeq[n]].seq = n
      /\ \A u \in DOMAIN byUUID : byUUID[u] \in Live /\ heap[byUUID[u]].uuid = u
      /\ \A k \in DOMAIN byID : byID[k] \in Live /\ heap[byID[k]].id = k /\ k # NoId
  BY Lookups DEF Inv
<1>1. ASSUME NEW id \in Ids \cup {NoId}, NEW payload \in Payloads, AppendItem(id, payload)
      PROVE  Outcome
  BY <1>1, InsertNewOutcome DEF AppendItem
<1>2. ASSUME NEW id \in Ids \cup {NoId}, NEW payload \in Payloads, UpsertByID(id, payload)
      PROVE  Outcome
  <2>1. CASE id \in DOMAIN byID
    <3>1. PICK p \in Live : p = byID[id] /\ heap[p].id = id
      BY <2>1, <1>0
    <3>2. Measures(heap[p].id, payload) /\ ReplaceItem(p, payload, NoCell)
      BY <1>2, <2>1, <3>1 DEF UpsertByID
    <3>3. QED
      BY <3>2, ReplaceOutcome
  <2>2. CASE id \notin DOMAIN byID
    BY <1>2, <2>2, InsertNewOutcome DEF UpsertByID
  <2>3. QED
    BY <2>1, <2>2
<1>3. ASSUME NEW id \in Ids \cup {NoId}, NEW payload \in Payloads, UpdateByID(id, payload)
      PROVE  Outcome
  <2>1. PICK p \in Live : p = byID[id] /\ heap[p].id = id
    BY <1>3, <1>0 DEF UpdateByID
  <2>2. Measures(heap[p].id, payload) /\ ReplaceItem(p, payload, NoCell)
    BY <1>3, <2>1 DEF UpdateByID
  <2>3. QED
    BY <2>2, ReplaceOutcome
<1>4. ASSUME NEW n \in 1..MaxSeq, NEW payload \in Payloads, UpdateBySeq(n, payload)
      PROVE  Outcome
  <2>1. PICK p \in Live : p = bySeq[n]
    BY <1>4, <1>0 DEF UpdateBySeq
  <2>2. Measures(heap[p].id, payload) /\ ReplaceItem(p, payload, NoCell)
    BY <1>4, <2>1 DEF UpdateBySeq, FitsStored
  <2>3. QED
    BY <2>2, ReplaceOutcome
<1>5. ASSUME NEW u \in UUIDs, NEW payload \in Payloads, UpdateByUUID(u, payload)
      PROVE  Outcome
  <2>1. PICK p \in Live : p = byUUID[u]
    BY <1>5, <1>0 DEF UpdateByUUID
  <2>2. Measures(heap[p].id, payload) /\ ReplaceItem(p, payload, NoCell)
    BY <1>5, <2>1 DEF UpdateByUUID, FitsStored
  <2>3. QED
    BY <2>2, ReplaceOutcome
<1>6. ASSUME NEW id \in Ids, NEW by \in Increments, CounterAdd(id, by)
      PROVE  Outcome
  BY <1>6, CounterOutcome
<1>7. ASSUME NEW id \in Ids, DeleteByID(id)
      PROVE  Outcome
  <2>1. PICK p \in Live : p = byID[id]
    BY <1>7, <1>0 DEF DeleteByID
  <2>2. QED
    BY <1>7, <2>1, DeleteOneOutcome DEF DeleteByID
<1>8. ASSUME NEW n \in 1..MaxSeq, DeleteBySeq(n)
      PROVE  Outcome
  <2>1. PICK p \in Live : p = bySeq[n] /\ heap[p].seq = n
    BY <1>8, <1>0 DEF DeleteBySeq
  <2>2. QED
    BY <1>8, <2>1, DeleteOneOutcome DEF DeleteBySeq
<1>9. ASSUME NEW u \in UUIDs, DeleteByUUID(u)
      PROVE  Outcome
  <2>1. PICK p \in Live : p = byUUID[u]
    BY <1>9, <1>0 DEF DeleteByUUID
  <2>2. QED
    BY <1>9, <2>1, DeleteOneOutcome DEF DeleteByUUID
<1>10. ASSUME NEW n \in 1..MaxSeq, DeleteUpToSeq(n)
       PROVE  Outcome
  BY <1>10, DeleteUpToOutcome DEF DeleteUpToSeq
<1>11. ASSUME NEW u \in UUIDs, DeleteUpToUUID(u)
       PROVE  Outcome
  <2>1. PICK p \in Live : p = byUUID[u]
    BY <1>11, <1>0 DEF DeleteUpToUUID
  <2>2. heap[p].seq \in Int
    BY <2>1, SliceFacts DEF Inv, BufInv
  <2>3. DeleteUpToSeqLocked(heap[p].seq)
    BY <1>11, <2>1 DEF DeleteUpToUUID
  <2>4. QED
    BY <2>2, <2>3, DeleteUpToOutcome
<1>12. QED
  BY <1>1, <1>2, <1>3, <1>4, <1>5, <1>6, <1>7, <1>8, <1>9, <1>10, <1>11 DEF PointStep

----------------------------------------------------------------------------
(* Windows *)

LEMMA PairIs ==
  ASSUME NEW p, NEW a, NEW b, p = <<a, b>>
  PROVE  p[1] = a /\ p[2] = b
OBVIOUS

\* The items after a cursor are a suffix of the slice.
LEMMA LaterIs ==
  ASSUME TypeOK, Ordered, NEW after \in Int
  PROVE  {i \in DOMAIN items : SeqAt(i) > after} = FirstAfter(after)..Len(items)
<1>1. /\ Len(items) \in Nat /\ DOMAIN items = 1..Len(items) /\ FirstAfter(after) \in 1..(Len(items) + 1)
      /\ \A k \in 1..Len(items) : SeqAt(k) > after <=> k >= FirstAfter(after)
  BY SliceFacts, FirstAfterIs
<1>2. QED
  BY <1>1

\* sinceSeq returns the start of that suffix.
LEMMA SinceSeqIs ==
  ASSUME TypeOK, Ordered, NEW after \in Int, NEW limit \in Nat \ {0},
         NEW c, c = FirstAfter(after), NEW t, t = IF Len(items) - c + 1 > limit THEN limit ELSE Len(items) - c + 1
  PROVE  /\ SinceSeq(after, limit)[1] = SubSeq(items, c, c + t - 1)
         /\ SinceSeq(after, limit)[2] <=> Len(items) - c + 1 > limit
         /\ c \in 1..(Len(items) + 1) /\ t \in 0..(Len(items) + 1 - c)
<1>1. Len(items) \in Nat /\ c \in 1..(Len(items) + 1)
  BY SliceFacts, FirstAfterIs
<1>2. CASE c > Len(items)
  <2>1. SinceSeq(after, limit) = <<<<>>, FALSE>>
    BY <1>2 DEF SinceSeq
  <2>2. t = 0 /\ ~ (Len(items) - c + 1 > limit) /\ c + t - 1 \in Int /\ c + t - 1 < c /\ c \in Int
    BY <1>1, <1>2
  <2>3. SubSeq(items, c, c + t - 1) = <<>>
    BY <2>2, SubSeqEmpty
  <2>4. PICK w : w = FALSE
    OBVIOUS
  <2>5. SinceSeq(after, limit) = <<<<>>, w>>
    BY <2>1, <2>4, Zenon
  <2>6. SinceSeq(after, limit)[1] = <<>> /\ SinceSeq(after, limit)[2] = w
    BY <2>5, PairIs
  <2>7. SinceSeq(after, limit)[2] <=> Len(items) - c + 1 > limit
    BY <2>2, <2>4, <2>6, Zenon
  <2>8. t \in 0..(Len(items) + 1 - c)
    BY <2>2, <1>1, <1>2, SMTT(40)
  <2>9. QED
    BY <2>3, <2>6, <2>7, <2>8, <1>1, Zenon
<1>3. CASE ~ (c > Len(items))
  <2>1. SinceSeq(after, limit) = <<SubSeq(items, c, c + t - 1), Len(items) - c + 1 > limit>>
    BY <1>3 DEF SinceSeq
  <2>2. t \in 0..(Len(items) + 1 - c)
    BY <1>1, <1>3
  <2>3. /\ SinceSeq(after, limit)[1] = SubSeq(items, c, c + t - 1)
        /\ SinceSeq(after, limit)[2] = (Len(items) - c + 1 > limit)
    BY <2>1, PairIs, Zenon
  <2>4. QED
    BY <2>2, <2>3, <1>1
<1>4. QED
  BY <1>2, <1>3

\* A piece of the slice, item by item.
LEMMA PieceIs ==
  ASSUME TypeOK, NEW c \in 1..(Len(items) + 1), NEW t \in 0..(Len(items) + 1 - c)
  PROVE  /\ SubSeq(items, c, c + t - 1) \in Seq(Ptrs)
         /\ Len(SubSeq(items, c, c + t - 1)) = t
         /\ \A j \in 1..t : SubSeq(items, c, c + t - 1)[j] = items[c + j - 1]
<1>0. Len(items) \in Nat /\ c \in Nat /\ t \in Nat /\ \A k \in 1..Len(items) : items[k] \in Ptrs
  BY SliceFacts
<1>1. PICK s : s = SubSeq(items, c, c + t - 1)
  OBVIOUS
<1>2. c \in Int /\ c + t - 1 \in Int /\ \A k \in c..(c + t - 1) : items[k] \in Ptrs
  BY <1>0
<1>3. /\ s \in Seq(Ptrs) /\ Len(s) = (IF c <= c + t - 1 THEN (c + t - 1) - c + 1 ELSE 0)
      /\ \A j \in 1..((c + t - 1) - c + 1) : s[j] = items[c + j - 1]
  BY <1>1, <1>2, SubSeqProperties
<1>4. s \in Seq(Ptrs) /\ Len(s) = t /\ \A j \in 1..t : s[j] = items[c + j - 1]
  <2>1. (c + t - 1) - c + 1 = t
    BY <1>0
  <2>2. QED
    BY <2>1, <1>0, <1>3
<1>5. QED
  BY <1>1, <1>4

LEMMA HeadFromInv == BufInv => HeadIsTheWindow
<1> SUFFICES ASSUME BufInv PROVE HeadIsTheWindow
  OBVIOUS
<1>0. TypeOK /\ Ordered /\ Len(items) \in Nat /\ MaxSeq \in Nat /\ DOMAIN items = 1..Len(items)
  BY SliceFacts, ScopeBufferConstants DEF BufInv
<1>1. ASSUME NEW after \in 0..MaxSeq, NEW limit \in 1..(Len(items) + 1), NEW later, NEW first, NEW page,
             later = {i \in DOMAIN items : SeqAt(i) > after},
             first = {i \in later : Cardinality({j \in later : j < i}) < limit},
             page = SinceSeq(after, limit)[1]
      PROVE  /\ Range(page) = {items[i] : i \in first} /\ Len(page) = Cardinality(first)
             /\ \A i, j \in DOMAIN page : i < j => heap[page[i]].seq < heap[page[j]].seq
             /\ SinceSeq(after, limit)[2] <=> Cardinality(later) > limit
  <2>0. after \in Int /\ limit \in Nat \ {0}
    BY <1>0
  <2>1. PICK c : c = FirstAfter(after)
    OBVIOUS
  <2>2. PICK t : t = IF Len(items) - c + 1 > limit THEN limit ELSE Len(items) - c + 1
    OBVIOUS
  <2>3. /\ page = SubSeq(items, c, c + t - 1) /\ (SinceSeq(after, limit)[2] <=> Len(items) - c + 1 > limit)
        /\ c \in 1..(Len(items) + 1) /\ t \in 0..(Len(items) + 1 - c)
    BY <2>0, <2>1, <2>2, <1>0, <1>1, SinceSeqIs
  <2>4. later = c..Len(items)
    BY <2>0, <2>1, <1>0, <1>1, LaterIs
  <2>5. ASSUME NEW i \in later PROVE Cardinality({j \in later : j < i}) = i - c
    <3>1. {j \in later : j < i} = c..(i - 1)
      BY <2>3, <2>4, <1>0
    <3>2. c \in Int /\ i \in Int /\ i - 1 \in Int /\ i >= c
      BY <2>3, <2>4, <1>0
    <3>3. Cardinality(c..(i - 1)) = IF c > i - 1 THEN 0 ELSE (i - 1) - c + 1
      BY <3>2, FS_Interval
    <3>4. Cardinality({j \in later : j < i}) = Cardinality(c..(i - 1))
      BY <3>1, Zenon
    <3>5. (IF c > i - 1 THEN 0 ELSE (i - 1) - c + 1) = i - c
      BY <3>2
    <3>6. QED
      BY <3>3, <3>4, <3>5, Zenon
  <2>6. first = c..(c + t - 1)
    <3>1. \A i : i \in first <=> i \in later /\ i - c < limit
      BY <2>5, <1>1
    <3>2. ASSUME NEW i PROVE i \in first <=> i \in c..(c + t - 1)
      <4>1. i \in first <=> i \in c..Len(items) /\ i - c < limit
        BY <3>1, <2>4
      <4>2. CASE Len(items) - c + 1 > limit
        BY <4>1, <4>2, <2>0, <2>2, <2>3, <1>0
      <4>3. CASE ~ (Len(items) - c + 1 > limit)
        BY <4>1, <4>3, <2>0, <2>2, <2>3, <1>0
      <4>4. QED
        BY <4>2, <4>3
    <3>3. QED
      BY <3>2
  <2>7. Cardinality(first) = t
    <3>1. c \in Int /\ c + t - 1 \in Int /\ t \in Nat
      BY <2>3, <1>0
    <3>2. Cardinality(c..(c + t - 1)) = IF c > c + t - 1 THEN 0 ELSE (c + t - 1) - c + 1
      BY <3>1, FS_Interval
    <3>3. QED
      BY <3>1, <3>2, <2>6
  <2>8. Cardinality(later) = Len(items) - c + 1
    <3>1. c \in Int /\ Len(items) \in Int /\ c <= Len(items) + 1
      BY <2>3, <1>0
    <3>2. Cardinality(c..Len(items)) = IF c > Len(items) THEN 0 ELSE Len(items) - c + 1
      BY <3>1, FS_Interval
    <3>3. QED
      BY <3>1, <3>2, <2>4
  <2>9. page \in Seq(Ptrs) /\ Len(page) = t /\ \A j \in 1..t : page[j] = items[c + j - 1]
    BY <2>3, <1>0, PieceIs
  <2>10. DOMAIN page = 1..t
    BY <2>9, LenProperties
  <2>11. Range(page) = {items[i] : i \in first}
    <3>1. ASSUME NEW x \in Range(page) PROVE x \in {items[i] : i \in first}
      <4>1. PICK j \in 1..t : x = page[j]
        BY <2>10 DEF Range
      <4>2. c + j - 1 \in first
        BY <2>3, <2>6, <1>0
      <4>3. QED
        BY <4>1, <4>2, <2>9
    <3>2. ASSUME NEW i \in first PROVE items[i] \in Range(page)
      <4>1. PICK j : j = i + 1 - c
        OBVIOUS
      <4>2. j \in 1..t /\ c + j - 1 = i
        BY <4>1, <2>3, <2>6, <1>0
      <4>3. j \in DOMAIN page /\ page[j] = items[i]
        BY <4>2, <2>9, <2>10
      <4>4. QED
        BY <4>3 DEF Range
    <3>3. QED
      BY <3>1, <3>2
  <2>12. ASSUME NEW i \in DOMAIN page, NEW j \in DOMAIN page, i < j
         PROVE  heap[page[i]].seq < heap[page[j]].seq
    <3>1. c + i - 1 \in 1..Len(items) /\ c + j - 1 \in 1..Len(items) /\ c + i - 1 < c + j - 1
      BY <2>12, <2>3, <2>10, <1>0
    <3>2. page[i] = items[c + i - 1] /\ page[j] = items[c + j - 1]
      BY <2>9, <2>10
    <3>3. QED
      BY <3>1, <3>2, <1>0 DEF Ordered
  <2>13. QED
    BY <2>3, <2>7, <2>8, <2>9, <2>11, <2>12
<1>2. QED
  BY <1>1 DEF HeadIsTheWindow

LEMMA DrainFromInv == BufInv => DrainRemovesWhatItRead
<1> SUFFICES ASSUME BufInv, NEW limit \in 1..(Len(items) + 1), NEW page, page = SinceSeq(0, limit)[1], page # <<>>
             PROVE  page \o Kept(heap[Last(page)].seq) = items
  BY DEF DrainRemovesWhatItRead
<1>0. TypeOK /\ Ordered /\ Len(items) \in Nat /\ items \in Seq(Ptrs)
      /\ \A i \in 1..Len(items) : SeqAt(i) \in Int /\ SeqAt(i) > 0
  BY SliceFacts, ScopeBufferConstants DEF BufInv, TypeOK, SeqAt, ItemAt
<1>1. PICK c : c = FirstAfter(0)
  OBVIOUS
<1>2. c \in 1..(Len(items) + 1) /\ \A k \in 1..Len(items) : SeqAt(k) > 0 <=> k >= c
  <2>1. PICK z \in Int : z = 0
    OBVIOUS
  <2>2. FirstAfter(z) \in 1..(Len(items) + 1) /\ \A k \in 1..Len(items) : SeqAt(k) > z <=> k >= FirstAfter(z)
    BY <1>0, FirstAfterIs
  <2>3. QED
    BY <2>1, <2>2, <1>1
<1>3. c = 1
  <2>1. CASE Len(items) = 0
    BY <2>1, <1>2
  <2>2. CASE Len(items) # 0
    BY <2>2, <1>0, <1>2
  <2>3. QED
    BY <2>1, <2>2
<1>4. PICK t : t = IF Len(items) - c + 1 > limit THEN limit ELSE Len(items) - c + 1
  OBVIOUS
<1>5. page = SubSeq(items, c, c + t - 1) /\ t \in 0..(Len(items) + 1 - c)
  <2>1. 0 \in Int /\ limit \in Nat \ {0}
    BY <1>0
  <2>2. QED
    BY <2>1, <1>0, <1>1, <1>4, SinceSeqIs
<1>6. page \in Seq(Ptrs) /\ Len(page) = t /\ \A j \in 1..t : page[j] = items[c + j - 1]
  BY <1>0, <1>2, <1>5, PieceIs
<1>7. t \in 1..Len(items) /\ Last(page) = items[t]
  <2>1. Len(page) \in Nat \ {0}
    BY <1>6, EmptySeq
  <2>2. t \in 1..Len(items) /\ t \in 1..t /\ c + t - 1 = t
    BY <2>1, <1>0, <1>3, <1>5, <1>6
  <2>3. QED
    BY <2>2, <1>6 DEF Last
<1>8. PICK n : n = heap[items[t]].seq
  OBVIOUS
<1>9. n \in Int /\ n = SeqAt(t)
  BY <1>0, <1>7, <1>8 DEF SeqAt, ItemAt
<1>10. FirstAfter(n) = t + 1
  <2>1. FirstAfter(n) \in 1..(Len(items) + 1) /\ \A k \in 1..Len(items) : SeqAt(k) > n <=> k >= FirstAfter(n)
    BY <1>0, <1>9, FirstAfterIs
  <2>2. \A i, j \in 1..Len(items) : i < j => SeqAt(i) < SeqAt(j)
    BY <1>0, SliceFacts DEF Ordered, SeqAt, ItemAt
  <2>3. FirstAfter(n) > t
    BY <2>1, <1>0, <1>7, <1>9
  <2>4. ~ (FirstAfter(n) > t + 1)
    <3>1. SUFFICES ASSUME FirstAfter(n) > t + 1 PROVE FALSE
      OBVIOUS
    <3>2. t + 1 \in 1..Len(items) /\ t < t + 1
      BY <3>1, <2>1, <1>0, <1>7
    <3>3. SeqAt(t + 1) > n
      BY <3>2, <2>2, <1>0, <1>7, <1>9
    <3>4. QED
      BY <3>1, <3>2, <3>3, <2>1, <1>7
  <2>5. QED
    BY <2>1, <2>3, <2>4, <1>7, <1>0
<1>11. Kept(heap[Last(page)].seq) = SubSeq(items, t + 1, Len(items))
  BY <1>7, <1>8, <1>10 DEF Kept
<1>12. page = SubSeq(items, 1, t)
  <2>1. c + t - 1 = t
    BY <1>3, <1>7
  <2>2. QED
    BY <2>1, <1>3, <1>5
<1>13. SubSeq(items, 1, t) \o SubSeq(items, t + 1, Len(items)) = SubSeq(items, 1, Len(items))
  <2>1. 1 \in 1..(Len(items) + 1) /\ t \in (1 - 1)..Len(items) /\ Len(items) \in t..Len(items)
    BY <1>0, <1>7
  <2>2. QED
    BY <2>1, <1>0, ConcatAdjacentSubSeq
<1>14. SubSeq(items, 1, Len(items)) = items
  BY <1>0, SubSeqFull
<1>15. QED
  BY <1>11, <1>12, <1>13, <1>14

\* tailOffset returns the items before the offset, as many as there are up to limit.
LEMMA TailOffsetIs ==
  ASSUME TypeOK, NEW limit \in Nat \ {0}, NEW offset \in Nat, offset < Len(items)
  PROVE  \E s, f, more : /\ s = Len(items) - offset - limit /\ f = (IF s < 0 THEN 0 ELSE s)
                         /\ more = (s > 0)
                         /\ TailOffset(limit, offset)[1] = SubSeq(items, f + 1, Len(items) - offset)
                         /\ TailOffset(limit, offset)[2] = more
<1>1. Len(items) \in Nat
  BY SliceFacts
<1>2. PICK s : s = Len(items) - offset - limit
  OBVIOUS
<1>3. PICK f : f = IF s < 0 THEN 0 ELSE s
  OBVIOUS
<1>4. PICK more : more = (s > 0)
  OBVIOUS
<1>5. ~ (limit <= 0 \/ offset < 0 \/ offset >= Len(items) \/ f >= Len(items) - offset)
  BY <1>1, <1>2, <1>3
<1>6. TailOffset(limit, offset) = IF limit <= 0 \/ offset < 0 \/ offset >= Len(items) \/ f >= Len(items) - offset
                                  THEN <<<<>>, FALSE>> ELSE <<SubSeq(items, f + 1, Len(items) - offset), more>>
  BY <1>2, <1>3, <1>4, Zenon DEF TailOffset, OlderLeft
<1>7. TailOffset(limit, offset) = <<SubSeq(items, f + 1, Len(items) - offset), more>>
  BY <1>5, <1>6, Zenon
<1>8. TailOffset(limit, offset)[1] = SubSeq(items, f + 1, Len(items) - offset) /\ TailOffset(limit, offset)[2] = more
  <2>1. PICK r : r = TailOffset(limit, offset)
    OBVIOUS
  <2>2. PICK sq : sq = SubSeq(items, f + 1, Len(items) - offset)
    OBVIOUS
  <2>3. r = <<sq, more>>
    BY <1>7, <2>1, <2>2, Zenon
  <2>4. r[1] = sq /\ r[2] = more
    BY <2>3, PairIs, Zenon
  <2>5. QED
    BY <2>1, <2>2, <2>4, Zenon
<1>9. QED
  BY <1>2, <1>3, <1>4, <1>8, Zenon

\* The page of tailOffset in the terms of its reference: it begins after f items
\* and ends before the last offset ones, and it is empty when there are no others.
LEMMA TailPageIs ==
  ASSUME TypeOK, NEW limit \in Nat \ {0}, NEW offset \in Nat
  PROVE  \E f, e \in Nat : /\ f <= e /\ e <= Len(items)
                           /\ TailOffset(limit, offset)[1] = SubSeq(items, f + 1, e)
                           /\ TailOffset(limit, offset)[2] <=> Len(items) > offset + limit
                           /\ \A i \in 1..Len(items) :
                                i > f /\ i <= e <=> offset <= Len(items) - i /\ Len(items) - i < offset + limit
<1>1. Len(items) \in Nat
  BY SliceFacts
<1>2. CASE offset < Len(items)
  <2>1. PICK s, f, more : /\ s = Len(items) - offset - limit /\ f = (IF s < 0 THEN 0 ELSE s)
                          /\ more = (s > 0)
                          /\ TailOffset(limit, offset)[1] = SubSeq(items, f + 1, Len(items) - offset)
                          /\ TailOffset(limit, offset)[2] = more
    BY <1>2, TailOffsetIs, Zenon
  <2>2. PICK e : e = Len(items) - offset
    OBVIOUS
  <2>3. s = Len(items) - offset - limit /\ f = (IF s < 0 THEN 0 ELSE s)
    BY <2>1, Zenon
  <2>4. f \in Nat /\ e \in Nat /\ f <= e /\ e <= Len(items)
    BY <2>2, <2>3, <1>1, <1>2
  <2>5. \A i \in 1..Len(items) : i > f /\ i <= e <=> offset <= Len(items) - i /\ Len(items) - i < offset + limit
    BY <2>2, <2>3, <1>1, <1>2
  <2>6. s > 0 <=> Len(items) > offset + limit
    BY <2>3, <1>1
  <2>7. TailOffset(limit, offset)[2] <=> Len(items) > offset + limit
    BY <2>1, <2>6, Zenon
  <2>8. TailOffset(limit, offset)[1] = SubSeq(items, f + 1, e)
    BY <2>1, <2>2, Zenon
  <2>9. QED
    BY <2>4, <2>5, <2>7, <2>8, Zenon
<1>3. CASE ~ (offset < Len(items))
  <2>1. offset >= Len(items)
    BY <1>1, <1>3
  <2>2. TailOffset(limit, offset) = <<<<>>, FALSE>>
    BY <2>1, Zenon DEF TailOffset
  <2>3. TailOffset(limit, offset)[1] = <<>> /\ TailOffset(limit, offset)[2] = FALSE
    <3>1. PICK r : r = TailOffset(limit, offset)
      OBVIOUS
    <3>2. PICK sq : sq = <<>>
      OBVIOUS
    <3>3. PICK no : no = FALSE
      OBVIOUS
    <3>4. r = <<sq, no>>
      BY <2>2, <3>1, <3>2, <3>3, Zenon
    <3>5. r[1] = sq /\ r[2] = no
      BY <3>4, PairIs, Zenon
    <3>6. QED
      BY <3>1, <3>2, <3>3, <3>5, Zenon
  <2>4. SubSeq(items, 0 + 1, 0) = <<>>
    <3>1. items \in Seq(Ptrs)
      BY DEF TypeOK
    <3>2. 0 + 1 \in 1..(Len(items) + 1) /\ 0 \in (0 + 1 - 1)..Len(items)
      BY <1>1
    <3>3. SubSeq(items, 0 + 1, 0) \in Seq(Ptrs) /\ Len(SubSeq(items, 0 + 1, 0)) = 0
      BY <3>1, <1>1
    <3>4. QED
      BY <3>3, EmptySeq
  <2>5. \A i \in 1..Len(items) : i > 0 /\ i <= 0 <=> offset <= Len(items) - i /\ Len(items) - i < offset + limit
    BY <2>1, <1>1
  <2>6. ~ (Len(items) > offset + limit)
    BY <2>1, <1>1
  <2>7. 0 \in Nat /\ 0 <= 0 /\ 0 <= Len(items)
    BY <1>1
  <2>8. TailOffset(limit, offset)[1] = SubSeq(items, 0 + 1, 0) /\ (TailOffset(limit, offset)[2] <=> Len(items) > offset + limit)
    BY <2>3, <2>4, <2>6, Zenon
  <2>9. QED
    BY <2>5, <2>7, <2>8, Zenon
<1>4. QED
  BY <1>2, <1>3

\* The number of newer items is the distance to the end of the slice.
LEMMA NewerIs ==
  ASSUME TypeOK, NEW i \in DOMAIN items
  PROVE  Newer(i) = Len(items) - i /\ i \in 1..Len(items)
<1>1. Len(items) \in Nat /\ DOMAIN items = 1..Len(items)
  BY SliceFacts, LenProperties DEF TypeOK
<1>2. {j \in DOMAIN items : j > i} = (i + 1)..Len(items)
  BY <1>1
<1>3. i + 1 \in Int /\ Len(items) \in Int /\ i \in 1..Len(items)
  BY <1>1
<1>4. Cardinality((i + 1)..Len(items)) = IF i + 1 > Len(items) THEN 0 ELSE Len(items) - (i + 1) + 1
  BY <1>3, FS_Interval
<1>5. (IF i + 1 > Len(items) THEN 0 ELSE Len(items) - (i + 1) + 1) = Len(items) - i
  BY <1>1, <1>3
<1>6. Newer(i) = Cardinality((i + 1)..Len(items))
  BY <1>2, Zenon DEF Newer
<1>7. QED
  BY <1>3, <1>4, <1>5, <1>6, Zenon

\* A place in the piece of a slice of n that begins after f and ends at e.
LEMMA InPiece ==
  ASSUME NEW f \in Nat, NEW e \in Nat, NEW n \in Nat, e <= n, NEW k \in Int, 1 <= k, k <= e - f
  PROVE  (f + 1) + k - 1 \in 1..n
OBVIOUS

LEMMA TailFromInv == BufInv => TailIsTheWindow
<1> SUFFICES ASSUME BufInv PROVE TailIsTheWindow
  OBVIOUS
<1>0. /\ TypeOK /\ Ordered /\ Len(items) \in Nat /\ items \in Seq(Ptrs) /\ DOMAIN items = 1..Len(items)
  BY SliceFacts, LenProperties DEF BufInv, TypeOK
<1>1. ASSUME NEW limit \in 1..(Len(items) + 1), NEW offset \in 0..(Len(items) + 1),
             NEW inside, inside = {i \in DOMAIN items : offset <= Newer(i) /\ Newer(i) < offset + limit},
             NEW page, page = TailOffset(limit, offset)[1]
      PROVE  /\ Range(page) = {items[i] : i \in inside} /\ Len(page) = Cardinality(inside)
             /\ \A i, j \in DOMAIN page : i < j => heap[page[i]].seq < heap[page[j]].seq
             /\ TailOffset(limit, offset)[2] <=> \E i \in DOMAIN items : Newer(i) >= offset + limit
  <2>0. limit \in Nat \ {0} /\ offset \in Nat
    BY <1>0
  <2>1. PICK f, e \in Nat : /\ f <= e /\ e <= Len(items)
                            /\ TailOffset(limit, offset)[1] = SubSeq(items, f + 1, e)
                            /\ TailOffset(limit, offset)[2] <=> Len(items) > offset + limit
                            /\ \A i \in 1..Len(items) :
                                 i > f /\ i <= e <=> offset <= Len(items) - i /\ Len(items) - i < offset + limit
    BY <2>0, <1>0, TailPageIs
  <2>2. inside = (f + 1)..e
    <3>1. ASSUME NEW i PROVE i \in inside <=> i \in (f + 1)..e
      <4>1. CASE i \in 1..Len(items)
        <5>1. Newer(i) = Len(items) - i
          BY <4>1, <1>0, NewerIs
        <5>2. i \in inside <=> i > f /\ i <= e
          BY <4>1, <5>1, <2>1, <1>0, <1>1
        <5>3. QED
          BY <4>1, <5>2, <2>1
      <4>2. CASE i \notin 1..Len(items)
        <5>1. f <= e /\ e <= Len(items) /\ Len(items) \in Nat
          BY <2>1, <1>0
        <5>2. i \notin (f + 1)..e
          BY <4>2, <5>1
        <5>3. i \notin inside
          BY <4>2, <1>0, <1>1
        <5>4. QED
          BY <5>2, <5>3
      <4>3. QED
        BY <4>1, <4>2
    <3>2. QED
      BY <3>1
  <2>3. PICK t : t = e - f
    OBVIOUS
  <2>4. t \in Nat /\ f + 1 \in 1..(Len(items) + 1) /\ t \in 0..(Len(items) + 1 - (f + 1)) /\ (f + 1) + t - 1 = e
    BY <2>1, <2>3, <1>0
  <2>5. page \in Seq(Ptrs) /\ Len(page) = t /\ \A j \in 1..t : page[j] = items[(f + 1) + j - 1]
    <3>1. page = SubSeq(items, f + 1, (f + 1) + t - 1)
      BY <2>1, <2>4, <1>1
    <3>2. QED
      BY <3>1, <2>4, <1>0, PieceIs
  <2>6. DOMAIN page = 1..t
    BY <2>5, LenProperties
  <2>7. Cardinality(inside) = t
    <3>1. f + 1 \in Int /\ e \in Int
      BY <2>1
    <3>2. Cardinality((f + 1)..e) = IF f + 1 > e THEN 0 ELSE e - (f + 1) + 1
      BY <3>1, FS_Interval
    <3>3. (IF f + 1 > e THEN 0 ELSE e - (f + 1) + 1) = t
      BY <2>1, <2>3
    <3>4. QED
      BY <3>2, <3>3, <2>2, Zenon
  <2>8. Range(page) = {items[i] : i \in inside}
    <3>1. ASSUME NEW x \in Range(page) PROVE x \in {items[i] : i \in inside}
      <4>1. PICK j \in 1..t : x = page[j]
        BY <2>6 DEF Range
      <4>2. (f + 1) + j - 1 \in inside
        BY <2>1, <2>2, <2>3
      <4>3. QED
        BY <4>1, <4>2, <2>5
    <3>2. ASSUME NEW i \in inside PROVE items[i] \in Range(page)
      <4>1. PICK j : j = i - f
        OBVIOUS
      <4>2. j \in 1..t /\ (f + 1) + j - 1 = i
        BY <4>1, <2>1, <2>2, <2>3
      <4>3. j \in DOMAIN page /\ page[j] = items[i]
        BY <4>2, <2>5, <2>6
      <4>4. QED
        BY <4>3 DEF Range
    <3>3. QED
      BY <3>1, <3>2
  <2>9. ASSUME NEW i \in DOMAIN page, NEW j \in DOMAIN page, i < j
        PROVE  heap[page[i]].seq < heap[page[j]].seq
    <3>1. /\ (f + 1) + i - 1 \in 1..Len(items) /\ (f + 1) + j - 1 \in 1..Len(items)
          /\ (f + 1) + i - 1 < (f + 1) + j - 1
      <4>1. i \in 1..t /\ j \in 1..t /\ t \in Int /\ t = e - f /\ e <= Len(items) /\ Len(items) \in Nat
        BY <2>1, <2>3, <2>4, <2>6, <1>0
      <4>2. i \in Int /\ j \in Int /\ 1 <= i /\ i <= e - f /\ 1 <= j /\ j <= e - f
        BY <4>1
      <4>3. (f + 1) + i - 1 \in 1..Len(items)
        BY <4>1, <4>2, InPiece, Zenon
      <4>4. (f + 1) + j - 1 \in 1..Len(items)
        BY <4>1, <4>2, InPiece, Zenon
      <4>5. (f + 1) + i - 1 < (f + 1) + j - 1
        BY <2>9, <4>2
      <4>6. QED
        BY <4>3, <4>4, <4>5
    <3>2. page[i] = items[(f + 1) + i - 1] /\ page[j] = items[(f + 1) + j - 1]
      BY <2>5, <2>6
    <3>3. QED
      BY <3>1, <3>2, <1>0 DEF Ordered
  <2>10. Len(items) > offset + limit <=> \E i \in DOMAIN items : Newer(i) >= offset + limit
    <3>1. ASSUME Len(items) > offset + limit PROVE \E i \in DOMAIN items : Newer(i) >= offset + limit
      <4>1. 1 \in DOMAIN items
        BY <3>1, <2>0, <1>0
      <4>2. Newer(1) = Len(items) - 1
        BY <4>1, <1>0, NewerIs
      <4>3. Newer(1) >= offset + limit
        BY <3>1, <4>2, <2>0, <1>0
      <4>4. QED
        BY <4>1, <4>3
    <3>2. ASSUME NEW i \in DOMAIN items, Newer(i) >= offset + limit PROVE Len(items) > offset + limit
      <4>1. Newer(i) = Len(items) - i /\ i \in 1..Len(items)
        BY <1>0, NewerIs
      <4>2. QED
        BY <3>2, <4>1, <2>0, <1>0
    <3>3. QED
      BY <3>1, <3>2
  <2>11. TailOffset(limit, offset)[2] <=> \E i \in DOMAIN items : Newer(i) >= offset + limit
    BY <2>1, <2>10, Zenon
  <2>12. QED
    BY <2>5, <2>7, <2>8, <2>9, <2>11
<1>2. QED
  BY <1>1 DEF TailIsTheWindow

LEMMA WindowsFromInv == BufInv => WindowsExact
BY HeadFromInv, DrainFromInv, TailFromInv DEF WindowsExact

LEMMA InvInit == Init => Inv
<1> SUFFICES ASSUME Init PROVE Inv
  OBVIOUS
<1>1. /\ heap = [p \in Ptrs |-> AnyItem] /\ items = <<>>
      /\ byID = EmptyIndex /\ bySeq = EmptyIndex /\ byUUID = EmptyIndex
      /\ lastSeq = 0 /\ firstUUID = NoUUID /\ lastUUID = NoUUID
      /\ bytes = 0 /\ idKeyBytes = 0 /\ capacity = 0
  BY DEF Init
<1>2. Live = {} /\ Named = {} /\ DOMAIN items = {}
  BY <1>1 DEF Live, Named, Range
<1>3. Indexed
  BY <1>1, <1>2, NoIndex DEF Indexed
<1>4. Ordered /\ KeysDistinct /\ SeqsIssued /\ Span /\ LimitInv
  BY <1>1, <1>2 DEF Ordered, KeysDistinct, Distinct, SeqsIssued, Span, LimitInv
<1>5. TypeOK
  <2>1. AnyItem \in Item
    <3>1. 1 \in 1..MaxSeq /\ (CHOOSE u \in UUIDs : TRUE) \in UUIDs
      BY ScopeBufferConstants
    <3>2. QED
      BY <3>1 DEF AnyItem, Item
  <2>2. heap \in [Ptrs -> Item]
    BY <1>1, <2>1
  <2>3. items \in Seq(Ptrs) /\ Len(items) = 0
    BY <1>1, EmptySeq
  <2>4. Range(EmptyIndex) = {} /\ DOMAIN EmptyIndex = {}
    BY DEF EmptyIndex, Range
  <2>5. \A f \in {byID, bySeq, byUUID} : Range(f) \subseteq Ptrs
    BY <1>1, <2>4
  <2>6. lastSeq \in 0..MaxSeq /\ capacity \in Nat /\ Len(items) <= capacity /\ bytes \in Int /\ idKeyBytes \in Int
    BY <1>1, <2>3, ScopeBufferConstants
  <2>7. DOMAIN byID \subseteq Ids /\ DOMAIN bySeq \subseteq 1..MaxSeq /\ DOMAIN byUUID \subseteq UUIDs
        /\ {firstUUID, lastUUID} \subseteq UUIDs \cup {NoUUID}
    BY <1>1, <2>4
  <2>8. QED
    BY <2>2, <2>3, <2>5, <2>6, <2>7 DEF TypeOK
<1>6. Accounted
  <2>1. PICK f : f = [p \in Live |-> ApproxItemSize(heap[p])]
    OBVIOUS
  <2>2. IsFiniteSet(Live) /\ \A p \in Live : f[p] \in Int
    BY <1>2, FS_EmptySet
  <2>3. SumFunctionOnSet(f, Live) = 0
    BY <2>2, <1>2, SumType
  <2>4. QED
    BY <2>1, <2>3, <1>1, ScopeBufferConstants DEF Accounted, SizesOf
<1>7. QED
  BY <1>3, <1>4, <1>5, <1>6 DEF Inv, BufInv

\* A replacement starts the scope over.
LEMMA ReplaceStepInv ==
  ASSUME Inv, NEW bt \in Batches, NEW us \in [DOMAIN bt -> UUIDs],
         CommitReplacement(bt, us) \/ RebuildInto(bt, us)
  PROVE  Inv' /\ (CommitReplacement(bt, us) => IdKeyDrift' = 0)
<1>0. BufInv /\ BuildReplacementState(bt, us)
  BY DEF Inv, CommitReplacement, RebuildInto
<1>1. CASE CommitReplacement(bt, us)
  <2>2. BatchIdBytes(bt) \in Int
    BY <1>0, BatchIdBytesType
  <2>3. idKeyBytes' = BatchIdBytes(bt) /\ idKeyBytes' \in Int
    BY <1>1, <2>2 DEF CommitReplacement
  <2>4. /\ BufInv' /\ LimitInv'
        /\ bytes' = SizesOf(Live)' /\ BatchIdBytes(bt) = IdBytesOf(Live)'
    BY <1>0, <2>3, ReplacementKeeps
  <2>5. bytes' <= Budget
    <3>1. bytes \in Int /\ bytes' \in Int /\ bytes <= Budget /\ Budget \in Int
      BY <2>4, ScopeBufferConstants DEF Inv, BufInv, TypeOK, Accounted
    <3>2. bytes' - bytes <= 0 \/ bytes + (bytes' - bytes) <= Budget
      BY <1>1 DEF CommitReplacement, Reserves
    <3>3. \A x, y, z \in Int : x <= z /\ (y - x <= 0 \/ x + (y - x) <= z) => y <= z
      OBVIOUS
    <3>4. QED
      BY <3>1, <3>2, <3>3, Zenon
  <2>6. IdKeyDrift' = 0
    BY <2>2, <2>3, <2>4 DEF IdKeyDrift, Live
  <2>7. QED
    BY <2>4, <2>5, <2>6 DEF Inv, Accounted
<1>2. CASE RebuildInto(bt, us) /\ ~ CommitReplacement(bt, us)
  <2>1. idKeyBytes' \in Int /\ bytes' <= Budget
    BY <1>2 DEF RebuildInto
  <2>2. BufInv' /\ LimitInv' /\ bytes' = SizesOf(Live)'
    BY <1>0, <2>1, ReplacementKeeps
  <2>3. QED
    BY <1>2, <2>1, <2>2 DEF Inv, Accounted
<1>3. QED
  BY <1>1, <1>2

LEMMA InvStep == Inv /\ [Next]_vars => Inv'
<1> SUFFICES ASSUME Inv, [Next]_vars PROVE Inv'
  OBVIOUS
<1>1. CASE PointStep
  BY <1>1, PointOutcome DEF Outcome
<1>2. CASE ReplaceStep
  BY <1>2, ReplaceStepInv DEF ReplaceStep
<1>3. CASE UNCHANGED vars
  <2>0. /\ heap' = heap /\ items' = items /\ byID' = byID /\ bySeq' = bySeq /\ byUUID' = byUUID
        /\ lastSeq' = lastSeq /\ firstUUID' = firstUUID /\ lastUUID' = lastUUID
        /\ bytes' = bytes /\ idKeyBytes' = idKeyBytes /\ capacity' = capacity
    BY <1>3 DEF vars
  <2>1. Live' = Live /\ SeqKey' = SeqKey /\ UUIDKey' = UUIDKey /\ IdKey' = IdKey
    BY <2>0 DEF Live, SeqKey, UUIDKey, IdKey
  <2>2. Named' = Named
    BY <2>0, <2>1 DEF Named
  <2>3. TypeOK' /\ Ordered'
    BY <2>0 DEF Inv, BufInv, TypeOK, Ordered
  <2>4. KeysDistinct' /\ Indexed'
    BY <2>0, <2>1, <2>2 DEF Inv, BufInv, KeysDistinct, Indexed
  <2>5. SeqsIssued' /\ Span'
    BY <2>0, <2>1 DEF Inv, BufInv, SeqsIssued, Span
  <2>6. LimitInv'
    BY <2>0, <2>1 DEF Inv, LimitInv, Sound, ApproxItemSize
  <2>7. SizesOf(Live)' = SizesOf(Live)
    BY <2>0, <2>1 DEF SizesOf, ApproxItemSize
  <2>8. QED
    BY <2>0, <2>3, <2>4, <2>5, <2>6, <2>7 DEF Inv, BufInv, Accounted
<1>4. QED
  BY <1>1, <1>2, <1>3 DEF Next

\* What Outcome says in the words of IdentityForLife.
LEMMA IdentityFromOutcome ==
  ASSUME Inv, Outcome
  PROVE  IdentityKept
<1>0. /\ TypeOK /\ SeqsIssued /\ IsIndex(bySeq, Live, SeqKey) /\ TypeOK' /\ IsIndex(bySeq', Live', SeqKey')
      /\ lastSeq \in Int /\ lastSeq' \in Int /\ lastSeq' >= lastSeq
  BY DEF Inv, Outcome, BufInv, Indexed, TypeOK
<1>1. \A p \in Live : p \in Ptrs /\ SeqKey[p] = heap[p].seq /\ heap[p].seq \in Int
  BY <1>0, SliceFacts
<1>2. Live' \subseteq Ptrs
  BY <1>0 DEF TypeOK, Live, Range
<1>3. \A p \in Live' : SeqKey'[p] = heap'[p].seq
  BY <1>2 DEF SeqKey
<1>4. ASSUME NEW n \in DOMAIN bySeq'
      PROVE  IF n <= lastSeq
             THEN /\ n \in DOMAIN bySeq
                  /\ heap'[bySeq'[n]].uuid = heap[bySeq[n]].uuid
                  /\ heap'[bySeq'[n]].id = heap[bySeq[n]].id
             ELSE n = lastSeq'
  <2>1. PICK p \in Live' : n = heap'[p].seq /\ bySeq'[n] = p
    BY <1>0, <1>3 DEF IsIndex
  <2>2. CASE /\ p \in Live /\ heap'[p].seq = heap[p].seq
             /\ heap'[p].uuid = heap[p].uuid /\ heap'[p].id = heap[p].id
    <3>1. n = SeqKey[p] /\ n <= lastSeq
      BY <2>1, <2>2, <1>0, <1>1 DEF SeqsIssued
    <3>2. n \in DOMAIN bySeq /\ bySeq[n] = p
      BY <2>2, <3>1, <1>0 DEF IsIndex
    <3>3. QED
      BY <2>1, <2>2, <3>1, <3>2
  <2>3. CASE heap'[p].seq = lastSeq' /\ lastSeq' > lastSeq
    BY <2>1, <2>3, <1>0
  <2>4. QED
    BY <2>2, <2>3 DEF Outcome
<1>5. QED
  BY <1>0, <1>4 DEF IdentityKept

----------------------------------------------------------------------------
(* Theorems *)

\* The slice, the indexes and the cursors of a scope buffer have their types
\* after every mix of writes, deletes and batches.
THEOREM TypeCorrect == Spec => []TypeOK
<1>1. Inv => TypeOK
  BY DEF Inv, BufInv
<1>2. QED
  BY <1>1, InvInit, InvStep, PTL DEF Spec

\* The slice stays in seq order and the three maps its exact inverses, span
\* included: what insertNewItemLocked, replaceItemAtIndexLocked, deleteIndexLocked,
\* deleteUpToSeqLocked, shrinkIfSparseLocked and the two batch commits do to them
\* one by one adds up, for every set of ids, uuids, payloads and batches.
THEOREM IndexesAlwaysExact == Spec => []IndexesExact
<1>1. Inv => IndexesExact
  BY IndexesFromInv DEF Inv
<1>2. QED
  BY <1>1, InvInit, InvStep, PTL DEF Spec

\* The pages of /head and /tail are the windows they claim to be, however the
\* scope came to be: binary search, half-open bounds and hasMore included, tail
\* pages tile the scope and draining up to the end of a page removes that page.
THEOREM WindowsAlwaysExact == Spec => []WindowsExact
<1>1. Inv => WindowsExact
  BY WindowsFromInv DEF Inv
<1>2. QED
  BY <1>1, InvInit, InvStep, PTL DEF Spec

\* b.bytes, kept by adding deltas, is the sum of approxItemSize over the items,
\* and never above what the store-wide cap admitted.
THEOREM BytesAlwaysExact == Spec => []BytesExact
<1>1. Inv => BytesExact
  BY DEF Inv, Accounted, BytesExact, Live
<1>2. QED
  BY <1>1, InvInit, InvStep, PTL DEF Spec

\* No mix of requests and batches stores an item above the per-item cap, a counter
\* out of its range, or an item that is both a counter and a payload.
THEOREM ItemsAlwaysWithinLimits == Spec => []ItemsWithinLimits
<1>1. Inv => ItemsWithinLimits
  BY LimitsFromInv DEF Inv
<1>2. QED
  BY <1>1, InvInit, InvStep, PTL DEF Spec

\* The point writes and the deletes never give a seq out twice and never change
\* the id or the uuid of an item that stays.
THEOREM IdentityIsForLife == Spec => IdentityForLife
<1>1. Inv /\ [Next]_vars => [~ IdentityKept => ~ PointStep]_vars
  BY PointOutcome, IdentityFromOutcome
<1>2. QED
  BY <1>1, InvInit, InvStep, PTL DEF Spec, IdentityForLife

\* idKeyBytes keeps its distance from the sum of the id lengths, or loses it:
\* only the buffer that rebuildAll fills can open a new one.
THEOREM DriftOnlyByRebuild == Spec => IdKeyDriftOnlyByRebuild
<1>1. Inv /\ [Next]_vars =>
        [IdKeyDrift' \notin {IdKeyDrift, 0} =>
           ~ (PointStep \/ \E bt \in Batches : \E us \in [DOMAIN bt -> UUIDs] : CommitReplacement(bt, us))]_vars
  <2> SUFFICES ASSUME Inv, PointStep \/ \E bt \in Batches : \E us \in [DOMAIN bt -> UUIDs] : CommitReplacement(bt, us)
               PROVE  IdKeyDrift' \in {IdKeyDrift, 0}
    OBVIOUS
  <2>1. CASE PointStep
    BY <2>1, PointOutcome DEF Outcome
  <2>2. ASSUME NEW bt \in Batches, NEW us \in [DOMAIN bt -> UUIDs], CommitReplacement(bt, us)
        PROVE  IdKeyDrift' = 0
    BY <2>2, ReplaceStepInv
  <2>3. QED
    BY <2>1, <2>2
<1>2. QED
  BY <1>1, InvInit, InvStep, PTL DEF Spec, IdKeyDriftOnlyByRebuild
=============================================================================
