---------------------------- MODULE Store_proofs ----------------------------
(***************************************************************************)
(* The theorems of Store, for any number of goroutines, scopes, shards and *)
(* buffers and for every cap, in four parts, each resting on the ones      *)
(* before:                                                                 *)
(*                                                                         *)
(*   sums      induction over finite sets, and what the sum of a function  *)
(*             over a set is;                                              *)
(*   types     type correctness, and the lemmas about the operators of the *)
(*             model that the other parts use as well;                     *)
(*   locks     the shard locks and the detach rule: no write lands in a    *)
(*             buffer its scope name does not lead to, no lookup returns a *)
(*             detached buffer, and the reserved scopes are always there;  *)
(*   counters  totalBytes, totalItems and scopeCount are exact in every    *)
(*             state, the bytes of every buffer are those of its items,    *)
(*             the cap is passed only by the drift of a /warm, and a       *)
(*             failed create leaves no empty scope.                        *)
(***************************************************************************)
EXTENDS Store, FiniteSetTheorems, WellFoundedInduction, TLAPS

(***************************************************************************)
(* Sums.  The community module defines SumFunctionOnSet, the sum the       *)
(* accounting invariants are stated with, by a recursive function, so each *)
(* fact about it rests on induction over the subsets of a finite set; the  *)
(* induction rules are stated about a set of good values rather than about *)
(* a predicate, which keeps them first-order.                              *)
(***************************************************************************)

\* Every nonempty set of naturals has a least element.
LEMMA NatMin ==
  ASSUME NEW T \in SUBSET Nat, T # {}
  PROVE  \E n \in T : \A m \in T : n <= m
<1> DEFINE F == {0..n : n \in T}
<1>1. F \subseteq FiniteSubsetsOf(Nat) /\ F # {}
  <2>1. \A n \in T : IsFiniteSet(0..n) /\ 0..n \subseteq Nat
    BY FS_Interval
  <2>2. QED
    BY <2>1 DEF FiniteSubsetsOf
<1>2. PICK x \in F : \A y \in F : ~ (<<y, x>> \in StrictSubsetOrdering(Nat))
  <2> HIDE DEF F
  <2> QED BY <1>1, FS_StrictSubsetOrderingWellFounded, WFMin
<1>3. PICK n \in T : x = 0..n
  BY <1>2
<1>4. ASSUME NEW m \in T, m < n
      PROVE  FALSE
  <2>1. 0..m \subseteq 0..n /\ 0..m # 0..n
    <3>1. n \in 0..n /\ n \notin 0..m
      BY <1>4
    <3>2. QED
      BY <3>1, <1>4
  <2>2. <<0..m, 0..n>> \in (SUBSET Nat) \X (SUBSET Nat)
    OBVIOUS
  <2>3. <<0..m, 0..n>> \in StrictSubsetOrdering(Nat)
    BY <2>1, <2>2 DEF StrictSubsetOrdering
  <2>4. 0..m \in F
    OBVIOUS
  <2>5. QED
    <3> HIDE DEF F
    <3> QED BY <2>3, <2>4, <1>2, <1>3
<1>5. QED
  BY <1>4

\* Induction over the naturals, for a set.
LEMMA NatSetInduction ==
  ASSUME NEW G, 0 \in G, \A n \in Nat : n \in G => n + 1 \in G
  PROVE  \A n \in Nat : n \in G
<1> DEFINE B == Nat \ G
<1>1. SUFFICES ASSUME B # {}
               PROVE  FALSE
  OBVIOUS
<1>2. PICK n \in B : \A m \in B : n <= m
  <2>1. B \in SUBSET Nat
    OBVIOUS
  <2> HIDE DEF B
  <2>2. QED
    BY <1>1, <2>1, NatMin
<1>3. n \in Nat /\ n # 0
  BY <1>2
<1>4. n - 1 \in Nat /\ n - 1 \notin B
  BY <1>2, <1>3
<1>5. (n - 1) + 1 \in G
  BY <1>4
<1>6. QED
  BY <1>2, <1>3, <1>5

\* Induction over the subsets of a finite set: a subset is good once all its
\* strict subsets are.
LEMMA SubsetInduction ==
  ASSUME NEW S, IsFiniteSet(S), NEW G,
         \A s \in SUBSET S : (\A t \in SUBSET S : t \subseteq s /\ t # s => t \in G) => s \in G
  PROVE  \A s \in SUBSET S : s \in G
<1> DEFINE B == (SUBSET S) \ G
<1>1. SUFFICES ASSUME B # {}
               PROVE  FALSE
  OBVIOUS
<1>2. B \subseteq FiniteSubsetsOf(S)
  BY FS_FiniteSubsetsOfFinite
<1>3. PICK s \in B : \A t \in B : ~ (<<t, s>> \in StrictSubsetOrdering(S))
  <2> HIDE DEF B
  <2> QED BY <1>1, <1>2, FS_StrictSubsetOrderingWellFounded, WFMin
<1>4. ASSUME NEW t \in SUBSET S, t \subseteq s, t # s
      PROVE  t \in G
  <2>1. <<t, s>> \in StrictSubsetOrdering(S)
    BY <1>3, <1>4 DEF StrictSubsetOrdering
  <2>2. QED
    BY <1>3, <2>1
<1>5. QED
  BY <1>3, <1>4

----------------------------------------------------------------------------
(* The recurrence *)

\* The element the fold takes out of s first.
Pick(s) == CHOOSE x \in s : TRUE

\* One turn of the fold.
SumStep(f, g, s) == IF s = {} THEN 0 ELSE f[Pick(s)] + g[s \ {Pick(s)}]

\* The recurrence of the sum has a solution.
LEMMA IterExists ==
  ASSUME NEW S, IsFiniteSet(S), NEW f, \A x \in S : f[x] \in Int
  PROVE  \E g \in [SUBSET S -> Int] : \A s \in SUBSET S : g[s] = SumStep(f, g, s)
<1> DEFINE Upto(n) == {s \in SUBSET S : Cardinality(s) <= n}
           Good(n) == \E g \in [Upto(n) -> Int] : \A s \in Upto(n) : g[s] = SumStep(f, g, s)
           Reached == {n \in Nat : Good(n)}
<1>0. \A s \in SUBSET S : IsFiniteSet(s) /\ Cardinality(s) \in Nat
  BY FS_Subset, FS_CardinalityType
<1>1. Good(0)
  <2> DEFINE g == [s \in Upto(0) |-> 0]
  <2>1. \A s \in Upto(0) : s = {}
    BY <1>0, FS_EmptySet
  <2>2. g \in [Upto(0) -> Int]
    OBVIOUS
  <2>3. \A s \in Upto(0) : g[s] = SumStep(f, g, s)
    BY <2>1 DEF SumStep
  <2>4. QED
    BY <2>2, <2>3
<1>2. ASSUME NEW n \in Nat, Good(n)
      PROVE  Good(n+1)
  <2>1. PICK g \in [Upto(n) -> Int] : \A s \in Upto(n) : g[s] = SumStep(f, g, s)
    BY <1>2
  <2> DEFINE h == [s \in Upto(n+1) |-> SumStep(f, g, s)]
  <2>2. ASSUME NEW s \in Upto(n+1), s # {}
        PROVE  /\ Pick(s) \in S
               /\ s \ {Pick(s)} \in Upto(n)
    <3>1. Pick(s) \in s
      BY <2>2 DEF Pick
    <3>2. Cardinality(s \ {Pick(s)}) = Cardinality(s) - 1
      BY <3>1, <1>0, FS_RemoveElement
    <3>3. QED
      BY <3>1, <3>2, <1>0
  <2>3. h \in [Upto(n+1) -> Int]
    BY <2>2 DEF SumStep
  <2>4. ASSUME NEW s \in Upto(n)
        PROVE  s \in Upto(n+1) /\ h[s] = g[s]
    <3>1. s \in Upto(n+1)
      BY <1>0
    <3>2. QED
      BY <3>1, <2>1
  <2>5. ASSUME NEW s \in Upto(n+1)
        PROVE h[s] = SumStep(f, h, s)
    <3>1. CASE s = {}
      BY <3>1 DEF SumStep
    <3>2. CASE s # {}
      <4>1. h[s \ {Pick(s)}] = g[s \ {Pick(s)}]
        BY <2>2, <2>4, <3>2
      <4>2. QED
        BY <4>1, <3>2 DEF SumStep
    <3>3. QED
      BY <3>1, <3>2
  <2>6. QED
    BY <2>3, <2>5
<1>3. \A n \in Nat : n \in Reached
  <2>1. 0 \in Reached
    BY <1>1
  <2>2. \A n \in Nat : n \in Reached => n + 1 \in Reached
    <3> HIDE DEF Good
    <3> QED BY <1>2
  <2> HIDE DEF Reached
  <2>3. QED
    BY <2>1, <2>2, NatSetInduction
<1>4. Good(Cardinality(S))
  BY <1>3, <1>0
<1>5. Upto(Cardinality(S)) = SUBSET S
  BY FS_Subset, <1>0
<1>6. QED
  BY <1>4, <1>5

\* SumFunctionOnSet follows its recurrence.
LEMMA SumDef ==
  ASSUME NEW S, IsFiniteSet(S), NEW f, \A x \in S : f[x] \in Int
  PROVE  \E g \in [SUBSET S -> Int] :
            /\ \A s \in SUBSET S : g[s] = SumStep(f, g, s)
            /\ SumFunctionOnSet(f, S) = g[S]
<1> DEFINE Rec(g) == g = [s \in SUBSET S |-> IF s = {} THEN 0 ELSE LET x == CHOOSE x \in s : TRUE IN f[x] + g[s \ {x}]]
           it == CHOOSE g : Rec(g)
<1>1. SumFunctionOnSet(f, S) = it[S]
  BY DEF SumFunctionOnSet, FoldFunctionOnSet, MapThenFoldSet
<1>2. PICK g \in [SUBSET S -> Int] : \A s \in SUBSET S : g[s] = SumStep(f, g, s)
  BY IterExists, Zenon
<1>3. Rec(g)
  BY <1>2 DEF SumStep, Pick
<1>4. Rec(it)
  <2> HIDE DEF Rec
  <2> QED BY <1>3
<1>5. it = [s \in SUBSET S |-> SumStep(f, it, s)]
  BY <1>4, Zenon DEF SumStep, Pick
<1> HIDE DEF it, Rec
<1>6. \A s \in SUBSET S : it[s] = SumStep(f, it, s)
  BY <1>5
<1> DEFINE G == {s \in SUBSET S : it[s] \in Int}
<1>7. \A s \in SUBSET S : s \in G
  <2>1. ASSUME NEW s \in SUBSET S, \A t \in SUBSET S : t \subseteq s /\ t # s => t \in G
        PROVE  s \in G
    <3>1. CASE s = {}
      <4>1. it[{}] = 0
        BY <1>6 DEF SumStep
      <4>2. it[s] = 0
        BY <3>1, <4>1
      <4>3. QED
        BY <4>2
    <3>2. CASE s # {}
      <4>1. Pick(s) \in s
        BY <3>2 DEF Pick
      <4>2. s \ {Pick(s)} \in G
        BY <4>1, <2>1
      <4>3. it[s] = f[Pick(s)] + it[s \ {Pick(s)}]
        BY <1>6, <3>2 DEF SumStep
      <4>4. QED
        BY <4>1, <4>2, <4>3
    <3>3. QED
      BY <3>1, <3>2
  <2> HIDE DEF G
  <2>2. QED
    BY <2>1, SubsetInduction
<1>8. it \in [SUBSET S -> Int]
  BY <1>5, <1>7
<1>9. QED
  BY <1>1, <1>6, <1>8

\* The recurrence again, with any element taken out first.
LEMMA SumRec ==
  ASSUME NEW S, IsFiniteSet(S), NEW f, \A x \in S : f[x] \in Int
  PROVE  \E g \in [SUBSET S -> Int] :
            /\ \A s \in SUBSET S : g[s] = SumStep(f, g, s)
            /\ \A s \in SUBSET S : \A x \in s : g[s] = g[s \ {x}] + f[x]
            /\ SumFunctionOnSet(f, S) = g[S]
<1>1. PICK F \in [SUBSET S -> Int] :
             /\ \A s \in SUBSET S : F[s] = SumStep(f, F, s)
             /\ SumFunctionOnSet(f, S) = F[S]
  BY SumDef, Zenon
<1> DEFINE G == {s \in SUBSET S : \A x \in s : F[s] = F[s \ {x}] + f[x]}
<1>2. ASSUME NEW s \in SUBSET S, \A t \in SUBSET S : t \subseteq s /\ t # s => t \in G,
             NEW x \in s
      PROVE  F[s] = F[s \ {x}] + f[x]
  <2> DEFINE y == Pick(s)
  <2>1. y \in s
    BY DEF Pick
  <2>2. F[s] = f[y] + F[s \ {y}]
    BY <1>1 DEF SumStep
  <2>3. F[s] \in Int /\ F[s \ {x}] \in Int /\ F[s \ {y}] \in Int /\ f[x] \in Int /\ f[y] \in Int
    BY <2>1
  <2> HIDE DEF y
  <2>4. CASE x = y
    BY <2>2, <2>3, <2>4
  <2>5. CASE x # y
    <3>1. s \ {x} \in G /\ s \ {y} \in G
      BY <1>2, <2>1
    <3>2. F[s \ {y}] = F[(s \ {y}) \ {x}] + f[x]
      BY <3>1, <2>5
    <3>3. F[s \ {x}] = F[(s \ {x}) \ {y}] + f[y]
      BY <3>1, <2>5, <2>1
    <3>4. (s \ {y}) \ {x} = (s \ {x}) \ {y} /\ (s \ {x}) \ {y} \in SUBSET S
      OBVIOUS
    <3>5. F[(s \ {x}) \ {y}] \in Int
      BY <3>4
    <3> DEFINE a == F[(s \ {x}) \ {y}]
    <3>6. a \in Int /\ F[s \ {y}] = a + f[x] /\ F[s \ {x}] = a + f[y]
      BY <3>2, <3>3, <3>4, <3>5
    <3> HIDE DEF a
    <3>7. QED
      BY <2>2, <2>3, <3>6
  <2>6. QED
    BY <2>4, <2>5
<1>3. \A s \in SUBSET S : (\A t \in SUBSET S : t \subseteq s /\ t # s => t \in G) => s \in G
  BY <1>2
<1>4. \A s \in SUBSET S : s \in G
  <2> HIDE DEF G
  <2> QED BY <1>3, SubsetInduction
<1>5. QED
  BY <1>1, <1>4

----------------------------------------------------------------------------
(* Sums *)

\* A sum of integers is an integer, and the empty sum is 0.
LEMMA SumType ==
  ASSUME NEW S, IsFiniteSet(S), NEW f, \A x \in S : f[x] \in Int
  PROVE  /\ SumFunctionOnSet(f, S) \in Int
         /\ S = {} => SumFunctionOnSet(f, S) = 0
<1>1. PICK F \in [SUBSET S -> Int] :
             /\ \A s \in SUBSET S : F[s] = SumStep(f, F, s)
             /\ SumFunctionOnSet(f, S) = F[S]
  BY SumDef, Zenon
<1>2. QED
  BY <1>1 DEF SumStep

\* The sum of the pointwise sum of two functions.
LEMMA SumPlus ==
  ASSUME NEW S, IsFiniteSet(S), NEW f, \A x \in S : f[x] \in Int,
         NEW g, \A x \in S : g[x] \in Int,
         NEW h, \A x \in S : h[x] = f[x] + g[x]
  PROVE  SumFunctionOnSet(h, S) = SumFunctionOnSet(f, S) + SumFunctionOnSet(g, S)
<1>0. \A x \in S : h[x] \in Int
  OBVIOUS
<1>1. PICK F \in [SUBSET S -> Int] :
             /\ \A s \in SUBSET S : F[s] = SumStep(f, F, s)
             /\ SumFunctionOnSet(f, S) = F[S]
  BY SumDef, Zenon
<1>2. PICK K \in [SUBSET S -> Int] :
             /\ \A s \in SUBSET S : K[s] = SumStep(g, K, s)
             /\ SumFunctionOnSet(g, S) = K[S]
  BY SumDef, Zenon
<1>3. PICK H \in [SUBSET S -> Int] :
             /\ \A s \in SUBSET S : H[s] = SumStep(h, H, s)
             /\ SumFunctionOnSet(h, S) = H[S]
  BY <1>0, SumDef, Zenon
<1> DEFINE G == {s \in SUBSET S : H[s] = F[s] + K[s]}
<1>4. ASSUME NEW s \in SUBSET S, \A t \in SUBSET S : t \subseteq s /\ t # s => t \in G
      PROVE  s \in G
  <2>1. CASE s = {}
    <3>1. F[{}] = 0 /\ K[{}] = 0 /\ H[{}] = 0
      BY <1>1, <1>2, <1>3 DEF SumStep
    <3>2. H[s] = F[s] + K[s]
      BY <2>1, <3>1
    <3>3. QED
      BY <3>2
  <2>2. CASE s # {}
    <3> DEFINE x == Pick(s)
               r == s \ {x}
    <3>1. x \in s /\ x \in S /\ r \in SUBSET S
      BY <2>2 DEF Pick
    <3>2. r \in G
      BY <3>1, <1>4
    <3>3. F[s] = f[x] + F[r] /\ K[s] = g[x] + K[r] /\ H[s] = h[x] + H[r]
      BY <1>1, <1>2, <1>3, <2>2 DEF SumStep
    <3> HIDE DEF x, r
    <3>4. F[r] \in Int /\ K[r] \in Int /\ f[x] \in Int /\ g[x] \in Int
      BY <3>1
    <3>5. QED
      BY <3>1, <3>2, <3>3, <3>4
  <2>3. QED
    BY <2>1, <2>2
<1>5. \A s \in SUBSET S : s \in G
  <2> HIDE DEF G
  <2> QED BY <1>4, SubsetInduction
<1>6. QED
  BY <1>1, <1>2, <1>3, <1>5

\* Summing over a subset is summing over the whole with 0 elsewhere.
LEMMA SumRestrict ==
  ASSUME NEW S, IsFiniteSet(S), NEW T \in SUBSET S, NEW f, \A x \in T : f[x] \in Int,
         NEW g, \A x \in S : g[x] = IF x \in T THEN f[x] ELSE 0
  PROVE  SumFunctionOnSet(g, S) = SumFunctionOnSet(f, T)
<1>0. IsFiniteSet(T) /\ \A x \in S : g[x] \in Int
  BY FS_Subset
<1>1. PICK F \in [SUBSET T -> Int] :
             /\ \A s \in SUBSET T : F[s] = SumStep(f, F, s)
             /\ \A s \in SUBSET T : \A x \in s : F[s] = F[s \ {x}] + f[x]
             /\ SumFunctionOnSet(f, T) = F[T]
  BY <1>0, SumRec, Zenon
<1>2. PICK K \in [SUBSET S -> Int] :
             /\ \A s \in SUBSET S : K[s] = SumStep(g, K, s)
             /\ SumFunctionOnSet(g, S) = K[S]
  BY <1>0, SumDef, Zenon
<1>3. \A s \in SUBSET T : \A x \in s : F[s] = F[s \ {x}] + f[x]
  BY <1>1
<1> DEFINE G == {s \in SUBSET S : K[s] = F[s \cap T]}
<1>4. ASSUME NEW s \in SUBSET S, \A t \in SUBSET S : t \subseteq s /\ t # s => t \in G
      PROVE  s \in G
  <2>1. CASE s = {}
    <3>1. s \cap T = {} /\ s \cap T \in SUBSET T
      BY <2>1
    <3>2. F[s \cap T] = 0 /\ K[s] = 0
      BY <2>1, <3>1, <1>1, <1>2 DEF SumStep
    <3>3. QED
      BY <3>2
  <2>2. CASE s # {}
    <3> DEFINE x == Pick(s)
               r == s \ {x}
    <3>1. x \in s /\ x \in S /\ r \in SUBSET S
      BY <2>2 DEF Pick
    <3>2. r \in G
      BY <3>1, <1>4
    <3>3. K[s] = g[x] + K[r]
      BY <1>2, <2>2 DEF SumStep
    <3>4. K[r] = F[r \cap T]
      BY <3>2
    <3>5. r \cap T \in SUBSET T /\ s \cap T \in SUBSET T
      OBVIOUS
    <3>6. F[r \cap T] \in Int
      BY <3>5
    <3>7. CASE x \in T
      <4>1. r \cap T = (s \cap T) \ {x} /\ x \in s \cap T
        BY <3>7, <3>1
      <4>2. F[s \cap T] = F[r \cap T] + f[x]
        BY <4>1, <3>5, <1>3
      <4> HIDE DEF x, r
      <4>3. QED
        BY <4>2, <3>1, <3>3, <3>4, <3>6, <3>7
    <3>8. CASE x \notin T
      <4>1. r \cap T = s \cap T
        BY <3>8
      <4>2. F[s \cap T] = K[r] /\ K[r] \in Int
        BY <4>1, <3>4, <3>6
      <4>3. g[x] = 0
        BY <3>1, <3>8
      <4> HIDE DEF x, r
      <4>4. K[s] = F[s \cap T]
        BY <4>2, <4>3, <3>3
      <4>5. QED
        BY <4>4
    <3>9. QED
      BY <3>7, <3>8
  <2>3. QED
    BY <2>1, <2>2
<1>5. \A s \in SUBSET S : s \in G
  <2> HIDE DEF G
  <2> QED BY <1>4, SubsetInduction
<1>6. S \cap T = T
  OBVIOUS
<1>7. QED
  BY <1>1, <1>2, <1>5, <1>6

\* Functions that agree on the index set have the same sum.
LEMMA SumEqual ==
  ASSUME NEW S, IsFiniteSet(S), NEW f, \A x \in S : f[x] \in Int,
         NEW g, \A x \in S : g[x] = f[x]
  PROVE  SumFunctionOnSet(g, S) = SumFunctionOnSet(f, S)
<1>1. S \in SUBSET S /\ \A x \in S : g[x] = IF x \in S THEN f[x] ELSE 0
  OBVIOUS
<1>2. QED
  BY <1>1, SumRestrict

\* The sum of a function that is 0 except at k.
LEMMA SumSingle ==
  ASSUME NEW S, IsFiniteSet(S), NEW k \in S, NEW c \in Int,
         NEW f, \A x \in S : f[x] = IF x = k THEN c ELSE 0
  PROVE  SumFunctionOnSet(f, S) = c
<1> DEFINE T == {k}
           z == [x \in T |-> c]
<1>1. T \in SUBSET S /\ \A x \in T : z[x] \in Int
  OBVIOUS
<1>2. \A x \in S : f[x] = IF x \in T THEN z[x] ELSE 0
  OBVIOUS
<1>3. SumFunctionOnSet(f, S) = SumFunctionOnSet(z, T)
  <2> HIDE DEF T, z
  <2> QED BY <1>1, <1>2, SumRestrict
<1>4. IsFiniteSet(T)
  BY FS_Singleton
<1>5. PICK F \in [SUBSET T -> Int] :
             /\ \A s \in SUBSET T : F[s] = SumStep(z, F, s)
             /\ SumFunctionOnSet(z, T) = F[T]
  <2> HIDE DEF T, z
  <2> QED BY <1>1, <1>4, SumDef, Zenon
<1>6. Pick(T) = k
  BY DEF Pick
<1>7. F[{}] = 0
  BY <1>5 DEF SumStep
<1>8. F[T] = z[k] + F[T \ {k}]
  BY <1>5, <1>6 DEF SumStep
<1>9. F[T \ {k}] = F[{}] /\ z[k] = c
  <2>1. T \ {k} = {}
    OBVIOUS
  <2>2. QED
    BY <2>1
<1> HIDE DEF T, z
<1>10. F[T] = c
  BY <1>7, <1>8, <1>9
<1>11. QED
  BY <1>3, <1>5, <1>10

\* What changing one value does to a sum.
LEMMA SumUpdate ==
  ASSUME NEW S, IsFiniteSet(S), NEW k \in S, NEW f, \A x \in S : f[x] \in Int,
         NEW g, g[k] \in Int, \A x \in S \ {k} : g[x] = f[x]
  PROVE  SumFunctionOnSet(g, S) = SumFunctionOnSet(f, S) - f[k] + g[k]
<1> DEFINE d == [x \in S |-> IF x = k THEN g[k] - f[k] ELSE 0]
           c == g[k] - f[k]
<1>1. c \in Int /\ \A x \in S : d[x] = (IF x = k THEN c ELSE 0) /\ d[x] \in Int
  OBVIOUS
<1>2. \A x \in S : g[x] = f[x] + d[x]
  OBVIOUS
<1>3. f[k] \in Int
  OBVIOUS
<1> HIDE DEF d
<1>4. SumFunctionOnSet(d, S) = c
  <2> HIDE DEF c
  <2> QED BY <1>1, SumSingle
<1>5. SumFunctionOnSet(g, S) = SumFunctionOnSet(f, S) + SumFunctionOnSet(d, S)
  BY <1>1, <1>2, SumPlus
<1>6. SumFunctionOnSet(f, S) \in Int
  BY SumType
<1>7. QED
  BY <1>1, <1>3, <1>4, <1>5, <1>6

\* A sum taken in two parts.
LEMMA SumSplit ==
  ASSUME NEW S, IsFiniteSet(S), NEW T \in SUBSET S, NEW f, \A x \in S : f[x] \in Int
  PROVE  SumFunctionOnSet(f, S) = SumFunctionOnSet(f, T) + SumFunctionOnSet(f, S \ T)
<1> DEFINE U == S \ T
           g == [x \in S |-> IF x \in T THEN f[x] ELSE 0]
           h == [x \in S |-> IF x \in U THEN f[x] ELSE 0]
<1>1. \A x \in S : g[x] = IF x \in T THEN f[x] ELSE 0
  OBVIOUS
<1>2. \A x \in S : h[x] = IF x \in U THEN f[x] ELSE 0
  OBVIOUS
<1>3. \A x \in S : g[x] \in Int /\ h[x] \in Int /\ f[x] = g[x] + h[x]
  OBVIOUS
<1>4. U \in SUBSET S /\ (\A x \in T : f[x] \in Int) /\ (\A x \in U : f[x] \in Int)
  OBVIOUS
<1> HIDE DEF g, h
<1>5. SumFunctionOnSet(g, S) = SumFunctionOnSet(f, T)
  BY <1>1, <1>4, SumRestrict
<1>6. SumFunctionOnSet(h, S) = SumFunctionOnSet(f, U)
  <2> HIDE DEF U
  <2> QED BY <1>2, <1>4, SumRestrict
<1>7. SumFunctionOnSet(f, S) = SumFunctionOnSet(g, S) + SumFunctionOnSet(h, S)
  BY <1>3, SumPlus
<1>8. QED
  BY <1>5, <1>6, <1>7

\* A sum of numbers that are not negative is not negative.
LEMMA SumNonNegative ==
  ASSUME NEW S, IsFiniteSet(S), NEW f, \A x \in S : f[x] \in Nat
  PROVE  SumFunctionOnSet(f, S) \in Nat
<1>0. \A x \in S : f[x] \in Int
  OBVIOUS
<1>1. PICK F \in [SUBSET S -> Int] :
             /\ \A s \in SUBSET S : F[s] = SumStep(f, F, s)
             /\ SumFunctionOnSet(f, S) = F[S]
  BY <1>0, SumDef, Zenon
<1> DEFINE G == {s \in SUBSET S : F[s] \in Nat}
<1>2. ASSUME NEW s \in SUBSET S, \A t \in SUBSET S : t \subseteq s /\ t # s => t \in G
      PROVE  s \in G
  <2>1. CASE s = {}
    <3>1. F[s] = 0
      BY <1>1, <2>1 DEF SumStep
    <3>2. QED
      BY <3>1
  <2>2. CASE s # {}
    <3>1. Pick(s) \in s
      BY <2>2 DEF Pick
    <3>2. F[s \ {Pick(s)}] \in Nat
      BY <1>2, <3>1
    <3>3. F[s] = f[Pick(s)] + F[s \ {Pick(s)}]
      BY <1>1, <2>2 DEF SumStep
    <3>4. QED
      BY <3>1, <3>2, <3>3
  <2>3. QED
    BY <2>1, <2>2
<1>3. \A s \in SUBSET S : s \in G
  <2> HIDE DEF G
  <2> QED BY <1>2, SubsetInduction
<1>4. QED
  BY <1>1, <1>3

\* The same number over and over.
LEMMA SumConstant ==
  ASSUME NEW S, IsFiniteSet(S), NEW c \in Nat, NEW f, \A x \in S : f[x] = c
  PROVE  SumFunctionOnSet(f, S) = Cardinality(S) * c
<1>0. \A x \in S : f[x] \in Int
  OBVIOUS
<1>1. PICK F \in [SUBSET S -> Int] :
             /\ \A s \in SUBSET S : F[s] = SumStep(f, F, s)
             /\ SumFunctionOnSet(f, S) = F[S]
  BY <1>0, SumDef, Zenon
<1> DEFINE G == {s \in SUBSET S : F[s] = Cardinality(s) * c}
<1>2. ASSUME NEW s \in SUBSET S, \A t \in SUBSET S : t \subseteq s /\ t # s => t \in G
      PROVE  s \in G
  <2>1. CASE s = {}
    <3>1. F[s] = 0
      BY <1>1, <2>1 DEF SumStep
    <3>2. Cardinality(s) = 0
      BY <2>1, FS_EmptySet
    <3>3. QED
      BY <3>1, <3>2
  <2>2. CASE s # {}
    <3>1. Pick(s) \in s
      BY <2>2 DEF Pick
    <3> DEFINE r == s \ {Pick(s)}
    <3>2. r \in SUBSET S /\ r \subseteq s /\ r # s
      BY <3>1
    <3>3. F[r] = Cardinality(r) * c
      BY <1>2, <3>2
    <3>4. F[s] = c + F[r]
      BY <1>1, <2>2, <3>1 DEF SumStep
    <3>5. IsFiniteSet(s)
      BY FS_Subset
    <3>6. Cardinality(r) = Cardinality(s) - 1 /\ Cardinality(s) \in Nat
      BY <3>1, <3>5, FS_RemoveElement, FS_CardinalityType
    <3> HIDE DEF r
    <3>7. \A n \in Int : c + (n - 1) * c = n * c
      OBVIOUS
    <3>8. QED
      BY <3>3, <3>4, <3>6, <3>7
  <2>3. QED
    BY <2>1, <2>2
<1>3. \A s \in SUBSET S : s \in G
  <2> HIDE DEF G
  <2> QED BY <1>2, SubsetInduction
<1>4. QED
  BY <1>1, <1>3

USE StoreConstants

----------------------------------------------------------------------------
(* Item maps and sums over them *)

LEMMA SizesAreNat == Sizes \cup {0, CounterSize, EventSize} \subseteq Nat
<1>1. Sizes \subseteq Nat
  BY Zenon
<1>2. CounterSize \in Nat /\ EventSize \in Nat
  BY Zenon
<1>3. QED
  BY <1>1, <1>2

LEMMA ItemMapFacts ==
  ASSUME NEW m, IsItemMap(m)
  PROVE  /\ IsFiniteSet(DOMAIN m)
         /\ Cardinality(DOMAIN m) \in 0..MaxSeq
         /\ \A S \in SUBSET DOMAIN m : IsFiniteSet(S) /\ Cardinality(S) \in Nat /\ BytesOf(m, S) \in Int
<1>1. IsFiniteSet(Seqs) /\ Cardinality(Seqs) = MaxSeq
  BY FS_Interval DEF Seqs
<1>2. DOMAIN m \in SUBSET Seqs
  BY DEF IsItemMap
<1>3. IsFiniteSet(DOMAIN m) /\ Cardinality(DOMAIN m) <= MaxSeq
  BY <1>1, <1>2, FS_Subset
<1>4. ASSUME NEW S \in SUBSET DOMAIN m
      PROVE  IsFiniteSet(S) /\ Cardinality(S) \in Nat /\ BytesOf(m, S) \in Int
  <2>1. IsFiniteSet(S)
    BY <1>3, FS_Subset
  <2>2. \A n \in S : SizeOf(m)[n] \in Int
    BY DEF SizeOf, IsItemMap, Item
  <2>3. QED
    BY <2>1, <2>2, SumType, FS_CardinalityType DEF BytesOf
<1>5. QED
  BY <1>3, <1>4, FS_CardinalityType

LEMMA NoItemsMap == IsItemMap(NoItems) /\ DOMAIN NoItems = {}
BY DEF IsItemMap, NoItems

LEMMA NewBufFresh ==
  ASSUME FreshBufs # {}
  PROVE  NewBuf \in FreshBufs /\ NewBuf \in Bufs /\ NewBuf # NoBuf
<1>1. NewBuf \in FreshBufs
  BY DEF NewBuf
<1>2. QED
  BY <1>1 DEF FreshBufs

----------------------------------------------------------------------------
(* Type correctness *)

LEMMA NoRequestType == NoRequest \in Request /\ EventRequest \in Request /\ NoLoad \in [Scopes -> Batches \cup {NoBatch}]
BY DEF NoRequest, EventRequest, Request, NoLoad, WriteOps

LEMMA IdleType ==
  ASSUME NEW p \in Procs, ProcTypeOK, Idle(p)
  PROVE  ProcTypeOK'
BY NoRequestType DEF ProcTypeOK, Idle, Labels

LEMMA CommittedType ==
  ASSUME NEW p \in Procs, ProcTypeOK, Committed(p)
  PROVE  ProcTypeOK'
<1>1. CASE EventsEnabled(p)
  <2>1. /\ pc'      = [pc EXCEPT ![p] = "emit"]
        /\ req'     = [req EXCEPT ![p] = EventRequest]
        /\ ref'     = [ref EXCEPT ![p] = NoBuf]
        /\ created' = [created EXCEPT ![p] = FALSE]
        /\ load'    = [load EXCEPT ![p] = NoLoad]
    BY <1>1, Zenon DEF Committed
  <2>2. QED
    BY <2>1, NoRequestType DEF ProcTypeOK, Labels
<1>2. CASE ~ EventsEnabled(p)
  BY <1>2, IdleType DEF Committed
<1>3. QED
  BY <1>1, <1>2

LEMMA InitType == Init => TypeOK
<1> SUFFICES ASSUME Init PROVE TypeOK
  OBVIOUS
<1>1. PICK f \in [Reserved -> Bufs] : scopes = [s \in Scopes |-> IF s \in Reserved THEN f[s] ELSE NoBuf]
  BY HeapRoom DEF Init, ExistsInjection, Injection
<1>2. HeapTypeOK
  BY <1>1, NoItemsMap DEF Init, HeapTypeOK
<1>3. CounterTypeOK
  BY FS_CardinalityType, FS_Subset DEF Init, CounterTypeOK, ReservedOverhead
<1>4. ProcTypeOK
  BY NoRequestType DEF Init, ProcTypeOK, Labels
<1>5. LockTypeOK
  BY DEF Init, LockTypeOK, Plan, NoPlan
<1>6. QED
  BY <1>2, <1>3, <1>4, <1>5 DEF TypeOK

\* Replacing the contents of one buffer.
LEMMA HeapUpdate ==
  ASSUME HeapTypeOK, NEW b \in Bufs, NEW m, IsItemMap(m),
         items' = [items EXCEPT ![b] = m],
         scopes' \in [Scopes -> Bufs \cup {NoBuf}],
         bytes' \in [Bufs -> Int],
         lastSeq' \in [Bufs -> 0..MaxSeq],
         detached' \in [Bufs -> BOOLEAN]
  PROVE  HeapTypeOK'
<1>1. items' = [c \in Bufs |-> IF c = b THEN m ELSE items[c]]
  BY DEF HeapTypeOK
<1>2. items' = [c \in Bufs |-> items'[c]]
  BY <1>1
<1>3. \A c \in Bufs : IsItemMap(items'[c])
  BY <1>1 DEF HeapTypeOK
<1>4. QED
  BY <1>2, <1>3 DEF HeapTypeOK

LEMMA LookupFoundType ==
  ASSUME TypeOK, NEW p \in Procs, NEW r \in Request, LookupFound(p, r)
  PROVE  TypeOK'
<1>1. scopes[r.scope] \in Bufs
  BY DEF LookupFound, Found, TypeOK, HeapTypeOK, Request
<1>2. ProcTypeOK'
  BY <1>1 DEF LookupFound, TypeOK, ProcTypeOK, Labels
<1>3. QED
  BY <1>2 DEF LookupFound, TypeOK, HeapTypeOK, CounterTypeOK, LockTypeOK, bufVars, totals

LEMMA LookupCreatedType ==
  ASSUME TypeOK, NEW p \in Procs, NEW r \in Request, LookupCreated(p, r)
  PROVE  TypeOK'
<1>1. NewBuf \in Bufs
  BY NewBufFresh DEF LookupCreated
<1>2. HeapTypeOK'
  <2>1. scopes' \in [Scopes -> Bufs \cup {NoBuf}]
    BY <1>1 DEF LookupCreated, TypeOK, HeapTypeOK
  <2>2. bytes' \in [Bufs -> Int] /\ lastSeq' \in [Bufs -> 0..MaxSeq]
    BY <1>1 DEF LookupCreated, TypeOK, HeapTypeOK
  <2>3. detached' \in [Bufs -> BOOLEAN]
    BY <1>1 DEF LookupCreated, TypeOK, HeapTypeOK
  <2>4. items' = [items EXCEPT ![NewBuf] = NoItems]
    BY DEF LookupCreated
  <2>5. QED
    BY <1>1, <2>1, <2>2, <2>3, <2>4, NoItemsMap, HeapUpdate DEF TypeOK
<1>3. ProcTypeOK'
  BY <1>1 DEF LookupCreated, TypeOK, ProcTypeOK, Labels
<1>4. CounterTypeOK'
  BY DEF LookupCreated, TypeOK, CounterTypeOK
<1>5. LockTypeOK'
  BY DEF LookupCreated, TypeOK, LockTypeOK
<1>6. QED
  BY <1>2, <1>3, <1>4, <1>5 DEF TypeOK

LEMMA InsertType ==
  ASSUME TypeOK, NEW b \in Bufs, NEW it \in Item, InsertNewItemLocked(b, it), UNCHANGED scopes
  PROVE  HeapTypeOK' /\ totalBytes' \in Int /\ totalItems' \in Int /\ scopeCount' \in Int
<1> DEFINE m == [n \in DOMAIN items[b] \cup {lastSeq[b] + 1} |->
                   IF n = lastSeq[b] + 1 THEN it ELSE items[b][n]]
<1>1. lastSeq[b] + 1 \in Seqs
  BY DEF InsertNewItemLocked, TypeOK, HeapTypeOK, Seqs
<1>2. IsItemMap(items[b])
  BY DEF TypeOK, HeapTypeOK
<1>3. IsItemMap(m)
  BY <1>1, <1>2 DEF IsItemMap
<1>4. items' = [items EXCEPT ![b] = m]
  BY DEF InsertNewItemLocked
<1>5. bytes' \in [Bufs -> Int] /\ lastSeq' \in [Bufs -> 0..MaxSeq] /\ detached' \in [Bufs -> BOOLEAN]
  BY DEF InsertNewItemLocked, TypeOK, HeapTypeOK, Item
<1>6. scopes' \in [Scopes -> Bufs \cup {NoBuf}]
  BY DEF TypeOK, HeapTypeOK
<1>7. HeapTypeOK'
  <2> HIDE DEF m
  <2> QED BY <1>3, <1>4, <1>5, <1>6, HeapUpdate DEF TypeOK
<1>8. QED
  BY <1>7 DEF InsertNewItemLocked, TypeOK, CounterTypeOK, Item

LEMMA ReplaceType ==
  ASSUME TypeOK, NEW b \in Bufs, NEW n \in DOMAIN items[b], NEW size \in Nat,
         ReplaceItemLocked(b, n, size), UNCHANGED scopes
  PROVE  HeapTypeOK' /\ totalBytes' \in Int /\ totalItems' \in Int /\ scopeCount' \in Int
<1> DEFINE m == [k \in DOMAIN items[b] |->
                   IF k = n THEN [id |-> items[b][n].id, size |-> size] ELSE items[b][k]]
<1>1. IsItemMap(items[b])
  BY DEF TypeOK, HeapTypeOK
<1>2. items[b][n] \in Item /\ SizeDelta(b, n, size) \in Int
  BY <1>1 DEF IsItemMap, SizeDelta, Item
<1>3. IsItemMap(m)
  BY <1>1, <1>2 DEF IsItemMap, Item
<1>4. items' = [items EXCEPT ![b] = m]
  BY DEF ReplaceItemLocked
<1>5. bytes' \in [Bufs -> Int] /\ lastSeq' \in [Bufs -> 0..MaxSeq] /\ detached' \in [Bufs -> BOOLEAN]
  BY <1>2 DEF ReplaceItemLocked, TypeOK, HeapTypeOK
<1>6. scopes' \in [Scopes -> Bufs \cup {NoBuf}]
  BY DEF TypeOK, HeapTypeOK
<1>7. HeapTypeOK'
  <2> HIDE DEF m
  <2> QED BY <1>3, <1>4, <1>5, <1>6, HeapUpdate DEF TypeOK
<1>8. QED
  BY <1>2, <1>7 DEF ReplaceItemLocked, TypeOK, CounterTypeOK

LEMMA RemoveType ==
  ASSUME TypeOK, NEW b \in Bufs, NEW S \in SUBSET DOMAIN items[b],
         RemoveItemsLocked(b, S), UNCHANGED scopes
  PROVE  HeapTypeOK' /\ totalBytes' \in Int /\ totalItems' \in Int /\ scopeCount' \in Int
<1> DEFINE m == [n \in DOMAIN items[b] \ S |-> items[b][n]]
<1>1. IsItemMap(items[b])
  BY DEF TypeOK, HeapTypeOK
<1>2. BytesOf(items[b], S) \in Int /\ Cardinality(S) \in Nat
  BY <1>1, ItemMapFacts
<1>3. IsItemMap(m)
  BY <1>1 DEF IsItemMap
<1>4. items' = [items EXCEPT ![b] = m]
  BY DEF RemoveItemsLocked
<1>5. bytes' \in [Bufs -> Int] /\ lastSeq' \in [Bufs -> 0..MaxSeq] /\ detached' \in [Bufs -> BOOLEAN]
  BY <1>2 DEF RemoveItemsLocked, TypeOK, HeapTypeOK
<1>6. scopes' \in [Scopes -> Bufs \cup {NoBuf}]
  BY DEF TypeOK, HeapTypeOK
<1>7. HeapTypeOK'
  <2> HIDE DEF m
  <2> QED BY <1>3, <1>4, <1>5, <1>6, HeapUpdate DEF TypeOK
<1>8. QED
  BY <1>2, <1>7 DEF RemoveItemsLocked, TypeOK, CounterTypeOK

\* The item a request writes, and the seqs it addresses.
LEMMA RequestFacts ==
  ASSUME TypeOK, NEW p \in Procs, pc[p] = "commit"
  PROVE  /\ ref[p] \in Bufs
         /\ req[p].size \in Nat
         /\ [id |-> req[p].id, size |-> req[p].size] \in Item
         /\ Hits(ref[p], req[p]) \in SUBSET DOMAIN items[ref[p]]
<1>1. ref[p] \in Bufs
  BY DEF TypeOK, ProcTypeOK
<1>2. req[p] \in Request
  BY DEF TypeOK, ProcTypeOK
<1>3. req[p].size \in Nat /\ req[p].id \in Ids \cup {NoId}
  <2>1. req[p].size \in Sizes \cup {0, CounterSize, EventSize} /\ req[p].id \in Ids \cup {NoId}
    BY <1>2, Zenon DEF Request
  <2>2. QED
    BY <2>1, SizesAreNat
<1>4. [id |-> req[p].id, size |-> req[p].size] \in Item
  BY <1>3 DEF Item
<1>5. Hits(ref[p], req[p]) \in SUBSET DOMAIN items[ref[p]]
  BY DEF Hits
<1>6. QED
  BY <1>1, <1>3, <1>4, <1>5

\* The actions of a goroutine inside the buffer's critical section.
LEMMA CommitType ==
  ASSUME TypeOK, NEW p \in Procs,
         AppendItem(p) \/ UpsertByID(p) \/ CounterAdd(p) \/ UpdateItem(p) \/ DeleteItems(p)
  PROVE  TypeOK'
<1>1. pc[p] = "commit"
  BY DEF AppendItem, UpsertByID, CounterAdd, UpdateItem, DeleteItems, AtBuffer
<1>2. Committed(p) /\ UNCHANGED <<scopes, holder, eventsDropsTotal, plan>>
  BY DEF AppendItem, UpsertByID, CounterAdd, UpdateItem, DeleteItems
<1> DEFINE b == ref[p]
           r == req[p]
           it == [id |-> r.id, size |-> r.size]
<1>3. \/ InsertNewItemLocked(b, it)
      \/ \E n \in Hits(b, r) : ReplaceItemLocked(b, n, r.size)
      \/ RemoveItemsLocked(b, Hits(b, r))
  BY DEF AppendItem, UpsertByID, CounterAdd, UpdateItem, DeleteItems
<1>4. b \in Bufs /\ it \in Item /\ r.size \in Nat /\ Hits(b, r) \in SUBSET DOMAIN items[b]
  BY <1>1, RequestFacts
<1>5. HeapTypeOK' /\ totalBytes' \in Int /\ totalItems' \in Int /\ scopeCount' \in Int
  <2> HIDE DEF b, r, it
  <2>1. CASE InsertNewItemLocked(b, it)
    BY <1>2, <1>4, <2>1, InsertType
  <2>2. ASSUME NEW n \in Hits(b, r), ReplaceItemLocked(b, n, r.size)
        PROVE  HeapTypeOK' /\ totalBytes' \in Int /\ totalItems' \in Int /\ scopeCount' \in Int
    BY <1>2, <1>4, <2>2, ReplaceType
  <2>3. CASE RemoveItemsLocked(b, Hits(b, r))
    BY <1>2, <1>4, <2>3, RemoveType
  <2>4. QED
    BY <1>3, <2>1, <2>2, <2>3
<1>6. ProcTypeOK'
  BY <1>2, CommittedType DEF TypeOK
<1>7. CounterTypeOK' /\ LockTypeOK'
  BY <1>2, <1>5 DEF TypeOK, CounterTypeOK, LockTypeOK
<1>8. QED
  BY <1>5, <1>6, <1>7 DEF TypeOK

LEMMA DetachType ==
  ASSUME HeapTypeOK, NEW b, Detach(b), scopes' \in [Scopes -> Bufs \cup {NoBuf}],
         UNCHANGED <<items, bytes, lastSeq>>
  PROVE  HeapTypeOK'
BY DEF HeapTypeOK, Detach

\* Which buffers a goroutine's step may take out of the map.
LEMMA ScopeOpsType ==
  ASSUME TypeOK, NEW p \in Procs, Miss(p) \/ Fail(p) \/ Cleanup(p) \/ \E s \in Scopes : DeleteScope(p, s) \/ DetachBuffer(p, s)
  PROVE  TypeOK'
<1>1. CASE Miss(p)
  BY <1>1, IdleType DEF Miss, TypeOK, HeapTypeOK, CounterTypeOK, LockTypeOK, bufVars, totals
<1>2. CASE Fail(p)
  <2>1. CounterTypeOK' /\ HeapTypeOK' /\ LockTypeOK'
    <3>1. UNCHANGED <<scopes, items, bytes, lastSeq, detached, totalBytes, totalItems, scopeCount, holder, plan>>
      BY <1>2 DEF Fail, bufVars, totals
    <3>2. eventsDropsTotal' \in Nat
      BY <1>2 DEF Fail, TypeOK, CounterTypeOK
    <3>3. CounterTypeOK'
      BY <3>1, <3>2 DEF TypeOK, CounterTypeOK
    <3>4. HeapTypeOK'
      BY <3>1, Zenon DEF TypeOK, HeapTypeOK
    <3>5. LockTypeOK'
      BY <3>1, Zenon DEF TypeOK, LockTypeOK
    <3>6. QED
      BY <3>3, <3>4, <3>5
  <2>2. CASE Idle(p)
    BY <2>1, <2>2, IdleType DEF TypeOK
  <2>3. CASE pc' = [pc EXCEPT ![p] = "cleanup"] /\ UNCHANGED <<req, ref, created, load>>
    BY <1>2, <2>1, <2>3 DEF Fail, TypeOK, ProcTypeOK, Labels
  <2>4. QED
    BY <1>2, <2>2, <2>3 DEF Fail
<1>3. CASE Cleanup(p)
  <2>1. ProcTypeOK' /\ LockTypeOK'
    BY <1>3, IdleType DEF Cleanup, TypeOK, LockTypeOK
  <2>2. CASE StillUnused(req[p].scope, ref[p])
    <3>1. scopes' \in [Scopes -> Bufs \cup {NoBuf}]
      BY <1>3, <2>2 DEF Cleanup, TypeOK, HeapTypeOK
    <3>2. HeapTypeOK'
      BY <1>3, <2>2, <3>1, DetachType DEF Cleanup, TypeOK
    <3>3. CounterTypeOK'
      BY <1>3, <2>2 DEF Cleanup, TypeOK, CounterTypeOK
    <3>4. QED
      BY <2>1, <3>2, <3>3 DEF TypeOK
  <2>3. CASE ~ StillUnused(req[p].scope, ref[p])
    BY <1>3, <2>1, <2>3 DEF Cleanup, TypeOK, HeapTypeOK, CounterTypeOK
  <2>4. QED
    BY <2>2, <2>3
<1>4. ASSUME NEW s \in Scopes, DeleteScope(p, s)
      PROVE  TypeOK'
  <2>1. scopes[s] \in Bufs
    BY <1>4 DEF DeleteScope, TypeOK, HeapTypeOK
  <2>2. bytes[scopes[s]] \in Int /\ Cardinality(DOMAIN items[scopes[s]]) \in Int
    BY <2>1, ItemMapFacts DEF TypeOK, HeapTypeOK
  <2>3. scopes' \in [Scopes -> Bufs \cup {NoBuf}]
    BY <1>4 DEF DeleteScope, TypeOK, HeapTypeOK
  <2>4. HeapTypeOK'
    BY <1>4, <2>3, DetachType DEF DeleteScope, TypeOK
  <2>5. CounterTypeOK'
    BY <1>4, <2>2 DEF DeleteScope, TypeOK, CounterTypeOK
  <2>6. ProcTypeOK' /\ LockTypeOK'
    BY <1>4, CommittedType DEF DeleteScope, TypeOK, LockTypeOK
  <2>7. QED
    BY <2>4, <2>5, <2>6 DEF TypeOK
<1>5. ASSUME NEW s \in Scopes, DetachBuffer(p, s)
      PROVE  TypeOK'
  <2>1. HeapTypeOK'
    BY <1>5, DetachType DEF DetachBuffer, TypeOK, HeapTypeOK
  <2>2. QED
    BY <1>5, <2>1 DEF DetachBuffer, TypeOK, CounterTypeOK, ProcTypeOK, LockTypeOK, totals, procVars
<1>6. QED
  BY <1>1, <1>2, <1>3, <1>4, <1>5

\* What a bulk load may hold: user scopes only, item maps that fit the seqs.
LEMMA LoadFacts ==
  ASSUME NEW ld \in Loads
  PROVE  /\ ld \in [Scopes -> Batches \cup {NoBatch}]
         /\ \A s \in Reserved : ld[s] = NoBatch
         /\ \A s \in WarmScopes(ld) : ld[s] \in Batches
BY DEF Loads, WarmScopes

LEMMA BatchFacts ==
  ASSUME NEW bt \in Batches
  PROVE  /\ IsItemMap(bt)
         /\ IsFiniteSet(DOMAIN bt)
         /\ Cardinality(DOMAIN bt) \in 0..MaxSeq
         /\ BytesOf(bt, DOMAIN bt) \in Int
<1>1. IsItemMap(bt)
  BY Zenon
<1>2. QED
  BY <1>1, ItemMapFacts

\* The plans /warm writes down are plans.
LEMMA PlanFacts ==
  /\ NoPlan \in Plan
  /\ [NoPlan EXCEPT !.phase = "todo"] \in Plan
  /\ \A pl \in Plan : pl.old \in Int /\ pl.new \in BOOLEAN
  /\ \A pl \in Plan : [pl EXCEPT !.phase = "reserved"] \in Plan
  /\ \A pl \in Plan : [pl EXCEPT !.phase = "done"] \in Plan
  /\ \A pl \in Plan : [pl EXCEPT !.phase = "done", !.new = TRUE] \in Plan
  /\ \A n \in Int : [phase |-> "snap", old |-> n, new |-> FALSE] \in Plan
<1>1. NoPlan \in Plan
  BY DEF Plan, NoPlan
<1>2. [NoPlan EXCEPT !.phase = "todo"] \in Plan
  <2>1. \A pl \in Plan : [pl EXCEPT !.phase = "todo"] \in Plan
    BY DEF Plan
  <2>2. QED
    BY <1>1, <2>1
<1>3. \A pl \in Plan : pl.old \in Int /\ pl.new \in BOOLEAN
  BY DEF Plan
<1>4. \A pl \in Plan : [pl EXCEPT !.phase = "reserved"] \in Plan
  BY DEF Plan
<1>5. \A pl \in Plan : [pl EXCEPT !.phase = "done"] \in Plan
  BY DEF Plan
<1>6. \A pl \in Plan : [pl EXCEPT !.phase = "done", !.new = TRUE] \in Plan
  BY DEF Plan
<1>7. \A n \in Int : [phase |-> "snap", old |-> n, new |-> FALSE] \in Plan
  BY DEF Plan
<1>8. QED
  BY <1>1, <1>2, <1>3, <1>4, <1>5, <1>6, <1>7

LEMMA LockingType ==
  ASSUME TypeOK, NEW p \in Procs,
         WipeLock(p) \/ \E ld \in Loads : RebuildLock(p, ld) \/ WarmLock(p, ld)
  PROVE  TypeOK'
<1>1. CASE WipeLock(p)
  <2>1. HeapTypeOK' /\ CounterTypeOK'
    BY <1>1 DEF WipeLock, LockAll, TypeOK, HeapTypeOK, CounterTypeOK, bufVars, totals
  <2>2. ProcTypeOK'
    BY <1>1 DEF WipeLock, LockAll, TypeOK, ProcTypeOK, Labels
  <2>3. LockTypeOK'
    BY <1>1 DEF WipeLock, LockAll, AllShards, TypeOK, LockTypeOK
  <2>4. QED
    BY <2>1, <2>2, <2>3 DEF TypeOK
<1>2. ASSUME NEW ld \in Loads, RebuildLock(p, ld)
      PROVE  TypeOK'
  <2>1. HeapTypeOK' /\ CounterTypeOK'
    BY <1>2 DEF RebuildLock, LockAll, TypeOK, HeapTypeOK, CounterTypeOK, bufVars, totals
  <2>2. ProcTypeOK'
    BY <1>2, LoadFacts DEF RebuildLock, LockAll, TypeOK, ProcTypeOK, Labels
  <2>3. LockTypeOK'
    BY <1>2 DEF RebuildLock, LockAll, AllShards, TypeOK, LockTypeOK
  <2>4. QED
    BY <2>1, <2>2, <2>3 DEF TypeOK
<1>3. ASSUME NEW ld \in Loads, WarmLock(p, ld)
      PROVE  TypeOK'
  <2>1. HeapTypeOK' /\ CounterTypeOK'
    BY <1>3 DEF WarmLock, TypeOK, HeapTypeOK, CounterTypeOK, bufVars, totals
  <2>2. ProcTypeOK'
    BY <1>3, LoadFacts DEF WarmLock, TypeOK, ProcTypeOK, Labels
  <2>3. LockTypeOK'
    <3>1. holder' \in [Shards -> Procs \cup {NoProc}]
      BY <1>3 DEF WarmLock, TypeOK, LockTypeOK
    <3>2. [NoPlan EXCEPT !.phase = "todo"] \in Plan
      BY PlanFacts
    <3>3. plan' \in [Scopes -> Plan]
      BY <1>3, <3>2 DEF WarmLock, TypeOK, LockTypeOK
    <3>4. QED
      BY <3>1, <3>3 DEF LockTypeOK
  <2>4. QED
    BY <2>1, <2>2, <2>3 DEF TypeOK
<1>4. QED
  BY <1>1, <1>2, <1>3

\* The sums of a load's bytes and items.
LEMMA LoadSums ==
  ASSUME NEW ld \in [Scopes -> Batches \cup {NoBatch}]
  PROVE  /\ \A s \in Scopes : LoadBytes(ld)[s] \in Int /\ LoadItems(ld)[s] \in Int
         /\ SumFunctionOnSet(LoadBytes(ld), Scopes) \in Int
         /\ SumFunctionOnSet(LoadItems(ld), Scopes) \in Int
         /\ ReservedOverhead \in Int
<1>1. ASSUME NEW s \in Scopes
      PROVE  LoadBytes(ld)[s] \in Int /\ LoadItems(ld)[s] \in Int
  BY BatchFacts DEF LoadBytes, LoadItems
<1>2. IsFiniteSet(Scopes) /\ IsFiniteSet(Reserved) /\ Cardinality(Reserved) \in Nat
  BY FS_Subset, FS_CardinalityType
<1>3. QED
  BY <1>1, <1>2, SumType DEF ReservedOverhead

\* The buffers a swap installs.
SwapBufs(ld) == CHOOSE g \in Injection(KeptScopes(ld), FreshBufs) : TRUE

BatchOf(ld, s) == IF ld[s] = NoBatch THEN NoItems ELSE ld[s]

\* What Swap leaves behind, scope by scope.
LEMMA SwapEffect ==
  ASSUME TypeOK, NEW p \in Procs, NEW ld \in [Scopes -> Batches \cup {NoBatch}], Swap(p, ld)
  PROVE  LET f == SwapBufs(ld)
             kept == KeptScopes(ld)
         IN  /\ kept \subseteq Scopes
             /\ f \in [kept -> FreshBufs] /\ IsInjective(f)
             /\ scopes' = [s \in Scopes |-> IF s \in kept THEN f[s] ELSE NoBuf]
             /\ \A s \in kept : /\ items'[f[s]] = BatchOf(ld, s)
                                 /\ bytes'[f[s]] = BytesOf(BatchOf(ld, s), DOMAIN BatchOf(ld, s))
                                 /\ lastSeq'[f[s]] = Cardinality(DOMAIN BatchOf(ld, s))
                                 /\ detached'[f[s]] = FALSE
             /\ \A b \in Bufs : (\A s \in kept : f[s] # b) =>
                                 /\ items'[b] = items[b]
                                 /\ bytes'[b] = bytes[b]
                                 /\ lastSeq'[b] = lastSeq[b]
                                 /\ detached'[b] = detached[b]
<1> DEFINE f == SwapBufs(ld)
           kept == KeptScopes(ld)
           at(b)    == CHOOSE s \in kept : f[s] = b
           isNew(b) == \E s \in kept : f[s] = b
           batch(b) == IF ld[at(b)] = NoBatch THEN NoItems ELSE ld[at(b)]
<1>1. kept \subseteq Scopes
  BY DEF KeptScopes, WarmScopes
<1>2. f \in Injection(kept, FreshBufs)
  BY DEF Swap, ExistsInjection, SwapBufs
<1>3. f \in [kept -> FreshBufs] /\ IsInjective(f)
  BY <1>2 DEF Injection
<1>4. \A s \in kept : f[s] \in Bufs /\ isNew(f[s]) /\ at(f[s]) = s
  BY <1>3 DEF IsInjective, FreshBufs
<1>5. /\ scopes'   = [s \in Scopes |-> IF s \in kept THEN f[s] ELSE NoBuf]
      /\ items'    = [b \in Bufs |-> IF isNew(b) THEN batch(b) ELSE items[b]]
      /\ bytes'    = [b \in Bufs |-> IF isNew(b) THEN BytesOf(batch(b), DOMAIN batch(b)) ELSE bytes[b]]
      /\ lastSeq'  = [b \in Bufs |-> IF isNew(b) THEN Cardinality(DOMAIN batch(b)) ELSE lastSeq[b]]
      /\ detached' = [b \in Bufs |-> detached[b] /\ ~ isNew(b)]
  BY DEF Swap, SwapBufs
<1>6. \A s \in kept : batch(f[s]) = BatchOf(ld, s)
  <2> HIDE DEF at
  <2> QED BY <1>4 DEF BatchOf
<1> HIDE DEF f, kept, at, isNew, batch
<1>7. \A s \in kept : /\ items'[f[s]] = BatchOf(ld, s)
                       /\ bytes'[f[s]] = BytesOf(BatchOf(ld, s), DOMAIN BatchOf(ld, s))
                       /\ lastSeq'[f[s]] = Cardinality(DOMAIN BatchOf(ld, s))
                       /\ detached'[f[s]] = FALSE
  BY <1>4, <1>5, <1>6
<1>8. \A b \in Bufs : (\A s \in kept : f[s] # b) => ~ isNew(b)
  BY DEF isNew
<1>9. \A b \in Bufs : ~ isNew(b) =>
                            /\ items'[b] = items[b]
                            /\ bytes'[b] = bytes[b]
                            /\ lastSeq'[b] = lastSeq[b]
                            /\ detached'[b] = detached[b]
  BY <1>5 DEF TypeOK, HeapTypeOK
<1>10. QED
  BY <1>1, <1>3, <1>5, <1>7, <1>8, <1>9 DEF f, kept

LEMMA SwapType ==
  ASSUME TypeOK, NEW p \in Procs, NEW ld \in [Scopes -> Batches \cup {NoBatch}], Swap(p, ld)
  PROVE  TypeOK'
<1> DEFINE f == SwapBufs(ld)
           kept == KeptScopes(ld)
<1>1. /\ kept \subseteq Scopes
      /\ f \in [kept -> FreshBufs]
      /\ scopes' = [s \in Scopes |-> IF s \in kept THEN f[s] ELSE NoBuf]
      /\ \A s \in kept : /\ items'[f[s]] = BatchOf(ld, s)
                          /\ bytes'[f[s]] = BytesOf(BatchOf(ld, s), DOMAIN BatchOf(ld, s))
                          /\ lastSeq'[f[s]] = Cardinality(DOMAIN BatchOf(ld, s))
                          /\ detached'[f[s]] = FALSE
      /\ \A b \in Bufs : (\A s \in kept : f[s] # b) =>
                          /\ items'[b] = items[b]
                          /\ bytes'[b] = bytes[b]
                          /\ lastSeq'[b] = lastSeq[b]
                          /\ detached'[b] = detached[b]
  BY SwapEffect
<1>2. \A s \in kept : f[s] \in Bufs
  BY <1>1 DEF FreshBufs
<1>3. ASSUME NEW s \in kept
      PROVE  IsItemMap(BatchOf(ld, s)) /\ BytesOf(BatchOf(ld, s), DOMAIN BatchOf(ld, s)) \in Int
             /\ Cardinality(DOMAIN BatchOf(ld, s)) \in 0..MaxSeq
  <2>1. IsItemMap(BatchOf(ld, s))
    BY <1>1, BatchFacts, NoItemsMap DEF BatchOf
  <2>2. QED
    BY <2>1, ItemMapFacts
<1>4. ASSUME NEW b \in Bufs
      PROVE  IsItemMap(items'[b]) /\ bytes'[b] \in Int /\ lastSeq'[b] \in 0..MaxSeq
  <2>1. CASE \A s \in kept : f[s] # b
    BY <1>1, <2>1 DEF TypeOK, HeapTypeOK
  <2>2. ASSUME NEW s \in kept, f[s] = b
        PROVE  IsItemMap(items'[b]) /\ bytes'[b] \in Int /\ lastSeq'[b] \in 0..MaxSeq
    <3> HIDE DEF f, kept
    <3> QED BY <1>1, <1>3, <2>2
  <2>3. QED
    BY <2>1, <2>2
<1>5. /\ items' = [b \in Bufs |-> items'[b]]
      /\ bytes' = [b \in Bufs |-> bytes'[b]]
      /\ lastSeq' = [b \in Bufs |-> lastSeq'[b]]
      /\ detached' \in [Bufs -> BOOLEAN]
  BY DEF Swap
<1>6. HeapTypeOK'
  <2>1. scopes' \in [Scopes -> Bufs \cup {NoBuf}]
    BY <1>1, <1>2
  <2>2. QED
    BY <1>4, <1>5, <2>1 DEF HeapTypeOK
<1>7. IsFiniteSet(kept) /\ Cardinality(kept) \in Nat
  BY <1>1, FS_Subset, FS_CardinalityType
<1>8. CounterTypeOK'
  BY <1>7, LoadSums DEF Swap, TypeOK, CounterTypeOK
<1>9. ProcTypeOK'
  BY IdleType DEF Swap, TypeOK
<1>10. LockTypeOK'
  BY DEF Swap, TypeOK, LockTypeOK
<1>11. QED
  BY <1>6, <1>8, <1>9, <1>10 DEF TypeOK

\* The delta of a warm plan.
LEMMA PlanSums ==
  ASSUME TypeOK, NEW ld \in [Scopes -> Batches \cup {NoBatch}]
  PROVE  /\ \A s \in WarmScopes(ld) : ld[s] \in Batches /\ PlanDelta(ld, s) \in Int
         /\ TotalDelta(ld) \in Int
<1>1. ASSUME NEW s \in WarmScopes(ld)
      PROVE  ld[s] \in Batches /\ PlanDelta(ld, s) \in Int
  <2>1. s \in Scopes /\ ld[s] \in Batches
    BY DEF WarmScopes
  <2>2. plan[s].old \in Int
    BY <2>1 DEF TypeOK, LockTypeOK, Plan
  <2>3. QED
    BY <2>1, <2>2, BatchFacts DEF PlanDelta
<1>2. TotalDelta(ld) \in Int
  <2> DEFINE d == [s \in Scopes |-> IF s \in WarmScopes(ld) THEN PlanDelta(ld, s) ELSE 0]
  <2>1. \A s \in Scopes : d[s] \in Int
    BY <1>1
  <2>2. SumFunctionOnSet(d, Scopes) \in Int
    <3> HIDE DEF d
    <3> QED BY <2>1, SumType
  <2>3. QED
    BY <2>2 DEF TotalDelta
<1>3. QED
  BY <1>1, <1>2

LEMMA WarmType ==
  ASSUME TypeOK, NEW p \in Procs,
         \/ \E s \in Scopes : WarmSnapshot(p, s) \/ WarmCommit(p, s) \/ WarmCreate(p, s)
         \/ WarmReserve(p) \/ WarmRefused(p) \/ WarmFinish(p)
  PROVE  TypeOK'
<1>0. load[p] \in [Scopes -> Batches \cup {NoBatch}]
  BY DEF TypeOK, ProcTypeOK
<1>1. ASSUME NEW s \in Scopes, WarmSnapshot(p, s)
      PROVE  TypeOK'
  <2> DEFINE old == IF scopes[s] = NoBuf THEN 0 ELSE bytes[scopes[s]]
  <2>1. old \in Int
    BY DEF TypeOK, HeapTypeOK
  <2>2. plan' = [plan EXCEPT ![s] = [phase |-> "snap", old |-> old, new |-> FALSE]]
    BY <1>1 DEF WarmSnapshot
  <2> HIDE DEF old
  <2>3. LockTypeOK'
    BY <1>1, <2>1, <2>2, PlanFacts DEF WarmSnapshot, TypeOK, LockTypeOK
  <2>4. QED
    BY <1>1, <2>3 DEF WarmSnapshot, TypeOK, HeapTypeOK, CounterTypeOK, ProcTypeOK, bufVars, totals, procVars
<1>2. ASSUME NEW s \in Scopes, WarmCommit(p, s)
      PROVE  TypeOK'
  <2> DEFINE b == scopes[s]
             bt == load[p][s]
  <2>1. b \in Bufs /\ bt \in Batches
    BY <1>0, <1>2 DEF WarmCommit, PlanScopes, WarmScopes, TypeOK, HeapTypeOK
  <2>2. Drift(s) \in Int /\ ItemsDelta(b, bt) \in Int
    <3>1. bytes[b] \in Int /\ plan[s].old \in Int
      BY <2>1, PlanFacts DEF TypeOK, HeapTypeOK, LockTypeOK
    <3>2. Cardinality(DOMAIN bt) \in Int
      BY <2>1, BatchFacts
    <3>3. Cardinality(DOMAIN items[b]) \in Int
      BY <2>1, ItemMapFacts DEF TypeOK, HeapTypeOK
    <3>4. QED
      BY <3>1, <3>2, <3>3 DEF Drift, ItemsDelta
  <2>3. CommitReplacementPreReserved(b, bt, Drift(s))
    BY <1>2 DEF WarmCommit
  <2> HIDE DEF b, bt
  <2>4. HeapTypeOK'
    <3>1. scopes' \in [Scopes -> Bufs \cup {NoBuf}] /\ detached' \in [Bufs -> BOOLEAN]
      BY <1>2 DEF WarmCommit, TypeOK, HeapTypeOK
    <3>2. bytes' \in [Bufs -> Int] /\ lastSeq' \in [Bufs -> 0..MaxSeq]
      BY <2>1, <2>3, BatchFacts DEF CommitReplacementPreReserved, TypeOK, HeapTypeOK
    <3>3. items' = [items EXCEPT ![b] = bt] /\ IsItemMap(bt)
      BY <2>1, <2>3, BatchFacts DEF CommitReplacementPreReserved
    <3>4. QED
      BY <2>1, <3>1, <3>2, <3>3, HeapUpdate DEF TypeOK
  <2>5. CounterTypeOK'
    BY <1>2, <2>2, <2>3, SMTT(40) DEF WarmCommit, CommitReplacementPreReserved, TypeOK, CounterTypeOK
  <2>6. LockTypeOK'
    BY <1>2, PlanFacts DEF WarmCommit, TypeOK, LockTypeOK
  <2>7. QED
    BY <1>2, <2>4, <2>5, <2>6 DEF WarmCommit, TypeOK, ProcTypeOK, procVars
<1>3. ASSUME NEW s \in Scopes, WarmCreate(p, s)
      PROVE  TypeOK'
  <2> DEFINE bt == load[p][s]
  <2>1. NewBuf \in Bufs /\ bt \in Batches
    BY <1>0, <1>3, NewBufFresh DEF WarmCreate, PlanScopes, WarmScopes
  <2>2. IsItemMap(bt) /\ Cardinality(DOMAIN bt) \in 0..MaxSeq /\ BytesOf(bt, DOMAIN bt) \in Int
    BY <2>1, BatchFacts
  <2>3. /\ items'    = [items EXCEPT ![NewBuf] = bt]
        /\ bytes'    = [bytes EXCEPT ![NewBuf] = BytesOf(bt, DOMAIN bt)]
        /\ lastSeq'  = [lastSeq EXCEPT ![NewBuf] = Cardinality(DOMAIN bt)]
        /\ detached' = [detached EXCEPT ![NewBuf] = FALSE]
        /\ totalItems' = totalItems + Cardinality(DOMAIN bt)
    BY <1>3 DEF WarmCreate
  <2> HIDE DEF bt
  <2>4. HeapTypeOK'
    <3>1. scopes' \in [Scopes -> Bufs \cup {NoBuf}]
      BY <1>3, <2>1 DEF WarmCreate, TypeOK, HeapTypeOK
    <3>2. bytes' \in [Bufs -> Int] /\ lastSeq' \in [Bufs -> 0..MaxSeq] /\ detached' \in [Bufs -> BOOLEAN]
      BY <2>2, <2>3 DEF TypeOK, HeapTypeOK
    <3>3. QED
      BY <2>1, <2>2, <2>3, <3>1, <3>2, HeapUpdate DEF TypeOK
  <2>5. CounterTypeOK'
    BY <1>3, <2>2, <2>3 DEF WarmCreate, TypeOK, CounterTypeOK
  <2>6. LockTypeOK'
    BY <1>3, PlanFacts DEF WarmCreate, TypeOK, LockTypeOK
  <2>7. QED
    BY <1>3, <2>4, <2>5, <2>6 DEF WarmCreate, TypeOK, ProcTypeOK, procVars
<1>4. CASE WarmReserve(p)
  <2>1. TotalDelta(load[p]) \in Int
    BY <1>0, PlanSums
  <2>2. CounterTypeOK'
    BY <1>4, <2>1 DEF WarmReserve, TypeOK, CounterTypeOK
  <2>3. LockTypeOK'
    BY <1>4, PlanFacts DEF WarmReserve, TypeOK, LockTypeOK
  <2>4. QED
    BY <1>4, <2>2, <2>3 DEF WarmReserve, TypeOK, HeapTypeOK, ProcTypeOK, bufVars, procVars
<1>5. CASE WarmRefused(p)
  <2>1. LockTypeOK'
    BY <1>5, PlanFacts DEF WarmRefused, Unlock, ClearPlans, TypeOK, LockTypeOK
  <2>2. QED
    BY <1>5, <2>1, IdleType DEF WarmRefused, TypeOK, HeapTypeOK, CounterTypeOK, bufVars, totals
<1>6. CASE WarmFinish(p)
  <2>1. LockTypeOK'
    BY <1>6, PlanFacts DEF WarmFinish, Unlock, ClearPlans, TypeOK, LockTypeOK
  <2>2. NewScopes(p) \in SUBSET Scopes
    BY DEF NewScopes, PlanScopes, WarmScopes
  <2>3. Cardinality(NewScopes(p)) \in Nat
    BY <2>2, FS_Subset, FS_CardinalityType
  <2>4. CounterTypeOK'
    BY <1>6, <2>3 DEF WarmFinish, TypeOK, CounterTypeOK
  <2>5. QED
    BY <1>6, <2>1, <2>4, CommittedType DEF WarmFinish, TypeOK, HeapTypeOK, bufVars
<1>7. QED
  BY <1>1, <1>2, <1>3, <1>4, <1>5, <1>6

LEMMA BeginType ==
  ASSUME TypeOK, NEW p \in Procs, Begin(p) \/ Emit(p)
  PROVE  TypeOK'
<1>1. CASE Begin(p)
  BY <1>1, LookupFoundType, LookupCreatedType DEF Begin, Requests
<1>2. CASE Emit(p)
  BY <1>2, LookupFoundType, NoRequestType DEF Emit
<1>3. QED
  BY <1>1, <1>2

LEMMA StutterType ==
  ASSUME TypeOK, UNCHANGED vars
  PROVE  TypeOK'
BY DEF TypeOK, HeapTypeOK, CounterTypeOK, ProcTypeOK, LockTypeOK, vars, bufVars, totals, procVars

LEMMA NextType ==
  ASSUME TypeOK, [Next]_vars
  PROVE  TypeOK'
<1>1. CASE UNCHANGED vars
  BY <1>1, StutterType
<1>2. ASSUME NEW p \in Procs, Accept(p)
      PROVE  TypeOK'
  BY <1>2, BeginType, ScopeOpsType, LockingType DEF Accept
<1>3. ASSUME NEW p \in Procs, Proceed(p)
      PROVE  TypeOK'
  <2>1. load[p] \in [Scopes -> Batches \cup {NoBatch}]
    BY DEF TypeOK, ProcTypeOK
  <2>2. CASE WipeSwap(p) \/ RebuildSwap(p)
    BY <2>1, <2>2, SwapType, NoRequestType DEF WipeSwap, RebuildSwap
  <2>3. CASE Emit(p)
    BY <2>3, BeginType
  <2>4. CASE AppendItem(p) \/ UpsertByID(p) \/ CounterAdd(p) \/ UpdateItem(p) \/ DeleteItems(p)
    BY <2>4, CommitType
  <2>5. CASE Miss(p) \/ Fail(p) \/ Cleanup(p) \/ \E s \in Scopes : DetachBuffer(p, s)
    BY <2>5, ScopeOpsType
  <2>6. CASE \/ \E s \in Scopes : WarmSnapshot(p, s) \/ WarmCommit(p, s) \/ WarmCreate(p, s)
             \/ WarmReserve(p) \/ WarmRefused(p) \/ WarmFinish(p)
    BY <2>6, WarmType
  <2>7. QED
    BY <1>3, <2>2, <2>3, <2>4, <2>5, <2>6 DEF Proceed
<1>4. QED
  BY <1>1, <1>2, <1>3 DEF Next

\* Every variable keeps its shape: no interleaving of the request goroutines
\* leads a step to a missing buffer, a malformed plan or a negative seq.
THEOREM TypeCorrect == Spec => []TypeOK
<1>1. Init => TypeOK
  BY InitType
<1>2. TypeOK /\ [Next]_vars => TypeOK'
  BY NextType
<1>3. QED
  BY <1>1, <1>2, PTL DEF Spec

----------------------------------------------------------------------------
(* Part 2: the locks and the detach rule *)

BulkLabels == {"wipe", "rebuild", "warm"}

\* Only a scope a client named is ever rolled back, and /warm and /rebuild load
\* user scopes only.
UserScopesOnly ==
  /\ \A p \in Procs : created[p] => req[p].scope \in UserScopes
  /\ \A p \in Procs : pc[p] = "cleanup" => created[p]
  /\ \A p \in Procs : \A s \in Reserved : load[p][s] = NoBatch

ReservedMapped == \A s \in Reserved : scopes[s] # NoBuf

\* The inductive invariant of the locks and pointers.
LockInv ==
  /\ TypeOK
  /\ LockDiscipline
  /\ LookupsAreLive
  /\ NoOrphanWrites
  /\ UserScopesOnly
  /\ ReservedMapped

----------------------------------------------------------------------------
(* Steps that leave the locks alone *)

\* A goroutine that returns, or turns to its event, gives everything up.
LEMMA ReturnFacts ==
  ASSUME TypeOK, NEW p \in Procs, Idle(p) \/ Committed(p)
  PROVE  /\ pc'[p] \in {"idle", "emit"}
         /\ created'[p] = FALSE
         /\ load'[p] = NoLoad
         /\ \A q \in Procs \ {p} : /\ pc'[q] = pc[q] /\ req'[q] = req[q] /\ ref'[q] = ref[q]
                                   /\ created'[q] = created[q] /\ load'[q] = load[q]
<1>1. CASE Idle(p)
  BY <1>1 DEF Idle, TypeOK, ProcTypeOK
<1>2. CASE Committed(p) /\ ~ Idle(p)
  <2>1. /\ pc'      = [pc EXCEPT ![p] = "emit"]
        /\ req'     = [req EXCEPT ![p] = EventRequest]
        /\ ref'     = [ref EXCEPT ![p] = NoBuf]
        /\ created' = [created EXCEPT ![p] = FALSE]
        /\ load'    = [load EXCEPT ![p] = NoLoad]
    BY <1>2, Zenon DEF Committed
  <2>2. QED
    BY <2>1 DEF TypeOK, ProcTypeOK
<1>3. QED
  BY <1>1, <1>2

LEMMA LockFrame ==
  ASSUME TypeOK, LockDiscipline, NEW p \in Procs, UNCHANGED <<holder, plan>>,
         pc[p] \notin BulkLabels, pc'[p] \notin BulkLabels,
         \A q \in Procs \ {p} : pc'[q] = pc[q] /\ load'[q] = load[q],
         \A s \in Scopes : plan[s].new => scopes'[s] = scopes[s]
  PROVE  LockDiscipline' /\ \A sh \in Shards : holder[sh] # p
<1>1. \A sh \in Shards : holder[sh] # p
  BY DEF LockDiscipline, BulkLabels, TypeOK, LockTypeOK
<1>2. \A sh \in Shards : holder'[sh] # NoProc => pc'[holder'[sh]] \in BulkLabels
  BY <1>1 DEF LockDiscipline, BulkLabels, TypeOK, LockTypeOK
<1>3. \A q \in Procs : pc'[q] \in {"wipe", "rebuild"} => \A sh \in Shards : holder'[sh] = q
  BY DEF LockDiscipline, BulkLabels
<1>4. \A q \in Procs : pc'[q] = "warm" => q # p /\ PlanScopes(q)' = PlanScopes(q)
  BY DEF BulkLabels, PlanScopes, WarmScopes
<1>5. \A q \in Procs : pc'[q] = "warm" => \A s \in PlanScopes(q)' : holder'[ShardOf[s]] = q
  BY <1>4 DEF LockDiscipline
<1>6. ASSUME NEW s \in Scopes, plan'[s].phase # "none"
      PROVE  (~ ShardFree(s) /\ pc[holder[ShardOf[s]]] = "warm" /\ s \in PlanScopes(holder[ShardOf[s]]))'
  <2>1. /\ ~ ShardFree(s) /\ pc[holder[ShardOf[s]]] = "warm"
        /\ s \in PlanScopes(holder[ShardOf[s]])
    BY <1>6 DEF LockDiscipline
  <2>2. holder[ShardOf[s]] \in Procs \ {p}
    BY <1>1, <2>1 DEF ShardFree, TypeOK, LockTypeOK
  <2>3. QED
    BY <2>1, <2>2 DEF ShardFree, PlanScopes, WarmScopes
<1>7. \A s \in Scopes : plan'[s].new => plan'[s].phase = "done" /\ scopes'[s] # NoBuf
  BY DEF LockDiscipline
<1>8. QED
  BY <1>1, <1>2, <1>3, <1>5, <1>6, <1>7 DEF LockDiscipline, BulkLabels

LEMMA LiveFrame ==
  ASSUME TypeOK, LookupsAreLive, NEW p \in Procs, UNCHANGED <<scopes, detached, holder>>,
         \A sh \in Shards : holder[sh] # p,
         \A q \in Procs \ {p} : pc'[q] = pc[q]
  PROVE  LookupsAreLive'
<1>1. Mapped' = Mapped /\ \A s \in Mapped : s \in Scopes
  BY DEF Mapped
<1>2. ASSUME NEW s \in Mapped, detached[scopes[s]]
      PROVE  (~ ShardFree(s) /\ pc[holder[ShardOf[s]]] \in {"wipe", "rebuild"})'
  <2>1. ~ ShardFree(s) /\ pc[holder[ShardOf[s]]] \in {"wipe", "rebuild"}
    BY <1>2 DEF LookupsAreLive
  <2>2. holder[ShardOf[s]] \in Procs \ {p}
    BY <1>1, <2>1 DEF ShardFree, TypeOK, LockTypeOK
  <2>3. QED
    BY <2>1, <2>2 DEF ShardFree
<1>3. QED
  BY <1>1, <1>2 DEF LookupsAreLive

\* What a returning goroutine does to the user-scope facts.
LEMMA ReturnUserScopes ==
  ASSUME TypeOK, UserScopesOnly, NEW p \in Procs, Idle(p) \/ Committed(p)
  PROVE  UserScopesOnly'
<1>1. /\ pc'[p] \in {"idle", "emit"} /\ created'[p] = FALSE /\ load'[p] = NoLoad
      /\ \A q \in Procs \ {p} : /\ pc'[q] = pc[q] /\ req'[q] = req[q]
                                /\ created'[q] = created[q] /\ load'[q] = load[q]
  BY ReturnFacts
<1>2. \A s \in Reserved : NoLoad[s] = NoBatch
  BY DEF NoLoad
<1>3. QED
  BY <1>1, <1>2 DEF UserScopesOnly

\* A step that only ends a request: every write, miss or failure.
LEMMA ReturnStep ==
  ASSUME LockInv, TypeOK', NEW p \in Procs, Idle(p) \/ Committed(p), pc[p] \notin BulkLabels,
         UNCHANGED <<scopes, detached, holder, plan>>
  PROVE  LockInv'
<1>1. /\ pc'[p] \in {"idle", "emit"}
      /\ \A q \in Procs \ {p} : /\ pc'[q] = pc[q] /\ req'[q] = req[q] /\ ref'[q] = ref[q]
                                /\ created'[q] = created[q] /\ load'[q] = load[q]
  BY ReturnFacts DEF LockInv
<1>2. LockDiscipline' /\ \A sh \in Shards : holder[sh] # p
  BY <1>1, LockFrame DEF LockInv, BulkLabels
<1>3. LookupsAreLive'
  BY <1>1, <1>2, LiveFrame DEF LockInv
<1>4. NoOrphanWrites'
  BY <1>1 DEF LockInv, NoOrphanWrites
<1>5. UserScopesOnly' /\ ReservedMapped'
  BY ReturnUserScopes DEF LockInv, ReservedMapped
<1>6. QED
  BY <1>2, <1>3, <1>4, <1>5 DEF LockInv

\* Taking a scope out of the map, as deleteScope and the rollback do.
LEMMA UnmapStep ==
  ASSUME LockInv, TypeOK', NEW p \in Procs, Idle(p) \/ Committed(p), pc[p] \notin BulkLabels,
         NEW s \in UserScopes, ShardFree(s), scopes[s] # NoBuf,
         scopes' = [scopes EXCEPT ![s] = NoBuf], Detach(scopes[s]),
         UNCHANGED <<holder, plan>>
  PROVE  LockInv'
<1>0. s \in Scopes /\ s \notin Reserved
  BY DEF UserScopes
<1>1. /\ pc'[p] \in {"idle", "emit"}
      /\ \A q \in Procs \ {p} : /\ pc'[q] = pc[q] /\ req'[q] = req[q] /\ ref'[q] = ref[q]
                                /\ created'[q] = created[q] /\ load'[q] = load[q]
  BY ReturnFacts DEF LockInv
<1>2. /\ scopes'[s] = NoBuf
      /\ \A t \in Scopes \ {s} : scopes'[t] = scopes[t]
      /\ detached'[scopes[s]] = TRUE
      /\ \A b \in Bufs : b # scopes[s] => detached'[b] = detached[b]
  BY <1>0 DEF LockInv, TypeOK, HeapTypeOK, Detach
<1>3. \A t \in Scopes : plan[t].new => scopes'[t] = scopes[t]
  BY <1>2 DEF LockInv, LockDiscipline
<1>4. LockDiscipline' /\ \A sh \in Shards : holder[sh] # p
  BY <1>1, <1>3, LockFrame DEF LockInv, BulkLabels
<1>5. LookupsAreLive'
  <2>1. \A t \in Mapped' : t \in Mapped /\ t # s /\ scopes'[t] = scopes[t] /\ scopes[t] \in Bufs
    BY <1>2 DEF Mapped, LockInv, TypeOK, HeapTypeOK
  <2>2. s \in Mapped
    BY <1>0 DEF Mapped
  <2>3. \A t \in Mapped' : detached'[scopes'[t]] = detached[scopes[t]]
    BY <1>2, <2>1, <2>2 DEF LockInv, LookupsAreLive
  <2>4. ASSUME NEW t \in Mapped', detached'[scopes'[t]]
        PROVE  (~ ShardFree(t) /\ pc[holder[ShardOf[t]]] \in {"wipe", "rebuild"})'
    <3>1. t \in Scopes /\ ~ ShardFree(t) /\ pc[holder[ShardOf[t]]] \in {"wipe", "rebuild"}
      BY <2>1, <2>3, <2>4 DEF LockInv, LookupsAreLive, Mapped
    <3>2. holder[ShardOf[t]] \in Procs \ {p}
      BY <1>4, <3>1 DEF ShardFree, LockInv, TypeOK, LockTypeOK
    <3>3. QED
      BY <1>1, <3>1, <3>2 DEF ShardFree
  <2>5. \A t, u \in Mapped' : scopes'[t] = scopes'[u] => t = u
    BY <2>1 DEF LockInv, LookupsAreLive
  <2>6. QED
    BY <2>4, <2>5 DEF LookupsAreLive
<1>6. NoOrphanWrites'
  <2>1. ASSUME NEW q \in Procs, pc'[q] \in {"commit", "cleanup"}, ~ detached'[ref'[q]]
        PROVE  scopes'[req'[q].scope] = ref'[q]
    <3>1. q # p
      BY <1>1, <2>1
    <3>2. ref[q] \in Bufs /\ req[q].scope \in Scopes
      BY <1>1, <2>1, <3>1 DEF LockInv, TypeOK, ProcTypeOK, Request
    <3>3. ref[q] # scopes[s] /\ ~ detached[ref[q]]
      BY <1>1, <1>2, <2>1, <3>1, <3>2
    <3>4. scopes[req[q].scope] = ref[q]
      BY <1>1, <2>1, <3>1, <3>3 DEF LockInv, NoOrphanWrites
    <3>5. QED
      BY <1>1, <1>2, <3>1, <3>2, <3>3, <3>4
  <2>2. QED
    BY <2>1 DEF NoOrphanWrites
<1>7. UserScopesOnly'
  BY ReturnUserScopes DEF LockInv
<1>8. ReservedMapped'
  BY <1>0, <1>2 DEF LockInv, ReservedMapped
<1>9. QED
  BY <1>4, <1>5, <1>6, <1>7, <1>8 DEF LockInv

LEMMA CommitLocks ==
  ASSUME LockInv, TypeOK', NEW p \in Procs,
         AppendItem(p) \/ UpsertByID(p) \/ CounterAdd(p) \/ UpdateItem(p) \/ DeleteItems(p)
  PROVE  LockInv'
<1>1. pc[p] = "commit"
  BY DEF AppendItem, UpsertByID, CounterAdd, UpdateItem, DeleteItems, AtBuffer
<1>2. Committed(p) /\ UNCHANGED <<scopes, holder, plan>>
  BY DEF AppendItem, UpsertByID, CounterAdd, UpdateItem, DeleteItems
<1>3. UNCHANGED detached
  BY DEF AppendItem, UpsertByID, CounterAdd, UpdateItem, DeleteItems,
         InsertNewItemLocked, ReplaceItemLocked, RemoveItemsLocked
<1>4. QED
  BY <1>1, <1>2, <1>3, ReturnStep DEF BulkLabels

LEMMA FailLocks ==
  ASSUME LockInv, TypeOK', NEW p \in Procs, Fail(p)
  PROVE  LockInv'
<1>1. pc[p] = "commit" /\ UNCHANGED <<scopes, detached, holder, plan>>
  BY DEF Fail, bufVars
<1>2. CASE Idle(p)
  BY <1>1, <1>2, ReturnStep DEF BulkLabels
<1>3. CASE created[p] /\ pc' = [pc EXCEPT ![p] = "cleanup"] /\ UNCHANGED <<req, ref, created, load>>
  <2>1. pc'[p] = "cleanup" /\ \A q \in Procs \ {p} : pc'[q] = pc[q] /\ load'[q] = load[q]
    BY <1>3 DEF LockInv, TypeOK, ProcTypeOK
  <2>2. LockDiscipline' /\ \A sh \in Shards : holder[sh] # p
    BY <1>1, <2>1, LockFrame DEF LockInv, BulkLabels
  <2>3. LookupsAreLive'
    BY <1>1, <2>1, <2>2, LiveFrame DEF LockInv
  <2>4. NoOrphanWrites'
    BY <1>1, <1>3, <2>1 DEF LockInv, NoOrphanWrites
  <2>5. UserScopesOnly' /\ ReservedMapped'
    BY <1>1, <1>3, <2>1 DEF LockInv, UserScopesOnly, ReservedMapped
  <2>6. QED
    BY <2>2, <2>3, <2>4, <2>5 DEF LockInv
<1>4. QED
  BY <1>2, <1>3 DEF Fail, RollsBack

LEMMA ScopeOpsLocks ==
  ASSUME LockInv, TypeOK', NEW p \in Procs, Miss(p) \/ Cleanup(p) \/ \E s \in Scopes : DeleteScope(p, s)
  PROVE  LockInv'
<1>1. CASE Miss(p)
  BY <1>1, ReturnStep DEF Miss, BulkLabels, bufVars
<1>2. CASE Cleanup(p)
  <2>1. req[p].scope \in UserScopes /\ ref[p] # NoBuf
    BY <1>2 DEF Cleanup, LockInv, UserScopesOnly, TypeOK, ProcTypeOK
  <2>2. CASE StillUnused(req[p].scope, ref[p])
    BY <1>2, <2>1, <2>2, UnmapStep DEF Cleanup, StillUnused, BulkLabels
  <2>3. CASE ~ StillUnused(req[p].scope, ref[p])
    BY <1>2, <2>3, ReturnStep DEF Cleanup, BulkLabels
  <2>4. QED
    BY <2>2, <2>3
<1>3. ASSUME NEW s \in Scopes, DeleteScope(p, s)
      PROVE  LockInv'
  BY <1>3, UnmapStep DEF DeleteScope, BulkLabels
<1>4. QED
  BY <1>1, <1>2, <1>3

----------------------------------------------------------------------------
(* Lookups *)

LEMMA FreshFacts ==
  ASSUME FreshBufs # {}
  PROVE  /\ NewBuf \in Bufs
         /\ \A s \in Scopes : scopes[s] # NewBuf
         /\ \A q \in Procs : ref[q] # NewBuf
BY NewBufFresh DEF FreshBufs

LEMMA LookupFoundLocks ==
  ASSUME LockInv, TypeOK', NEW p \in Procs, NEW r \in Request, LookupFound(p, r), pc[p] \in {"idle", "emit"}
  PROVE  LockInv'
<1>1. /\ pc'[p] = "commit" /\ req'[p] = r /\ ref'[p] = scopes[r.scope] /\ created'[p] = FALSE
      /\ \A q \in Procs \ {p} : /\ pc'[q] = pc[q] /\ req'[q] = req[q] /\ ref'[q] = ref[q]
                                /\ created'[q] = created[q]
      /\ UNCHANGED <<scopes, detached, holder, plan, load>>
  BY DEF LookupFound, LockInv, TypeOK, ProcTypeOK, bufVars
<1>2. LockDiscipline' /\ \A sh \in Shards : holder[sh] # p
  BY <1>1, LockFrame DEF LockInv, BulkLabels
<1>3. LookupsAreLive'
  BY <1>1, <1>2, LiveFrame DEF LockInv
<1>4. NoOrphanWrites'
  BY <1>1 DEF LockInv, NoOrphanWrites
<1>5. UserScopesOnly' /\ ReservedMapped'
  BY <1>1 DEF LockInv, UserScopesOnly, ReservedMapped
<1>6. QED
  BY <1>2, <1>3, <1>4, <1>5 DEF LockInv

\* A fresh buffer published under a name that had none.
LEMMA PublishLive ==
  ASSUME TypeOK, LookupsAreLive, NEW s \in Scopes, scopes[s] = NoBuf, FreshBufs # {},
         scopes' = [scopes EXCEPT ![s] = NewBuf],
         detached' = [detached EXCEPT ![NewBuf] = FALSE],
         UNCHANGED holder,
         \A q \in Procs : pc[q] \in {"wipe", "rebuild"} => pc'[q] = pc[q]
  PROVE  LookupsAreLive'
<1>1. /\ NewBuf \in Bufs
      /\ \A t \in Scopes : scopes[t] # NewBuf
  BY FreshFacts
<1>2. /\ scopes'[s] = NewBuf /\ detached'[NewBuf] = FALSE
      /\ \A t \in Scopes \ {s} : scopes'[t] = scopes[t]
      /\ \A b \in Bufs \ {NewBuf} : detached'[b] = detached[b]
  BY <1>1 DEF TypeOK, HeapTypeOK
<1>3. \A t \in Mapped' : t \in Scopes /\ (t = s \/ (t \in Mapped /\ scopes'[t] = scopes[t]))
  BY <1>2 DEF Mapped
<1>4. \A t, u \in Mapped' : scopes'[t] = scopes'[u] => t = u
  BY <1>1, <1>2, <1>3 DEF LookupsAreLive
<1>5. ASSUME NEW t \in Mapped', detached'[scopes'[t]]
      PROVE  (~ ShardFree(t) /\ pc[holder[ShardOf[t]]] \in {"wipe", "rebuild"})'
  <2>1. t # s /\ t \in Mapped /\ scopes'[t] = scopes[t]
    BY <1>2, <1>3, <1>5
  <2>2. scopes[t] \in Bufs \ {NewBuf}
    BY <1>1, <2>1 DEF Mapped, TypeOK, HeapTypeOK
  <2>3. ~ ShardFree(t) /\ pc[holder[ShardOf[t]]] \in {"wipe", "rebuild"}
    BY <1>2, <1>5, <2>1, <2>2 DEF LookupsAreLive
  <2>4. holder[ShardOf[t]] \in Procs
    BY <1>3, <2>3 DEF ShardFree, TypeOK, LockTypeOK
  <2>5. QED
    BY <2>3, <2>4 DEF ShardFree
<1>6. QED
  BY <1>4, <1>5 DEF LookupsAreLive

LEMMA LookupCreatedLocks ==
  ASSUME LockInv, TypeOK', NEW p \in Procs, NEW r \in Request, LookupCreated(p, r), pc[p] = "idle"
  PROVE  LockInv'
<1>0. r.scope \in Scopes /\ scopes[r.scope] = NoBuf /\ FreshBufs # {}
  BY DEF LookupCreated, Found, Request
<1>1. /\ pc'[p] = "commit" /\ req'[p] = r /\ ref'[p] = NewBuf /\ created'[p] = TRUE
      /\ \A q \in Procs \ {p} : /\ pc'[q] = pc[q] /\ req'[q] = req[q] /\ ref'[q] = ref[q]
                                /\ created'[q] = created[q]
      /\ UNCHANGED <<holder, plan, load>>
  BY DEF LookupCreated, LockInv, TypeOK, ProcTypeOK
<1>2. /\ NewBuf \in Bufs /\ NewBuf # NoBuf
      /\ \A s \in Scopes : scopes[s] # NewBuf
      /\ \A q \in Procs : ref[q] # NewBuf
  BY <1>0, FreshFacts, NewBufFresh
<1>3. /\ scopes' = [scopes EXCEPT ![r.scope] = NewBuf]
      /\ detached' = [detached EXCEPT ![NewBuf] = FALSE]
  BY DEF LookupCreated
<1>4. /\ scopes'[r.scope] = NewBuf
      /\ \A s \in Scopes \ {r.scope} : scopes'[s] = scopes[s]
      /\ \A b \in Bufs \ {NewBuf} : detached'[b] = detached[b]
  BY <1>0, <1>2, <1>3 DEF LockInv, TypeOK, HeapTypeOK
<1>5. \A s \in Scopes : plan[s].new => scopes'[s] = scopes[s]
  BY <1>0, <1>4 DEF LockInv, LockDiscipline
<1>6. LockDiscipline'
  BY <1>1, <1>5, LockFrame DEF LockInv, BulkLabels
<1>7. LookupsAreLive'
  BY <1>0, <1>1, <1>3, PublishLive DEF LockInv
<1>8. NoOrphanWrites'
  <2>1. ASSUME NEW q \in Procs \ {p}, pc'[q] \in {"commit", "cleanup"}, ~ detached'[ref'[q]]
        PROVE  scopes'[req'[q].scope] = ref'[q]
    <3>1. ref[q] \in Bufs \ {NewBuf} /\ req[q].scope \in Scopes
      BY <1>1, <1>2, <2>1 DEF LockInv, TypeOK, ProcTypeOK, Request
    <3>2. scopes[req[q].scope] = ref[q]
      BY <1>1, <1>4, <2>1, <3>1 DEF LockInv, NoOrphanWrites
    <3>3. QED
      BY <1>0, <1>1, <1>4, <3>1, <3>2
  <2>2. QED
    BY <1>1, <1>4, <2>1 DEF NoOrphanWrites
<1>9. UserScopesOnly' /\ ReservedMapped'
  <2>1. r.scope \in UserScopes
    BY <1>0 DEF LockInv, ReservedMapped, UserScopes
  <2>2. UserScopesOnly'
    BY <1>1, <2>1 DEF LockInv, UserScopesOnly
  <2>3. \A s \in Reserved : s \in Scopes \ {r.scope}
    BY <2>1 DEF UserScopes
  <2>4. ReservedMapped'
    BY <1>4, <2>3 DEF LockInv, ReservedMapped
  <2>5. QED
    BY <2>2, <2>4
<1>10. QED
  BY <1>6, <1>7, <1>8, <1>9 DEF LockInv

LEMMA BeginLocks ==
  ASSUME LockInv, TypeOK', NEW p \in Procs, Begin(p) \/ Emit(p)
  PROVE  LockInv'
<1>1. CASE Begin(p)
  BY <1>1, LookupFoundLocks, LookupCreatedLocks DEF Begin, Requests
<1>2. CASE Emit(p)
  BY <1>2, LookupFoundLocks, NoRequestType DEF Emit
<1>3. QED
  BY <1>1, <1>2

----------------------------------------------------------------------------
(* /wipe and /rebuild *)

\* Every shard has an owner in the map of the scopes, so there is a shard.
LEMMA SomeShard == ShardOf[EventsScope] \in Shards
OBVIOUS

LEMMA DetachBufferLocks ==
  ASSUME LockInv, TypeOK', NEW p \in Procs, NEW s \in Scopes, DetachBuffer(p, s)
  PROVE  LockInv'
<1>1. /\ \A sh \in Shards : holder[sh] = p
      /\ pc[p] \in {"wipe", "rebuild"}
      /\ UNCHANGED <<scopes, holder, plan, pc, req, ref, created, load>>
  BY DEF DetachBuffer, LockInv, LockDiscipline, procVars
<1>2. LockDiscipline'
  BY <1>1 DEF LockInv, LockDiscipline, PlanScopes, WarmScopes, ShardFree
<1>3. \A b \in Bufs : detached[b] => detached'[b]
  BY DEF DetachBuffer, Detach, LockInv, TypeOK, HeapTypeOK
<1>4. LookupsAreLive'
  <2>1. \A t \in Scopes : (~ ShardFree(t) /\ pc[holder[ShardOf[t]]] \in {"wipe", "rebuild"})'
    BY <1>1 DEF ShardFree
  <2>2. QED
    BY <1>1, <2>1 DEF LockInv, LookupsAreLive, Mapped
<1>5. NoOrphanWrites'
  BY <1>1, <1>3 DEF LockInv, NoOrphanWrites, TypeOK, ProcTypeOK
<1>6. UserScopesOnly' /\ ReservedMapped'
  BY <1>1 DEF LockInv, UserScopesOnly, ReservedMapped
<1>7. QED
  BY <1>2, <1>4, <1>5, <1>6 DEF LockInv

\* While every lock is free, or held by one /wipe or /rebuild, nobody else is
\* in a bulk operation that matters and no plan is written down.
LEMMA SoleBulk ==
  ASSUME LockInv, NEW p \in Procs \cup {NoProc}, \A sh \in Shards : holder[sh] = p,
         p \in Procs => pc[p] \in {"wipe", "rebuild"}
  PROVE  /\ \A q \in Procs \ {p} : pc[q] \notin {"wipe", "rebuild"}
         /\ \A q \in Procs \ {p} : pc[q] = "warm" => PlanScopes(q) = {}
         /\ \A s \in Scopes : plan[s].phase = "none" /\ ~ plan[s].new
<1>1. \A q \in Procs \ {p} : pc[q] \notin {"wipe", "rebuild"}
  BY SomeShard DEF LockInv, LockDiscipline
<1>2. ASSUME NEW q \in Procs \ {p}, pc[q] = "warm", NEW s \in PlanScopes(q)
      PROVE  FALSE
  BY <1>2 DEF LockInv, LockDiscipline, PlanScopes, WarmScopes
<1>3. ASSUME NEW s \in Scopes
      PROVE  plan[s].phase = "none" /\ ~ plan[s].new
  <2>1. holder[ShardOf[s]] = p
    OBVIOUS
  <2>2. plan[s].phase = "none"
    BY <2>1 DEF LockInv, LockDiscipline, ShardFree
  <2>3. QED
    BY <2>2 DEF LockInv, LockDiscipline
<1>4. QED
  BY <1>1, <1>2, <1>3

LEMMA LockAllLocks ==
  ASSUME LockInv, TypeOK', NEW p \in Procs, NEW label \in {"wipe", "rebuild"}, LockAll(p, label),
         \A q \in Procs \ {p} : load'[q] = load[q],
         \A s \in Reserved : load'[p][s] = NoBatch
  PROVE  LockInv'
<1>1. /\ \A sh \in Shards : holder[sh] = NoProc /\ holder'[sh] = p
      /\ pc[p] = "idle" /\ pc'[p] = label
      /\ \A q \in Procs \ {p} : pc'[q] = pc[q]
      /\ UNCHANGED <<scopes, detached, req, ref, created, plan>>
  BY DEF LockAll, AllShards, LockInv, TypeOK, ProcTypeOK, bufVars
<1>2. /\ \A q \in Procs : pc[q] \notin {"wipe", "rebuild"}
      /\ \A q \in Procs : pc[q] = "warm" => PlanScopes(q) = {}
      /\ \A s \in Scopes : plan[s].phase = "none" /\ ~ plan[s].new
  BY <1>1, SoleBulk
<1>3. \A q \in Procs : pc'[q] = "warm" => PlanScopes(q)' = {}
  BY <1>1, <1>2 DEF PlanScopes, WarmScopes
<1>4. LockDiscipline'
  BY <1>1, <1>2, <1>3 DEF LockDiscipline
<1>5. LookupsAreLive'
  <2>1. \A s \in Mapped : ~ detached[scopes[s]]
    BY <1>1 DEF LockInv, LookupsAreLive, ShardFree, Mapped
  <2>2. QED
    BY <1>1, <2>1 DEF LockInv, LookupsAreLive, Mapped
<1>6. NoOrphanWrites'
  BY <1>1 DEF LockInv, NoOrphanWrites
<1>7. UserScopesOnly' /\ ReservedMapped'
  BY <1>1 DEF LockInv, UserScopesOnly, ReservedMapped
<1>8. QED
  BY <1>4, <1>5, <1>6, <1>7 DEF LockInv

LEMMA WipeRebuildLocks ==
  ASSUME LockInv, TypeOK', NEW p \in Procs, WipeLock(p) \/ \E ld \in Loads : RebuildLock(p, ld)
  PROVE  LockInv'
<1>1. CASE WipeLock(p)
  BY <1>1, LockAllLocks DEF WipeLock, LockInv, UserScopesOnly
<1>2. ASSUME NEW ld \in Loads, RebuildLock(p, ld)
      PROVE  LockInv'
  <2>1. load'[p] = ld /\ \A q \in Procs \ {p} : load'[q] = load[q]
    BY <1>2 DEF RebuildLock, LockInv, TypeOK, ProcTypeOK
  <2>2. \A s \in Reserved : load'[p][s] = NoBatch
    BY <2>1, LoadFacts
  <2>3. LockAll(p, "rebuild")
    BY <1>2 DEF RebuildLock
  <2>4. QED
    BY <2>1, <2>2, <2>3, LockAllLocks
<1>3. QED
  BY <1>1, <1>2

LEMMA SwapLocks ==
  ASSUME LockInv, TypeOK', NEW p \in Procs, pc[p] \in {"wipe", "rebuild"},
         NEW ld \in [Scopes -> Batches \cup {NoBatch}], Swap(p, ld)
  PROVE  LockInv'
<1> DEFINE f == SwapBufs(ld)
           kept == KeptScopes(ld)
<1>1. /\ kept \subseteq Scopes
      /\ f \in [kept -> FreshBufs] /\ IsInjective(f)
      /\ scopes' = [s \in Scopes |-> IF s \in kept THEN f[s] ELSE NoBuf]
      /\ \A s \in kept : detached'[f[s]] = FALSE
      /\ \A b \in Bufs : (\A s \in kept : f[s] # b) => detached'[b] = detached[b]
  BY SwapEffect DEF LockInv
<1>2. Reserved \subseteq kept
  BY DEF KeptScopes
<1> HIDE DEF f, kept
<1>3. AllDetached /\ holder' = [sh \in Shards |-> NoProc] /\ Idle(p) /\ UNCHANGED plan
  BY DEF Swap
<1>4. /\ pc'[p] \in {"idle", "emit"}
      /\ \A q \in Procs \ {p} : /\ pc'[q] = pc[q] /\ req'[q] = req[q] /\ ref'[q] = ref[q]
                                /\ created'[q] = created[q] /\ load'[q] = load[q]
  BY <1>3, ReturnFacts DEF LockInv
<1>5. /\ \A q \in Procs \ {p} : pc[q] \notin {"wipe", "rebuild"}
      /\ \A q \in Procs \ {p} : pc[q] = "warm" => PlanScopes(q) = {}
      /\ \A s \in Scopes : plan[s].phase = "none" /\ ~ plan[s].new
  BY SoleBulk DEF LockInv, LockDiscipline
<1>6. \A q \in Procs : pc'[q] = "warm" => PlanScopes(q)' = {}
  BY <1>4, <1>5 DEF PlanScopes, WarmScopes
<1>7. LockDiscipline'
  BY <1>3, <1>4, <1>5, <1>6 DEF LockDiscipline
<1>8. \A s \in kept : f[s] \in FreshBufs /\ f[s] \in Bufs /\ scopes'[s] = f[s]
  BY <1>1 DEF FreshBufs
<1>9. \A s \in Mapped' : s \in kept
  BY <1>1 DEF Mapped
<1>10. LookupsAreLive'
  BY <1>1, <1>8, <1>9 DEF LookupsAreLive, IsInjective
<1>11. NoOrphanWrites'
  <2>1. ASSUME NEW q \in Procs, pc'[q] \in {"commit", "cleanup"}, ~ detached'[ref'[q]]
        PROVE  FALSE
    <3>1. q # p /\ pc[q] \in {"commit", "cleanup"} /\ ref'[q] = ref[q]
      BY <1>4, <2>1
    <3>2. ref[q] \in Bufs /\ req[q].scope \in Scopes
      BY <3>1 DEF LockInv, TypeOK, ProcTypeOK, Request
    <3>3. \A s \in kept : f[s] # ref[q]
      BY <1>8 DEF FreshBufs
    <3>4. ~ detached[ref[q]]
      BY <1>1, <2>1, <3>1, <3>2, <3>3
    <3>5. scopes[req[q].scope] = ref[q]
      BY <3>1, <3>4 DEF LockInv, NoOrphanWrites
    <3>6. req[q].scope \in Mapped
      BY <3>2, <3>5 DEF Mapped
    <3>7. QED
      BY <1>3, <3>4, <3>5, <3>6 DEF AllDetached
  <2>2. QED
    BY <2>1 DEF NoOrphanWrites
<1>12. UserScopesOnly'
  BY <1>3, ReturnUserScopes DEF LockInv
<1>13. ReservedMapped'
  BY <1>2, <1>8 DEF ReservedMapped
<1>14. QED
  BY <1>7, <1>10, <1>11, <1>12, <1>13 DEF LockInv

----------------------------------------------------------------------------
(* /warm *)

LEMMA WarmLockLocks ==
  ASSUME LockInv, TypeOK', NEW p \in Procs, NEW ld \in Loads, WarmLock(p, ld)
  PROVE  LockInv'
<1>1. /\ pc[p] = "idle" /\ pc'[p] = "warm" /\ load'[p] = ld
      /\ \A q \in Procs \ {p} : pc'[q] = pc[q] /\ load'[q] = load[q]
      /\ UNCHANGED <<scopes, detached, req, ref, created>>
  BY DEF WarmLock, LockInv, TypeOK, ProcTypeOK, bufVars
<1> DEFINE taken(sh) == \E s \in WarmScopes(ld) : ShardOf[s] = sh
<1>2. /\ \A sh \in Shards : taken(sh) => holder[sh] = NoProc /\ holder'[sh] = p
      /\ \A sh \in Shards : ~ taken(sh) => holder'[sh] = holder[sh]
  BY DEF WarmLock, ShardFree
<1>3. \A s \in WarmScopes(ld) : s \in Scopes /\ taken(ShardOf[s])
  BY DEF WarmScopes
<1>4. \E sh \in Shards : taken(sh)
  BY <1>3 DEF WarmLock
<1> HIDE DEF taken
<1>5. \A sh \in Shards : holder[sh] # p
  BY <1>1 DEF LockInv, LockDiscipline, TypeOK, LockTypeOK
<1>6. \A sh \in Shards : holder'[sh] # NoProc => pc'[holder'[sh]] \in BulkLabels
  BY <1>1, <1>2, <1>5, SMTT(40) DEF LockInv, LockDiscipline, TypeOK, LockTypeOK, BulkLabels
<1>7. \A q \in Procs : pc'[q] \notin {"wipe", "rebuild"}
  BY <1>1, <1>2, <1>4 DEF LockInv, LockDiscipline
<1>8. PlanScopes(p)' = WarmScopes(ld) /\ \A q \in Procs \ {p} : PlanScopes(q)' = PlanScopes(q)
  BY <1>1 DEF PlanScopes, WarmScopes
<1>9. ASSUME NEW q \in Procs, pc'[q] = "warm", NEW s \in PlanScopes(q)'
      PROVE  holder'[ShardOf[s]] = q
  <2>1. CASE q = p
    BY <1>2, <1>3, <1>8, <1>9, <2>1
  <2>2. CASE q # p
    <3>1. s \in Scopes /\ holder[ShardOf[s]] = q
      BY <1>1, <1>8, <1>9, <2>2 DEF LockInv, LockDiscipline, PlanScopes, WarmScopes
    <3>2. QED
      BY <1>2, <3>1
  <2>3. QED
    BY <2>1, <2>2
<1>10. ASSUME NEW s \in Scopes, plan'[s].phase # "none"
       PROVE  (~ ShardFree(s) /\ pc[holder[ShardOf[s]]] = "warm" /\ s \in PlanScopes(holder[ShardOf[s]]))'
  <2>1. CASE s \in WarmScopes(ld)
    BY <1>1, <1>2, <1>3, <1>8, <2>1 DEF ShardFree
  <2>2. CASE s \notin WarmScopes(ld)
    <3>1. plan'[s] = plan[s]
      BY <2>2 DEF WarmLock
    <3>2. ~ ShardFree(s) /\ pc[holder[ShardOf[s]]] = "warm" /\ s \in PlanScopes(holder[ShardOf[s]])
      BY <1>10, <3>1 DEF LockInv, LockDiscipline
    <3>3. holder[ShardOf[s]] \in Procs \ {p} /\ holder'[ShardOf[s]] = holder[ShardOf[s]]
      BY <1>2, <1>5, <3>2 DEF ShardFree, LockInv, TypeOK, LockTypeOK
    <3>4. QED
      BY <1>1, <1>8, <3>2, <3>3 DEF ShardFree
  <2>3. QED
    BY <2>1, <2>2
<1>11. ASSUME NEW s \in Scopes, plan'[s].new
       PROVE  plan'[s].phase = "done" /\ scopes'[s] # NoBuf
  <2>1. [NoPlan EXCEPT !.phase = "todo"].new = FALSE
    BY DEF NoPlan
  <2>2. plan'[s] = plan[s]
    BY <1>11, <2>1 DEF WarmLock
  <2>3. QED
    BY <1>1, <1>11, <2>2 DEF LockInv, LockDiscipline
<1>12. LockDiscipline'
  BY <1>6, <1>7, <1>9, <1>10, <1>11 DEF LockDiscipline, BulkLabels
<1>13. LookupsAreLive'
  <2>1. \A s \in Mapped : ~ detached[scopes[s]]
    <3>1. \A q \in Procs : pc[q] \notin {"wipe", "rebuild"}
      BY <1>1, <1>7
    <3>2. QED
      BY <3>1 DEF LockInv, LookupsAreLive, Mapped, ShardFree, TypeOK, LockTypeOK
  <2>2. QED
    BY <1>1, <2>1 DEF LockInv, LookupsAreLive, Mapped
<1>14. NoOrphanWrites'
  BY <1>1 DEF LockInv, NoOrphanWrites
<1>15. UserScopesOnly' /\ ReservedMapped'
  BY <1>1, LoadFacts DEF LockInv, UserScopesOnly, ReservedMapped
<1>16. QED
  BY <1>12, <1>13, <1>14, <1>15 DEF LockInv

\* A step of a /warm that keeps its locks and moves plans forward.
LEMMA PlanStep ==
  ASSUME LockInv, UNCHANGED <<holder, procVars>>,
         \A s \in Scopes : plan'[s].phase # "none" => plan[s].phase # "none",
         \A s \in Scopes : plan'[s].new => plan'[s].phase = "done" /\ scopes'[s] # NoBuf
  PROVE  LockDiscipline' /\ UserScopesOnly'
<1>1. UNCHANGED <<pc, req, ref, created, load>>
  BY DEF procVars
<1>2. \A q \in Procs : PlanScopes(q)' = PlanScopes(q)
  BY <1>1 DEF PlanScopes, WarmScopes
<1>3. ASSUME NEW s \in Scopes, plan'[s].phase # "none"
      PROVE  (~ ShardFree(s) /\ pc[holder[ShardOf[s]]] = "warm" /\ s \in PlanScopes(holder[ShardOf[s]]))'
  <2>1. ~ ShardFree(s) /\ pc[holder[ShardOf[s]]] = "warm" /\ s \in PlanScopes(holder[ShardOf[s]])
    BY <1>3 DEF LockInv, LockDiscipline
  <2>2. QED
    BY <1>1, <1>2, <2>1 DEF ShardFree, PlanScopes, WarmScopes
<1>4. LockDiscipline'
  BY <1>1, <1>2, <1>3 DEF LockInv, LockDiscipline
<1>5. UserScopesOnly'
  BY <1>1 DEF LockInv, UserScopesOnly
<1>6. QED
  BY <1>4, <1>5

\* Such a step that creates no scope.
LEMMA PlanStepInPlace ==
  ASSUME LockInv, TypeOK', UNCHANGED <<scopes, detached, holder, procVars>>,
         \A s \in Scopes : plan'[s].phase # "none" => plan[s].phase # "none",
         \A s \in Scopes : plan'[s].new => plan'[s].phase = "done" /\ scopes[s] # NoBuf
  PROVE  LockInv'
<1>1. LockDiscipline' /\ UserScopesOnly'
  BY PlanStep
<1>2. LookupsAreLive' /\ NoOrphanWrites' /\ ReservedMapped'
  BY DEF procVars, LockInv, LookupsAreLive, NoOrphanWrites, ReservedMapped, Mapped, ShardFree
<1>3. QED
  BY <1>1, <1>2 DEF LockInv

\* What one field of a plan becomes.
LEMMA PlanFields ==
  ASSUME NEW pl \in Plan
  PROVE  /\ [pl EXCEPT !.phase = "reserved"].new = pl.new
         /\ [pl EXCEPT !.phase = "done"].new = pl.new
         /\ [pl EXCEPT !.phase = "done"].phase = "done"
         /\ [pl EXCEPT !.phase = "done", !.new = TRUE].phase = "done"
BY DEF Plan

LEMMA WarmPlanLocks ==
  ASSUME LockInv, TypeOK', NEW p \in Procs,
         \/ \E s \in Scopes : WarmSnapshot(p, s) \/ WarmCommit(p, s)
         \/ WarmReserve(p)
  PROVE  LockInv'
<1>0. plan \in [Scopes -> Plan]
  BY DEF LockInv, TypeOK, LockTypeOK
<1>1. ASSUME NEW s \in Scopes, WarmSnapshot(p, s)
      PROVE  LockInv'
  <2> DEFINE pl == [phase |-> "snap", old |-> IF scopes[s] = NoBuf THEN 0 ELSE bytes[scopes[s]], new |-> FALSE]
  <2>1. plan[s].phase = "todo" /\ plan' = [plan EXCEPT ![s] = pl] /\ UNCHANGED <<scopes, detached, holder, procVars>>
    BY <1>1 DEF WarmSnapshot, bufVars
  <2>2. pl.new = FALSE
    OBVIOUS
  <2> HIDE DEF pl
  <2>3. plan'[s] = pl /\ \A t \in Scopes \ {s} : plan'[t] = plan[t]
    BY <1>0, <2>1
  <2>4. QED
    BY <2>1, <2>2, <2>3, PlanStepInPlace DEF LockInv, LockDiscipline
<1>2. ASSUME NEW s \in Scopes, WarmCommit(p, s)
      PROVE  LockInv'
  <2>1. plan[s].phase = "reserved" /\ scopes[s] # NoBuf /\ UNCHANGED <<scopes, detached, holder, procVars>>
    BY <1>2 DEF WarmCommit
  <2>2. plan'[s].phase = "done" /\ \A t \in Scopes \ {s} : plan'[t] = plan[t]
    BY <1>0, <1>2, PlanFields DEF WarmCommit
  <2>3. QED
    BY <2>1, <2>2, PlanStepInPlace DEF LockInv, LockDiscipline
<1>3. CASE WarmReserve(p)
  <2>1. UNCHANGED <<scopes, detached, holder, procVars>>
    BY <1>3 DEF WarmReserve, bufVars
  <2>2. ASSUME NEW s \in Scopes
        PROVE  /\ plan'[s].phase # "none" => plan[s].phase # "none"
               /\ ~ plan'[s].new \/ plan'[s] = plan[s]
    <3>1. CASE s \in PlanScopes(p)
      <4>1. plan[s].phase = "snap" /\ plan'[s] = [plan[s] EXCEPT !.phase = "reserved"]
        BY <1>3, <3>1 DEF WarmReserve
      <4>2. ~ plan[s].new
        BY <4>1 DEF LockInv, LockDiscipline
      <4>3. QED
        BY <1>0, <4>1, <4>2, PlanFields
    <3>2. CASE s \notin PlanScopes(p)
      BY <1>3, <3>2 DEF WarmReserve
    <3>3. QED
      BY <3>1, <3>2
  <2>3. QED
    BY <2>1, <2>2, PlanStepInPlace DEF LockInv, LockDiscipline
<1>4. QED
  BY <1>1, <1>2, <1>3

LEMMA WarmCreateLocks ==
  ASSUME LockInv, TypeOK', NEW p \in Procs, NEW s \in Scopes, WarmCreate(p, s)
  PROVE  LockInv'
<1>1. /\ plan[s].phase = "reserved" /\ scopes[s] = NoBuf /\ FreshBufs # {}
      /\ scopes' = [scopes EXCEPT ![s] = NewBuf]
      /\ detached' = [detached EXCEPT ![NewBuf] = FALSE]
      /\ UNCHANGED <<holder, procVars>>
  BY DEF WarmCreate
<1>2. /\ NewBuf \in Bufs /\ NewBuf # NoBuf
      /\ \A q \in Procs : ref[q] # NewBuf
  BY <1>1, FreshFacts, NewBufFresh
<1>3. /\ scopes'[s] = NewBuf
      /\ \A t \in Scopes \ {s} : scopes'[t] = scopes[t]
      /\ \A b \in Bufs \ {NewBuf} : detached'[b] = detached[b]
  BY <1>1, <1>2 DEF LockInv, TypeOK, HeapTypeOK
<1>4. plan'[s].phase = "done" /\ \A t \in Scopes \ {s} : plan'[t] = plan[t]
  BY PlanFields DEF WarmCreate, LockInv, TypeOK, LockTypeOK
<1>5. LockDiscipline' /\ UserScopesOnly'
  BY <1>1, <1>2, <1>3, <1>4, PlanStep DEF LockInv, LockDiscipline
<1>6. LookupsAreLive'
  BY <1>1, PublishLive DEF LockInv, procVars
<1>7. NoOrphanWrites'
  <2>1. ASSUME NEW q \in Procs, pc[q] \in {"commit", "cleanup"}, ~ detached'[ref[q]]
        PROVE  scopes'[req[q].scope] = ref[q]
    <3>1. ref[q] \in Bufs \ {NewBuf} /\ req[q].scope \in Scopes
      BY <1>2, <2>1 DEF LockInv, TypeOK, ProcTypeOK, Request
    <3>2. scopes[req[q].scope] = ref[q]
      BY <1>3, <2>1, <3>1 DEF LockInv, NoOrphanWrites
    <3>3. QED
      BY <1>1, <1>3, <3>1, <3>2
  <2>2. QED
    BY <1>1, <2>1 DEF NoOrphanWrites, procVars
<1>8. ReservedMapped'
  BY <1>2, <1>3 DEF LockInv, ReservedMapped
<1>9. QED
  BY <1>5, <1>6, <1>7, <1>8 DEF LockInv

LEMMA WarmReturnLocks ==
  ASSUME LockInv, TypeOK', NEW p \in Procs, WarmRefused(p) \/ WarmFinish(p)
  PROVE  LockInv'
<1>1. /\ pc[p] = "warm" /\ Unlock(p) /\ ClearPlans(p) /\ (Idle(p) \/ Committed(p))
      /\ UNCHANGED <<scopes, detached>>
  BY DEF WarmRefused, WarmFinish, bufVars
<1>2. /\ pc'[p] \in {"idle", "emit"}
      /\ \A q \in Procs \ {p} : /\ pc'[q] = pc[q] /\ req'[q] = req[q] /\ ref'[q] = ref[q]
                                /\ created'[q] = created[q] /\ load'[q] = load[q]
  BY <1>1, ReturnFacts DEF LockInv
<1>3. \A sh \in Shards : /\ holder[sh] = p => holder'[sh] = NoProc
                         /\ holder[sh] # p => holder'[sh] = holder[sh]
  BY <1>1 DEF Unlock
<1>4. \A s \in Scopes : /\ s \in PlanScopes(p) => plan'[s] = NoPlan
                        /\ s \notin PlanScopes(p) => plan'[s] = plan[s]
  BY <1>1 DEF ClearPlans
<1>5. NoPlan.phase = "none" /\ NoPlan.new = FALSE
  BY DEF NoPlan
<1>6. \A q \in Procs \ {p} : PlanScopes(q)' = PlanScopes(q)
  BY <1>2 DEF PlanScopes, WarmScopes
<1>7. \A sh \in Shards : holder'[sh] # NoProc => pc'[holder'[sh]] \in BulkLabels
  BY <1>2, <1>3 DEF LockInv, LockDiscipline, TypeOK, LockTypeOK, BulkLabels
<1>8. \A q \in Procs : pc'[q] \in {"wipe", "rebuild"} => \A sh \in Shards : holder'[sh] = q
  BY <1>2, <1>3 DEF LockInv, LockDiscipline
<1>9. ASSUME NEW q \in Procs, pc'[q] = "warm", NEW s \in PlanScopes(q)'
      PROVE  holder'[ShardOf[s]] = q
  <2>1. q # p /\ pc[q] = "warm" /\ s \in PlanScopes(q)
    BY <1>2, <1>6, <1>9
  <2>2. s \in Scopes /\ holder[ShardOf[s]] = q
    BY <2>1 DEF LockInv, LockDiscipline, PlanScopes, WarmScopes
  <2>3. QED
    BY <1>3, <2>1, <2>2
<1>10. ASSUME NEW s \in Scopes, plan'[s].phase # "none"
       PROVE  (~ ShardFree(s) /\ pc[holder[ShardOf[s]]] = "warm" /\ s \in PlanScopes(holder[ShardOf[s]]))'
  <2>1. s \notin PlanScopes(p) /\ plan[s].phase # "none"
    BY <1>4, <1>5, <1>10
  <2>2. ~ ShardFree(s) /\ pc[holder[ShardOf[s]]] = "warm" /\ s \in PlanScopes(holder[ShardOf[s]])
    BY <2>1 DEF LockInv, LockDiscipline
  <2>3. holder[ShardOf[s]] \in Procs \ {p} /\ holder'[ShardOf[s]] = holder[ShardOf[s]]
    BY <1>3, <2>1, <2>2 DEF ShardFree, LockInv, TypeOK, LockTypeOK
  <2>4. QED
    BY <1>2, <1>6, <2>2, <2>3 DEF ShardFree
<1>11. \A s \in Scopes : plan'[s].new => plan'[s].phase = "done" /\ scopes'[s] # NoBuf
  BY <1>1, <1>4, <1>5 DEF LockInv, LockDiscipline
<1>12. LockDiscipline'
  BY <1>7, <1>8, <1>9, <1>10, <1>11 DEF LockDiscipline, BulkLabels
<1>13. LookupsAreLive'
  <2>1. ASSUME NEW s \in Mapped, detached[scopes[s]]
        PROVE  (~ ShardFree(s) /\ pc[holder[ShardOf[s]]] \in {"wipe", "rebuild"})'
    <3>1. s \in Scopes /\ ~ ShardFree(s) /\ pc[holder[ShardOf[s]]] \in {"wipe", "rebuild"}
      BY <2>1 DEF LockInv, LookupsAreLive, Mapped
    <3>2. holder[ShardOf[s]] \in Procs \ {p} /\ holder'[ShardOf[s]] = holder[ShardOf[s]]
      BY <1>1, <1>3, <3>1 DEF ShardFree, LockInv, TypeOK, LockTypeOK
    <3>3. QED
      BY <1>2, <3>1, <3>2 DEF ShardFree
  <2>2. QED
    BY <1>1, <2>1 DEF LockInv, LookupsAreLive, Mapped
<1>14. NoOrphanWrites'
  BY <1>1, <1>2 DEF LockInv, NoOrphanWrites
<1>15. UserScopesOnly' /\ ReservedMapped'
  BY <1>1, ReturnUserScopes DEF LockInv, ReservedMapped
<1>16. QED
  BY <1>12, <1>13, <1>14, <1>15 DEF LockInv

----------------------------------------------------------------------------
(* The invariant *)

LEMMA InitLock == Init => LockInv
<1> SUFFICES ASSUME Init PROVE LockInv
  OBVIOUS
<1>1. TypeOK
  BY InitType
<1>2. PICK f \in [Reserved -> Bufs] : /\ IsInjective(f)
                                      /\ scopes = [s \in Scopes |-> IF s \in Reserved THEN f[s] ELSE NoBuf]
  BY HeapRoom DEF Init, ExistsInjection, Injection
<1>3. LockDiscipline
  BY DEF Init, LockDiscipline, NoPlan
<1>4. LookupsAreLive
  <2>1. \A s \in Mapped : s \in Reserved /\ scopes[s] = f[s] /\ f[s] \in Bufs
    BY <1>2 DEF Mapped
  <2>2. QED
    BY <1>2, <2>1 DEF Init, LookupsAreLive, IsInjective
<1>5. NoOrphanWrites /\ UserScopesOnly
  BY DEF Init, NoOrphanWrites, UserScopesOnly, NoLoad
<1>6. ReservedMapped
  BY <1>2 DEF ReservedMapped
<1>7. QED
  BY <1>1, <1>3, <1>4, <1>5, <1>6 DEF LockInv

LEMMA StutterLock ==
  ASSUME LockInv, UNCHANGED vars
  PROVE  LockInv'
<1>1. UNCHANGED <<scopes, holder, items, bytes, lastSeq, detached, pc, req, ref, created, load, plan>>
  BY DEF vars, bufVars, procVars
<1>2. TypeOK'
  BY StutterType DEF LockInv
<1>3. LockDiscipline'
  BY <1>1 DEF LockInv, LockDiscipline, PlanScopes, WarmScopes, ShardFree
<1>4. LookupsAreLive' /\ NoOrphanWrites' /\ UserScopesOnly' /\ ReservedMapped'
  BY <1>1 DEF LockInv, LookupsAreLive, NoOrphanWrites, UserScopesOnly, ReservedMapped, Mapped, ShardFree
<1>5. QED
  BY <1>2, <1>3, <1>4 DEF LockInv

LEMMA NextLock ==
  ASSUME LockInv, [Next]_vars
  PROVE  LockInv'
<1>0. TypeOK'
  BY NextType DEF LockInv
<1>1. CASE UNCHANGED vars
  BY <1>1, StutterLock
<1>2. ASSUME NEW p \in Procs, Accept(p)
      PROVE  LockInv'
  BY <1>0, <1>2, BeginLocks, ScopeOpsLocks, WipeRebuildLocks, WarmLockLocks DEF Accept
<1>3. ASSUME NEW p \in Procs, Proceed(p)
      PROVE  LockInv'
  <2>1. CASE WipeSwap(p)
    <3>1. NoLoad \in [Scopes -> Batches \cup {NoBatch}]
      BY NoRequestType
    <3>2. QED
      BY <1>0, <2>1, <3>1, SwapLocks DEF WipeSwap
  <2>2. CASE RebuildSwap(p)
    <3>1. load[p] \in [Scopes -> Batches \cup {NoBatch}]
      BY DEF LockInv, TypeOK, ProcTypeOK
    <3>2. QED
      BY <1>0, <2>2, <3>1, SwapLocks DEF RebuildSwap
  <2>3. CASE Emit(p) \/ Miss(p) \/ Fail(p) \/ Cleanup(p)
    BY <1>0, <2>3, BeginLocks, ScopeOpsLocks, FailLocks
  <2>4. CASE AppendItem(p) \/ UpsertByID(p) \/ CounterAdd(p) \/ UpdateItem(p) \/ DeleteItems(p)
    BY <1>0, <2>4, CommitLocks
  <2>5. ASSUME NEW s \in Scopes, DetachBuffer(p, s) \/ WarmCreate(p, s)
        PROVE  LockInv'
    BY <1>0, <2>5, DetachBufferLocks, WarmCreateLocks
  <2>6. ASSUME NEW s \in Scopes, WarmSnapshot(p, s) \/ WarmCommit(p, s)
        PROVE  LockInv'
    BY <1>0, <2>6, WarmPlanLocks
  <2>7. CASE WarmReserve(p) \/ WarmRefused(p) \/ WarmFinish(p)
    BY <1>0, <2>7, WarmPlanLocks, WarmReturnLocks
  <2>8. QED
    BY <1>3, <2>1, <2>2, <2>3, <2>4, <2>5, <2>6, <2>7 DEF Proceed
<1>4. QED
  BY <1>1, <1>2, <1>3 DEF Next

\* The locks, the pointers and the detach flags stay consistent.
THEOREM LockInvariant == Spec => []LockInv
<1>1. Init => LockInv
  BY InitLock
<1>2. LockInv /\ [Next]_vars => LockInv'
  BY NextLock
<1>3. QED
  BY <1>1, <1>2, PTL DEF Spec

\* The detach rule of deleteScope, wipe, rebuildAll and cleanupIfEmptyAndUnused:
\* a buffer pointer that still accepts writes is the one its scope name leads to.
THEOREM WritesReachTheirScope == Spec => []NoOrphanWrites
<1>1. LockInv => NoOrphanWrites
  BY DEF LockInv
<1>2. QED
  BY <1>1, LockInvariant, PTL

\* A lookup that gets its shard lock never returns a detached buffer, and no two
\* names share one.
THEOREM LookupsReturnLiveBuffers == Spec => []LookupsAreLive
<1>1. LockInv => LookupsAreLive
  BY DEF LockInv
<1>2. QED
  BY <1>1, LockInvariant, PTL

\* Only the bulk operations hold shard locks over several steps, each those it
\* works on (lockAllShards, lockShards, unlockShards).
THEOREM LocksAreDisciplined == Spec => []LockDiscipline
<1>1. LockInv => LockDiscipline
  BY DEF LockInv
<1>2. QED
  BY <1>1, LockInvariant, PTL

\* The reserved scopes survive every operation, /wipe and /rebuild included.
THEOREM ReservedScopesSurvive == Spec => []ReservedPresent
<1>1. LockInv => ReservedPresent
  BY DEF LockInv, ReservedMapped, ReservedPresent
<1>2. QED
  BY <1>1, LockInvariant, PTL

----------------------------------------------------------------------------
(* Part 3: the counters and the caps *)

\* A scope that was missing at the snapshot of a /warm is charged in full.
OldOfAbsent ==
  \A s \in Scopes : plan[s].phase \in {"snap", "reserved"} /\ scopes[s] = NoBuf => plan[s].old = 0

\* No item has a seq its buffer has not given out.
SeqsIssued == \A b \in Bufs : DOMAIN items[b] \subseteq 1..lastSeq[b]

\* What a /rebuild loads was found to fit before it took the locks.
LoadFits ==
  \A p \in Procs : pc[p] = "rebuild" =>
    SumFunctionOnSet(LoadBytes(load[p]), Scopes) + ReservedOverhead <= MaxStoreBytes

\* What the exact counters rest on, besides the locks.
CountInv == CountersExact /\ OldOfAbsent /\ SeqsIssued /\ LoadFits

\* A scope's items, as totalItems counts them.
ItemsIn(s) == IF scopes[s] = NoBuf THEN 0 ELSE Cardinality(DOMAIN items[scopes[s]])

----------------------------------------------------------------------------
(* Item maps that change *)

\* The sizes in an item map are natural numbers,
LEMMA SizesNat ==
  ASSUME NEW m, IsItemMap(m)
  PROVE  \A n \in DOMAIN m : SizeOf(m)[n] = m[n].size /\ SizeOf(m)[n] \in Nat
BY DEF SizeOf, IsItemMap, Item

\* and so are the sums over parts of it.
LEMMA BytesNat ==
  ASSUME NEW m, IsItemMap(m), NEW S \in SUBSET DOMAIN m
  PROVE  BytesOf(m, S) \in Nat
<1>1. \A n \in S : SizeOf(m)[n] \in Nat
  BY SizesNat
<1>2. IsFiniteSet(S)
  BY ItemMapFacts
<1>3. SumFunctionOnSet(SizeOf(m), S) \in Nat
  BY <1>1, <1>2, SumNonNegative
<1>4. QED
  BY <1>3 DEF BytesOf

\* Maps that agree on a set of seqs have the same bytes there.
LEMMA BytesAgree ==
  ASSUME NEW m, IsItemMap(m), NEW k, IsItemMap(k), NEW S \in SUBSET DOMAIN m, S \subseteq DOMAIN k,
         \A n \in S : k[n] = m[n]
  PROVE  BytesOf(k, S) = BytesOf(m, S)
<1>1. \A n \in S : SizeOf(m)[n] \in Int /\ SizeOf(k)[n] = SizeOf(m)[n]
  BY SizesNat
<1>2. IsFiniteSet(S)
  BY ItemMapFacts
<1>3. SumFunctionOnSet(SizeOf(k), S) = SumFunctionOnSet(SizeOf(m), S)
  BY <1>1, <1>2, SumEqual
<1>4. QED
  BY <1>3 DEF BytesOf

\* One seq.
LEMMA BytesOfOne ==
  ASSUME NEW m, IsItemMap(m), NEW n \in DOMAIN m
  PROVE  BytesOf(m, {n}) = m[n].size
<1>1. SizeOf(m)[n] = m[n].size /\ SizeOf(m)[n] \in Int
  BY SizesNat
<1> DEFINE T == {n}
           f == SizeOf(m)
           c == m[n].size
<1>2. IsFiniteSet(T) /\ n \in T /\ c \in Int
  BY <1>1, FS_Singleton
<1>3. \A x \in T : f[x] = IF x = n THEN c ELSE 0
  BY <1>1
<1> HIDE DEF T, f, c
<1>4. SumFunctionOnSet(f, T) = c
  BY <1>2, <1>3, SumSingle
<1>5. QED
  BY <1>4 DEF BytesOf, T, f, c

\* The bytes of a map in two parts.
LEMMA BytesSplit ==
  ASSUME NEW m, IsItemMap(m), NEW S \in SUBSET DOMAIN m
  PROVE  BytesOf(m, DOMAIN m) = BytesOf(m, S) + BytesOf(m, DOMAIN m \ S)
<1>1. \A n \in DOMAIN m : SizeOf(m)[n] \in Int
  BY SizesNat
<1>2. IsFiniteSet(DOMAIN m)
  BY ItemMapFacts
<1>3. QED
  BY <1>1, <1>2, SumSplit DEF BytesOf

\* An empty map holds nothing.
LEMMA EmptyBytes ==
  ASSUME NEW m, DOMAIN m = {}
  PROVE  BytesOf(m, DOMAIN m) = 0 /\ Cardinality(DOMAIN m) = 0
<1>1. IsFiniteSet({}) /\ Cardinality({}) = 0
  BY FS_EmptySet
<1>2. SumFunctionOnSet(SizeOf(m), {}) = 0
  BY <1>1, SumType
<1>3. QED
  BY <1>1, <1>2 DEF BytesOf

\* The seqs of a list of /warm or /rebuild.
LEMMA BatchSeqs ==
  ASSUME NEW bt \in Batches
  PROVE  DOMAIN bt \subseteq 1..Cardinality(DOMAIN bt)
<1>1. DOMAIN bt = 1..Cardinality(DOMAIN bt)
  BY Zenon
<1>2. QED
  BY <1>1, Zenon

\* insertNewItemLocked: one more item.
LEMMA BytesInsert ==
  ASSUME NEW m, IsItemMap(m), NEW k \in Seqs \ DOMAIN m, NEW it \in Item,
         NEW new, IsItemMap(new), DOMAIN new = DOMAIN m \cup {k}, new[k] = it,
         \A n \in DOMAIN m : new[n] = m[n]
  PROVE  /\ BytesOf(new, DOMAIN new) = BytesOf(m, DOMAIN m) + it.size
         /\ Cardinality(DOMAIN new) = Cardinality(DOMAIN m) + 1
<1>1. DOMAIN m \in SUBSET DOMAIN m
  OBVIOUS
<1>2. {k} \in SUBSET DOMAIN new /\ DOMAIN new \ {k} = DOMAIN m /\ k \in DOMAIN new
  BY <1>1
<1>3. BytesOf(new, DOMAIN new) = BytesOf(new, {k}) + BytesOf(new, DOMAIN m)
  BY <1>1, <1>2, BytesSplit
<1>4. BytesOf(new, {k}) = it.size
  BY <1>1, <1>2, BytesOfOne
<1>5. BytesOf(new, DOMAIN m) = BytesOf(m, DOMAIN m)
  BY <1>1, BytesAgree
<1>6. BytesOf(m, DOMAIN m) \in Int /\ it.size \in Int
  BY BytesNat DEF Item
<1>7. Cardinality(DOMAIN new) = Cardinality(DOMAIN m) + 1
  BY <1>1, ItemMapFacts, FS_AddElement
<1>8. QED
  BY <1>1, <1>3, <1>4, <1>5, <1>6, <1>7

\* replaceItemAtIndexLocked: an item of another size.
LEMMA BytesReplace ==
  ASSUME NEW m, IsItemMap(m), NEW k \in DOMAIN m, NEW it \in Item,
         NEW new, IsItemMap(new), DOMAIN new = DOMAIN m, new[k] = it,
         \A n \in DOMAIN m \ {k} : new[n] = m[n]
  PROVE  BytesOf(new, DOMAIN new) = BytesOf(m, DOMAIN m) + (it.size - m[k].size)
<1> DEFINE rest == DOMAIN m \ {k}
<1>1. \A n \in rest : new[n] = m[n]
  OBVIOUS
<1>2. {k} \in SUBSET DOMAIN m /\ rest \in SUBSET DOMAIN m /\ DOMAIN m \ {k} = rest
  OBVIOUS
<1> HIDE DEF rest
<1>3. BytesOf(new, DOMAIN new) = BytesOf(new, {k}) + BytesOf(new, rest)
  BY <1>1, <1>2, BytesSplit
<1>4. BytesOf(m, DOMAIN m) = BytesOf(m, {k}) + BytesOf(m, rest)
  BY <1>2, BytesSplit
<1>5a. BytesOf(new, {k}) = it.size
  <2>1. k \in DOMAIN new
    BY <1>1
  <2>2. QED
    BY <1>1, <2>1, BytesOfOne
<1>5b. BytesOf(m, {k}) = m[k].size
  BY BytesOfOne
<1>6. BytesOf(new, rest) = BytesOf(m, rest)
  BY <1>1, <1>2, BytesAgree
<1>7. BytesOf(m, rest) \in Int /\ it.size \in Int /\ m[k].size \in Int
  <2>1. BytesOf(m, rest) \in Int
    BY <1>2, BytesNat
  <2>2. m[k].size \in Int /\ it.size \in Int
    BY DEF Item, IsItemMap
  <2>3. QED
    BY <2>1, <2>2
<1>8. QED
  BY <1>1, <1>3, <1>4, <1>5a, <1>5b, <1>6, <1>7

\* deleteIndexLocked and deleteUpToSeqLocked: the items of S are gone.
LEMMA BytesRemove ==
  ASSUME NEW m, IsItemMap(m), NEW S \in SUBSET DOMAIN m,
         NEW new, IsItemMap(new), DOMAIN new = DOMAIN m \ S,
         \A n \in DOMAIN new : new[n] = m[n]
  PROVE  /\ BytesOf(new, DOMAIN new) = BytesOf(m, DOMAIN m) - BytesOf(m, S)
         /\ Cardinality(DOMAIN new) = Cardinality(DOMAIN m) - Cardinality(S)
<1> DEFINE rest == DOMAIN m \ S
<1>1. DOMAIN new = rest /\ \A n \in rest : new[n] = m[n]
  OBVIOUS
<1>2. rest \in SUBSET DOMAIN m /\ rest \subseteq DOMAIN new
  BY <1>1
<1>3. BytesOf(m, DOMAIN m) = BytesOf(m, S) + BytesOf(m, rest)
  BY BytesSplit
<1>4. BytesOf(new, rest) = BytesOf(m, rest)
  <2> HIDE DEF rest
  <2> QED BY <1>1, <1>2, BytesAgree
<1>5. BytesOf(m, S) \in Int /\ BytesOf(m, rest) \in Int
  BY BytesNat
<1>6. IsFiniteSet(DOMAIN m) /\ IsFiniteSet(S)
  BY ItemMapFacts
<1>7. Cardinality(rest) = Cardinality(DOMAIN m) - Cardinality(S)
  <2>1. (DOMAIN m) \cap S = S
    OBVIOUS
  <2>2. QED
    BY <1>6, <2>1, FS_Difference
<1>8. QED
  BY <1>1, <1>3, <1>4, <1>5, <1>7

----------------------------------------------------------------------------
(* What each scope contributes to the counters *)

LEMMA ShareInt ==
  ASSUME LockInv, NEW s \in Scopes
  PROVE  ScopeShare(s) \in Int /\ Pending(s) \in Int /\ ItemsIn(s) \in Nat
<1>1. Pending(s) \in Int
  <2>1. CASE plan[s].phase = "reserved"
    <3> DEFINE q == holder[ShardOf[s]]
    <3>1. q \in Procs /\ s \in PlanScopes(q)
      BY <2>1 DEF LockInv, LockDiscipline, ShardFree, TypeOK, LockTypeOK
    <3>2. load[q] \in [Scopes -> Batches \cup {NoBatch}]
      BY <3>1 DEF LockInv, TypeOK, ProcTypeOK
    <3>3. PlanDelta(load[q], s) \in Int
      BY <3>1, <3>2, PlanSums DEF LockInv, PlanScopes
    <3>4. QED
      BY <2>1, <3>3 DEF Pending
  <2>2. QED
    BY <2>1 DEF Pending
<1>2. scopes[s] # NoBuf => scopes[s] \in Bufs /\ bytes[scopes[s]] \in Int /\ IsItemMap(items[scopes[s]])
  BY DEF LockInv, TypeOK, HeapTypeOK
<1>3. scopes[s] # NoBuf => Cardinality(DOMAIN items[scopes[s]]) \in Nat
  BY <1>2, ItemMapFacts
<1>4. QED
  BY <1>1, <1>2, <1>3 DEF ScopeShare, ItemsIn

\* What a /warm has reserved for a scope moves only with its plan, or when the
\* scope appears or goes.
LEMMA PendingFrame ==
  ASSUME NEW t \in Scopes, plan'[t] = plan[t], scopes'[t] = NoBuf <=> scopes[t] = NoBuf,
         plan[t].phase = "reserved" =>
            /\ holder'[ShardOf[t]] = holder[ShardOf[t]]
            /\ load'[holder[ShardOf[t]]] = load[holder[ShardOf[t]]]
  PROVE  Pending(t)' = Pending(t)
<1>1. CASE plan[t].phase = "reserved"
  BY <1>1 DEF Pending, PlanDelta
<1>2. CASE plan[t].phase # "reserved"
  BY <1>2 DEF Pending
<1>3. QED
  BY <1>1, <1>2

\* Steps of a goroutine that is in no bulk operation reserve nothing ahead.
LEMMA PointPending ==
  ASSUME LockInv, NEW p \in Procs, pc[p] \notin BulkLabels, UNCHANGED <<holder, plan>>,
         \A q \in Procs \ {p} : load'[q] = load[q],
         NEW t \in Scopes, scopes'[t] = NoBuf <=> scopes[t] = NoBuf
  PROVE  Pending(t)' = Pending(t)
<1>1. plan[t].phase = "reserved" => holder[ShardOf[t]] \in Procs \ {p}
  BY DEF LockInv, LockDiscipline, ShardFree, BulkLabels, TypeOK, LockTypeOK
<1>2. QED
  BY <1>1, PendingFrame

\* A scope whose shard is free has no plan.
LEMMA FreeShardNoPlan ==
  ASSUME LockInv, NEW s \in Scopes, ShardFree(s)
  PROVE  plan[s].phase = "none" /\ ~ plan[s].new /\ Pending(s) = 0
<1>1. plan[s].phase = "none"
  BY DEF LockInv, LockDiscipline
<1>2. QED
  BY <1>1 DEF LockInv, LockDiscipline, Pending

\* One scope's share changes, and totalBytes with it.
LEMMA BytesMove ==
  ASSUME LockInv, BytesAccounted, NEW s \in Scopes, NEW d \in Int,
         ScopeShare(s)' = ScopeShare(s) + d,
         \A t \in Scopes \ {s} : ScopeShare(t)' = ScopeShare(t),
         totalBytes' = totalBytes + d
  PROVE  BytesAccounted'
<1> DEFINE f == [t \in Scopes |-> ScopeShare(t)]
           g == [t \in Scopes |-> ScopeShare(t)']
<1>1. \A t \in Scopes : f[t] \in Int
  BY ShareInt
<1>2. g[s] = f[s] + d /\ g[s] \in Int /\ \A t \in Scopes \ {s} : g[t] = f[t]
  BY <1>1
<1>3. totalBytes = SumFunctionOnSet(f, Scopes)
  BY DEF BytesAccounted
<1> HIDE DEF f, g
<1>4. SumFunctionOnSet(g, Scopes) = SumFunctionOnSet(f, Scopes) - f[s] + g[s]
  BY <1>1, <1>2, SumUpdate
<1>5. SumFunctionOnSet(f, Scopes) \in Int
  BY <1>1, SumType
<1>6. totalBytes' = SumFunctionOnSet(g, Scopes)
  BY <1>1, <1>2, <1>3, <1>4, <1>5
<1>7. QED
  BY <1>6 DEF BytesAccounted, g

LEMMA BytesStay ==
  ASSUME LockInv, BytesAccounted, \A t \in Scopes : ScopeShare(t)' = ScopeShare(t), totalBytes' = totalBytes
  PROVE  BytesAccounted'
<1>1. EventsScope \in Scopes /\ ScopeShare(EventsScope) \in Int
  BY ShareInt
<1>2. totalBytes' = totalBytes + 0
  BY DEF LockInv, TypeOK, CounterTypeOK
<1>3. QED
  BY <1>1, <1>2, BytesMove

\* The same for totalItems.
LEMMA ItemsMove ==
  ASSUME LockInv, ItemsAccounted, NEW s \in Scopes, NEW d \in Int,
         ItemsIn(s)' = ItemsIn(s) + d,
         \A t \in Scopes \ {s} : ItemsIn(t)' = ItemsIn(t),
         totalItems' = totalItems + d
  PROVE  ItemsAccounted'
<1> DEFINE f == [t \in Scopes |-> ItemsIn(t)]
           g == [t \in Scopes |-> ItemsIn(t)']
<1>1. \A t \in Scopes : f[t] \in Int
  BY ShareInt
<1>2. g[s] = f[s] + d /\ g[s] \in Int /\ \A t \in Scopes \ {s} : g[t] = f[t]
  BY <1>1
<1>3. totalItems = SumFunctionOnSet(f, Scopes)
  BY DEF ItemsAccounted, ItemsIn
<1>4. ItemsAccounted' <=> totalItems' = SumFunctionOnSet(g, Scopes)
  BY DEF ItemsAccounted, ItemsIn
<1> HIDE DEF f, g
<1>5. SumFunctionOnSet(g, Scopes) = SumFunctionOnSet(f, Scopes) - f[s] + g[s]
  BY <1>1, <1>2, SumUpdate
<1>6. SumFunctionOnSet(f, Scopes) \in Int
  BY <1>1, SumType
<1>7. QED
  BY <1>1, <1>2, <1>3, <1>4, <1>5, <1>6

LEMMA ItemsStay ==
  ASSUME LockInv, ItemsAccounted, \A t \in Scopes : ItemsIn(t)' = ItemsIn(t), totalItems' = totalItems
  PROVE  ItemsAccounted'
<1>1. EventsScope \in Scopes /\ ItemsIn(EventsScope) \in Int
  BY ShareInt
<1>2. totalItems' = totalItems + 0
  BY DEF LockInv, TypeOK, CounterTypeOK
<1>3. QED
  BY <1>1, <1>2, ItemsMove

----------------------------------------------------------------------------
(* What a step may do to the counters *)

\* No two names share a buffer: a change of one buffer moves one scope's share.
LEMMA OthersKeep ==
  ASSUME LockInv, NEW s \in Mapped, NEW t \in Mapped \ {s}
  PROVE  /\ s \in Scopes /\ t \in Scopes /\ scopes[t] # scopes[s]
         /\ scopes[s] \in Bufs /\ scopes[t] \in Bufs
BY DEF LockInv, LookupsAreLive, Mapped, TypeOK, HeapTypeOK

\* The contents of the buffer of s change, and what is reserved ahead for s:
\* the five commits of a request and the replacement of a /warm.
LEMMA ContentsMove ==
  ASSUME LockInv, CountersExact, NEW s \in Mapped,
         NEW m, IsItemMap(m), NEW e \in Int,
         items'[scopes[s]] = m, bytes'[scopes[s]] = BytesOf(m, DOMAIN m),
         \A c \in Bufs \ {scopes[s]} : items'[c] = items[c] /\ bytes'[c] = bytes[c],
         UNCHANGED <<scopes, scopeCount>>,
         totalBytes' = totalBytes + (BytesOf(m, DOMAIN m) - bytes[scopes[s]] + e),
         totalItems' = totalItems + (Cardinality(DOMAIN m) - Cardinality(DOMAIN items[scopes[s]])),
         Pending(s)' = Pending(s) + e,
         \A t \in Scopes \ {s} : Pending(t)' = Pending(t),
         \A t \in Scopes : plan'[t].new = plan[t].new
  PROVE  CountersExact'
<1> DEFINE b == scopes[s]
           n == BytesOf(m, DOMAIN m)
<1>1. s \in Scopes /\ b \in Bufs /\ b # NoBuf
  BY DEF Mapped, LockInv, TypeOK, HeapTypeOK
<1>2. /\ items'[b] = m /\ bytes'[b] = n
      /\ \A c \in Bufs \ {b} : items'[c] = items[c] /\ bytes'[c] = bytes[c]
  OBVIOUS
<1>3. \A t \in Mapped \ {s} : items'[scopes[t]] = items[scopes[t]] /\ bytes'[scopes[t]] = bytes[scopes[t]]
  BY <1>2, OthersKeep
<1>4. /\ n \in Int /\ bytes[b] \in Int /\ Cardinality(DOMAIN m) \in Int
      /\ Cardinality(DOMAIN items[b]) \in Int /\ Pending(s) \in Int
  <2>1. n \in Int /\ Cardinality(DOMAIN m) \in Int
    BY ItemMapFacts, BytesNat
  <2>2. bytes[b] \in Int /\ IsItemMap(items[b])
    BY <1>1 DEF LockInv, TypeOK, HeapTypeOK
  <2>3. Cardinality(DOMAIN items[b]) \in Int
    BY <2>2, ItemMapFacts
  <2>4. QED
    BY <1>1, <2>1, <2>2, <2>3, ShareInt
<1>5. BytesAccounted'
  <2>1. ScopeShare(s)' = ScopeShare(s) + (n - bytes[b] + e)
    BY <1>1, <1>2, <1>4, SMTT(40) DEF ScopeShare
  <2>2. ASSUME NEW t \in Scopes \ {s}
        PROVE  ScopeShare(t)' = ScopeShare(t)
    BY <1>3, <2>2 DEF ScopeShare, Mapped
  <2>3. n - bytes[b] + e \in Int
    BY <1>4
  <2>4. QED
    BY <1>1, <2>1, <2>2, <2>3, BytesMove DEF CountersExact
<1>6. BufferBytesExact'
  <2>1. Mapped' = Mapped
    BY DEF Mapped
  <2>2. \A t \in Mapped : bytes'[scopes[t]] = BytesOf(items'[scopes[t]], DOMAIN items'[scopes[t]])
    BY <1>2, <1>3 DEF CountersExact, BufferBytesExact
  <2>3. QED
    BY <2>1, <2>2 DEF BufferBytesExact
<1>7. ItemsAccounted'
  <2>1. ItemsIn(s)' = ItemsIn(s) + (Cardinality(DOMAIN m) - Cardinality(DOMAIN items[b]))
    BY <1>1, <1>2, <1>4 DEF ItemsIn
  <2>2. ASSUME NEW t \in Scopes \ {s}
        PROVE  ItemsIn(t)' = ItemsIn(t)
    BY <1>3, <2>2 DEF ItemsIn, Mapped
  <2>3. Cardinality(DOMAIN m) - Cardinality(DOMAIN items[b]) \in Int
    BY <1>4
  <2>4. QED
    BY <1>1, <2>1, <2>2, <2>3, ItemsMove DEF CountersExact
<1>8. ScopesAccounted'
  BY DEF CountersExact, ScopesAccounted, Mapped
<1>9. QED
  BY <1>5, <1>6, <1>7, <1>8 DEF CountersExact

\* A buffer with the contents m appears under the name s: a lookup that creates
\* its scope, a /warm that does.
LEMMA Publish ==
  ASSUME LockInv, CountersExact, NEW s \in Scopes, scopes[s] = NoBuf, FreshBufs # {},
         NEW m, IsItemMap(m), NEW e \in Int,
         scopes'[s] = NewBuf, \A t \in Scopes \ {s} : scopes'[t] = scopes[t],
         items'[NewBuf] = m, bytes'[NewBuf] = BytesOf(m, DOMAIN m),
         \A c \in Bufs \ {NewBuf} : items'[c] = items[c] /\ bytes'[c] = bytes[c],
         totalBytes' = totalBytes + (BytesOf(m, DOMAIN m) + ScopeBufferOverhead + e),
         totalItems' = totalItems + Cardinality(DOMAIN m),
         Pending(s)' = Pending(s) + e,
         \A t \in Scopes \ {s} : Pending(t)' = Pending(t)
  PROVE  BytesAccounted' /\ BufferBytesExact' /\ ItemsAccounted'
<1> DEFINE n == BytesOf(m, DOMAIN m)
<1>1. NewBuf \in Bufs /\ NewBuf # NoBuf /\ \A t \in Scopes : scopes[t] # NewBuf
  BY FreshFacts
<1>2. /\ scopes'[s] = NewBuf /\ items'[NewBuf] = m /\ bytes'[NewBuf] = n
      /\ \A t \in Scopes \ {s} : scopes'[t] = scopes[t]
      /\ \A c \in Bufs \ {NewBuf} : items'[c] = items[c] /\ bytes'[c] = bytes[c]
  OBVIOUS
<1>3. \A t \in Scopes \ {s} : scopes[t] # NoBuf =>
         items'[scopes[t]] = items[scopes[t]] /\ bytes'[scopes[t]] = bytes[scopes[t]]
  BY <1>1, <1>2 DEF LockInv, TypeOK, HeapTypeOK
<1>4. n \in Int /\ Cardinality(DOMAIN m) \in Int /\ Pending(s) \in Int
  BY ItemMapFacts, BytesNat, ShareInt
<1>5. BytesAccounted'
  <2>1. ScopeShare(s)' = ScopeShare(s) + (n + ScopeBufferOverhead + e)
    BY <1>1, <1>2, <1>4 DEF ScopeShare
  <2>2. ASSUME NEW t \in Scopes \ {s}
        PROVE  ScopeShare(t)' = ScopeShare(t)
    BY <1>2, <1>3, <2>2 DEF ScopeShare
  <2>3. n + ScopeBufferOverhead + e \in Int
    BY <1>4
  <2>4. QED
    BY <2>1, <2>2, <2>3, BytesMove DEF CountersExact
<1>6. BufferBytesExact'
  <2>1. ASSUME NEW t \in Scopes, scopes'[t] # NoBuf
        PROVE  bytes'[scopes'[t]] = BytesOf(items'[scopes'[t]], DOMAIN items'[scopes'[t]])
    <3>1. CASE t = s
      BY <1>2, <3>1
    <3>2. CASE t # s
      BY <1>2, <1>3, <2>1, <3>2 DEF CountersExact, BufferBytesExact, Mapped
    <3>3. QED
      BY <3>1, <3>2
  <2>2. QED
    BY <2>1 DEF BufferBytesExact, Mapped
<1>7. ItemsAccounted'
  <2>1. ItemsIn(s)' = ItemsIn(s) + Cardinality(DOMAIN m)
    BY <1>1, <1>2, <1>4 DEF ItemsIn
  <2>2. ASSUME NEW t \in Scopes \ {s}
        PROVE  ItemsIn(t)' = ItemsIn(t)
    BY <1>2, <1>3, <2>2 DEF ItemsIn
  <2>3. QED
    BY <1>4, <2>1, <2>2, ItemsMove DEF CountersExact
<1>8. QED
  BY <1>5, <1>6, <1>7

\* The scope s leaves the map with everything it was charged for.
LEMMA Unmap ==
  ASSUME LockInv, CountersExact, NEW s \in Mapped, ~ plan[s].new, UNCHANGED <<items, bytes, plan>>,
         scopes'[s] = NoBuf, \A t \in Scopes \ {s} : scopes'[t] = scopes[t],
         totalBytes' = totalBytes - (bytes[scopes[s]] + ScopeBufferOverhead),
         totalItems' = totalItems - Cardinality(DOMAIN items[scopes[s]]),
         scopeCount' = scopeCount - 1,
         \A t \in Scopes : Pending(t)' = Pending(t)
  PROVE  CountersExact'
<1> DEFINE b == scopes[s]
           k == Cardinality(DOMAIN items[b])
<1>1. s \in Scopes /\ b \in Bufs /\ b # NoBuf
  BY DEF Mapped, LockInv, TypeOK, HeapTypeOK
<1>2. scopes'[s] = NoBuf /\ \A t \in Scopes \ {s} : scopes'[t] = scopes[t]
  OBVIOUS
<1>3. bytes[b] \in Int /\ k \in Int /\ Pending(s) \in Int
  <2>1. bytes[b] \in Int /\ IsItemMap(items[b])
    BY <1>1 DEF LockInv, TypeOK, HeapTypeOK
  <2>2. QED
    BY <1>1, <2>1, ItemMapFacts, ShareInt
<1>4. BytesAccounted'
  <2>1. ScopeShare(s)' = ScopeShare(s) + (0 - (bytes[b] + ScopeBufferOverhead))
    BY <1>1, <1>2, <1>3 DEF ScopeShare
  <2>2. ASSUME NEW t \in Scopes \ {s}
        PROVE  ScopeShare(t)' = ScopeShare(t)
    BY <1>2, <2>2 DEF ScopeShare
  <2>3. /\ 0 - (bytes[b] + ScopeBufferOverhead) \in Int
        /\ totalBytes' = totalBytes + (0 - (bytes[b] + ScopeBufferOverhead))
    BY <1>3 DEF LockInv, TypeOK, CounterTypeOK
  <2>4. QED
    BY <1>1, <2>1, <2>2, <2>3, BytesMove DEF CountersExact
<1>5. BufferBytesExact'
  BY <1>2 DEF CountersExact, BufferBytesExact, Mapped
<1>6. ItemsAccounted'
  <2>1. ItemsIn(s)' = ItemsIn(s) + (0 - k)
    BY <1>1, <1>2, <1>3 DEF ItemsIn
  <2>2. ASSUME NEW t \in Scopes \ {s}
        PROVE  ItemsIn(t)' = ItemsIn(t)
    BY <1>2, <2>2 DEF ItemsIn
  <2>3. 0 - k \in Int /\ totalItems' = totalItems + (0 - k)
    BY <1>3 DEF LockInv, TypeOK, CounterTypeOK
  <2>4. QED
    BY <1>1, <2>1, <2>2, <2>3, ItemsMove DEF CountersExact
<1>7. ScopesAccounted'
  <2> DEFINE C == {t \in Mapped : ~ plan[t].new}
  <2>1. s \in C /\ IsFiniteSet(C)
    <3>1. C \subseteq Scopes
      BY DEF Mapped
    <3>2. QED
      BY <3>1, FS_Subset
  <2>2. {t \in Mapped : ~ plan[t].new}' = C \ {s}
    BY <1>1, <1>2 DEF Mapped
  <2>3. Cardinality(C \ {s}) = Cardinality(C) - 1
    <3> HIDE DEF C
    <3> QED BY <2>1, FS_RemoveElement
  <2>4. QED
    BY <2>2, <2>3 DEF CountersExact, ScopesAccounted
<1>8. QED
  BY <1>4, <1>5, <1>6, <1>7 DEF CountersExact

\* Nothing the counters are made of moves.
LEMMA CountStay ==
  ASSUME LockInv, CountersExact, UNCHANGED <<scopes, items, bytes, totals>>,
         \A t \in Scopes : Pending(t)' = Pending(t) /\ plan'[t].new = plan[t].new
  PROVE  CountersExact'
<1>1. UNCHANGED <<totalBytes, totalItems, scopeCount>>
  BY DEF totals
<1>2. BytesAccounted'
  <2>1. \A t \in Scopes : ScopeShare(t)' = ScopeShare(t)
    BY DEF ScopeShare
  <2>2. QED
    BY <1>1, <2>1, BytesStay DEF CountersExact
<1>3. ItemsAccounted'
  BY <1>1 DEF CountersExact, ItemsAccounted
<1>4. BufferBytesExact' /\ ScopesAccounted'
  BY <1>1 DEF CountersExact, BufferBytesExact, ScopesAccounted, Mapped
<1>5. QED
  BY <1>2, <1>3, <1>4 DEF CountersExact

----------------------------------------------------------------------------
(* The critical sections of a request *)

\* What the other parts of CountInv read.
LEMMA SideFrame ==
  ASSUME OldOfAbsent, LoadFits, UNCHANGED plan,
         \A t \in Scopes : scopes'[t] = NoBuf => scopes[t] = NoBuf,
         \A q \in Procs : pc'[q] = "rebuild" => pc[q] = "rebuild" /\ load'[q] = load[q]
  PROVE  OldOfAbsent' /\ LoadFits'
BY DEF OldOfAbsent, LoadFits

\* The buffer a goroutine may write to is the one its scope's name leads to.
LEMMA WritesToMapped ==
  ASSUME LockInv, NEW p \in Procs, pc[p] = "commit", ~ detached[ref[p]]
  PROVE  req[p].scope \in Mapped /\ scopes[req[p].scope] = ref[p] /\ ref[p] \in Bufs
<1>1. ref[p] \in Bufs /\ ref[p] # NoBuf /\ req[p] \in Request
  BY DEF LockInv, TypeOK, ProcTypeOK
<1>2. scopes[req[p].scope] = ref[p]
  BY DEF LockInv, NoOrphanWrites
<1>3. req[p].scope \in Scopes
  BY <1>1 DEF Request
<1>4. QED
  BY <1>1, <1>2, <1>3 DEF Mapped

LEMMA MappedFacts ==
  ASSUME LockInv, CountInv, NEW s \in Mapped
  PROVE  /\ s \in Scopes /\ scopes[s] \in Bufs
         /\ IsItemMap(items[scopes[s]]) /\ lastSeq[scopes[s]] \in 0..MaxSeq
         /\ DOMAIN items[scopes[s]] \subseteq 1..lastSeq[scopes[s]]
         /\ bytes[scopes[s]] = BytesOf(items[scopes[s]], DOMAIN items[scopes[s]])
         /\ bytes[scopes[s]] \in Int
         /\ Cardinality(DOMAIN items[scopes[s]]) \in Nat
<1>1. s \in Scopes /\ scopes[s] \in Bufs
  BY DEF Mapped, LockInv, TypeOK, HeapTypeOK
<1>2. IsItemMap(items[scopes[s]]) /\ lastSeq[scopes[s]] \in 0..MaxSeq /\ bytes[scopes[s]] \in Int
  BY <1>1 DEF LockInv, TypeOK, HeapTypeOK
<1>3. DOMAIN items[scopes[s]] \subseteq 1..lastSeq[scopes[s]]
  BY <1>1 DEF CountInv, SeqsIssued
<1>4. QED
  BY <1>1, <1>2, <1>3, ItemMapFacts DEF CountInv, CountersExact, BufferBytesExact

\* The same with what the code adds to its counters: the critical sections of a
\* request, beside which nothing is reserved ahead.
LEMMA ContentsMoveBy ==
  ASSUME LockInv, CountInv, NEW s \in Mapped, NEW b, b = scopes[s],
         NEW m, IsItemMap(m), items'[b] = m, bytes'[b] = BytesOf(m, DOMAIN m),
         \A a \in Bufs \ {b} : items'[a] = items[a] /\ bytes'[a] = bytes[a],
         totalBytes' - totalBytes = BytesOf(m, DOMAIN m) - BytesOf(items[b], DOMAIN items[b]),
         totalItems' - totalItems = Cardinality(DOMAIN m) - Cardinality(DOMAIN items[b]),
         totalBytes' \in Int, totalItems' \in Int,
         UNCHANGED <<scopes, scopeCount, plan>>,
         \A t \in Scopes : Pending(t)' = Pending(t)
  PROVE  CountersExact'
<1>1. /\ s \in Scopes /\ bytes[b] = BytesOf(items[b], DOMAIN items[b]) /\ bytes[b] \in Int
      /\ Cardinality(DOMAIN items[b]) \in Nat
  BY MappedFacts
<1>2. Pending(s) \in Int
  BY <1>1, ShareInt
<1>3. PICK e \in Int : e = 0
  OBVIOUS
<1>4. /\ BytesOf(m, DOMAIN m) \in Int /\ Cardinality(DOMAIN m) \in Int
      /\ totalBytes \in Int /\ totalItems \in Int
  BY ItemMapFacts, BytesNat DEF LockInv, TypeOK, CounterTypeOK
<1>5. totalBytes' = totalBytes + (BytesOf(m, DOMAIN m) - bytes[scopes[s]] + e)
  BY <1>1, <1>3, <1>4
<1>6. totalItems' = totalItems + (Cardinality(DOMAIN m) - Cardinality(DOMAIN items[scopes[s]]))
  BY <1>1, <1>4
<1>7. Pending(s)' = Pending(s) + e
  BY <1>1, <1>2, <1>3
<1>8. QED
  BY <1>5, <1>6, <1>7, ContentsMove DEF CountInv

LEMMA InsertCount ==
  ASSUME LockInv, CountInv, NEW s \in Mapped, NEW it \in Item, InsertNewItemLocked(scopes[s], it),
         UNCHANGED <<scopes, plan>>, \A t \in Scopes : Pending(t)' = Pending(t)
  PROVE  CountersExact' /\ SeqsIssued'
<1>0. PICK b : b = scopes[s]
  OBVIOUS
<1>1. /\ s \in Scopes /\ b \in Bufs /\ IsItemMap(items[b]) /\ lastSeq[b] \in 0..MaxSeq
      /\ DOMAIN items[b] \subseteq 1..lastSeq[b]
      /\ bytes[b] = BytesOf(items[b], DOMAIN items[b]) /\ bytes[b] \in Int
      /\ Cardinality(DOMAIN items[b]) \in Nat
  BY <1>0, MappedFacts
<1>2. PICK k : k = lastSeq[b] + 1
  OBVIOUS
<1>3. PICK m : m = [n \in DOMAIN items[b] \cup {k} |-> IF n = k THEN it ELSE items[b][n]]
  OBVIOUS
<1>4. /\ items' = [items EXCEPT ![b] = m]
      /\ bytes' = [bytes EXCEPT ![b] = bytes[b] + it.size]
      /\ lastSeq' = [lastSeq EXCEPT ![b] = k]
      /\ totalBytes' = totalBytes + it.size /\ totalItems' = totalItems + 1 /\ scopeCount' = scopeCount
      /\ lastSeq[b] < MaxSeq
  BY <1>0, <1>2, <1>3 DEF InsertNewItemLocked
<1>4a. /\ items'[b] = m /\ bytes'[b] = bytes[b] + it.size /\ lastSeq'[b] = k
       /\ \A a \in Bufs \ {b} : items'[a] = items[a] /\ bytes'[a] = bytes[a] /\ lastSeq'[a] = lastSeq[a]
  BY <1>1, <1>4 DEF LockInv, TypeOK, HeapTypeOK
<1>5. k \in Seqs \ DOMAIN items[b]
  BY <1>1, <1>2, <1>4 DEF Seqs
<1>5a. /\ IsItemMap(m) /\ DOMAIN m = DOMAIN items[b] \cup {k} /\ m[k] = it
       /\ \A n \in DOMAIN items[b] : m[n] = items[b][n]
  BY <1>1, <1>3, <1>5 DEF IsItemMap
<1>6. /\ BytesOf(m, DOMAIN m) = BytesOf(items[b], DOMAIN items[b]) + it.size
      /\ Cardinality(DOMAIN m) = Cardinality(DOMAIN items[b]) + 1
  <2>1. PICK old : old = items[b]
    OBVIOUS
  <2>2. IsItemMap(old) /\ k \in Seqs \ DOMAIN old
    BY <1>1, <1>5, <2>1
  <2>3. DOMAIN m = DOMAIN old \cup {k} /\ \A n \in DOMAIN old : m[n] = old[n]
    BY <1>5a, <2>1
  <2>4. /\ BytesOf(m, DOMAIN m) = BytesOf(old, DOMAIN old) + it.size
        /\ Cardinality(DOMAIN m) = Cardinality(DOMAIN old) + 1
    BY <1>5a, <2>2, <2>3, BytesInsert
  <2>5. QED
    BY <2>1, <2>4
<1>7. SeqsIssued'
  <2>1. DOMAIN m \subseteq 1..k
    BY <1>1, <1>2, <1>5a
  <2>2. QED
    BY <1>4a, <2>1 DEF SeqsIssued, CountInv
<1>8. it.size \in Int /\ Pending(s) \in Int /\ totalBytes \in Int /\ totalItems \in Int
  BY <1>1, ShareInt DEF Item, LockInv, TypeOK, CounterTypeOK
<1>9. CountersExact'
  <2>1. bytes'[b] = BytesOf(m, DOMAIN m)
    BY <1>1, <1>4a, <1>6
  <2>2. /\ totalBytes' - totalBytes = BytesOf(m, DOMAIN m) - BytesOf(items[b], DOMAIN items[b])
        /\ totalBytes' \in Int
    BY <1>1, <1>4, <1>6, <1>8, SMTT(40)
  <2>3. /\ totalItems' - totalItems = Cardinality(DOMAIN m) - Cardinality(DOMAIN items[b])
        /\ totalItems' \in Int
    BY <1>1, <1>4, <1>6, <1>8
  <2>4. scopeCount' = scopeCount
    BY <1>4
  <2>5. QED
    BY <1>0, <1>4a, <1>5a, <2>1, <2>2, <2>3, <2>4, ContentsMoveBy
<1>10. QED
  BY <1>7, <1>9

LEMMA ReplaceCount ==
  ASSUME LockInv, CountInv, NEW s \in Mapped, NEW k \in DOMAIN items[scopes[s]], NEW size \in Nat,
         ReplaceItemLocked(scopes[s], k, size),
         UNCHANGED <<scopes, plan>>, \A t \in Scopes : Pending(t)' = Pending(t)
  PROVE  CountersExact' /\ SeqsIssued'
<1>0. PICK b : b = scopes[s]
  OBVIOUS
<1>1. /\ s \in Scopes /\ b \in Bufs /\ IsItemMap(items[b]) /\ k \in DOMAIN items[b]
      /\ bytes[b] = BytesOf(items[b], DOMAIN items[b]) /\ bytes[b] \in Int
      /\ Cardinality(DOMAIN items[b]) \in Nat
  BY <1>0, MappedFacts
<1>2. PICK it : it = [id |-> items[b][k].id, size |-> size]
  OBVIOUS
<1>3. it \in Item /\ it.size = size /\ items[b][k].size \in Int
  BY <1>1, <1>2 DEF IsItemMap, Item
<1>4. PICK m : m = [n \in DOMAIN items[b] |-> IF n = k THEN it ELSE items[b][n]]
  OBVIOUS
<1>5. PICK d : d = it.size - items[b][k].size
  OBVIOUS
<1>6. /\ items' = [items EXCEPT ![b] = m]
      /\ bytes' = [bytes EXCEPT ![b] = bytes[b] + d]
      /\ totalBytes' = totalBytes + d /\ UNCHANGED <<lastSeq, totalItems, scopeCount>>
  BY <1>0, <1>2, <1>3, <1>4, <1>5 DEF ReplaceItemLocked, SizeDelta
<1>6a. /\ items'[b] = m /\ bytes'[b] = bytes[b] + d
       /\ \A a \in Bufs \ {b} : items'[a] = items[a] /\ bytes'[a] = bytes[a]
  BY <1>1, <1>6 DEF LockInv, TypeOK, HeapTypeOK
<1>7a. /\ IsItemMap(m) /\ DOMAIN m = DOMAIN items[b] /\ m[k] = it
       /\ \A n \in DOMAIN items[b] \ {k} : m[n] = items[b][n]
  BY <1>1, <1>3, <1>4 DEF IsItemMap
<1>7. BytesOf(m, DOMAIN m) = BytesOf(items[b], DOMAIN items[b]) + d
  BY <1>1, <1>3, <1>5, <1>7a, BytesReplace
<1>8. SeqsIssued'
  BY <1>1, <1>6, <1>6a, <1>7a DEF SeqsIssued, CountInv
<1>9. d \in Int /\ totalBytes \in Int /\ totalItems \in Int
  BY <1>1, <1>3, <1>5 DEF LockInv, TypeOK, CounterTypeOK
<1>10. CountersExact'
  <2>1. bytes'[b] = BytesOf(m, DOMAIN m)
    BY <1>1, <1>6a, <1>7
  <2>2. /\ totalBytes' - totalBytes = BytesOf(m, DOMAIN m) - BytesOf(items[b], DOMAIN items[b])
        /\ totalBytes' \in Int
    BY <1>1, <1>6, <1>7, <1>9
  <2>3. /\ totalItems' - totalItems = Cardinality(DOMAIN m) - Cardinality(DOMAIN items[b])
        /\ totalItems' \in Int
    BY <1>1, <1>6, <1>7a, <1>9
  <2>4. scopeCount' = scopeCount
    BY <1>6
  <2>5. QED
    BY <1>0, <1>6a, <1>7a, <2>1, <2>2, <2>3, <2>4, ContentsMoveBy
<1>11. QED
  BY <1>8, <1>10

LEMMA RemoveCount ==
  ASSUME LockInv, CountInv, NEW s \in Mapped, NEW S \in SUBSET DOMAIN items[scopes[s]],
         RemoveItemsLocked(scopes[s], S),
         UNCHANGED <<scopes, plan>>, \A t \in Scopes : Pending(t)' = Pending(t)
  PROVE  CountersExact' /\ SeqsIssued'
<1>0. PICK b : b = scopes[s]
  OBVIOUS
<1>1. /\ s \in Scopes /\ b \in Bufs /\ IsItemMap(items[b]) /\ S \in SUBSET DOMAIN items[b]
      /\ bytes[b] = BytesOf(items[b], DOMAIN items[b]) /\ bytes[b] \in Int
      /\ Cardinality(DOMAIN items[b]) \in Nat
  BY <1>0, MappedFacts
<1>2. PICK m : m = [n \in DOMAIN items[b] \ S |-> items[b][n]]
  OBVIOUS
<1>5. /\ items' = [items EXCEPT ![b] = m]
      /\ bytes' = [bytes EXCEPT ![b] = bytes[b] - BytesOf(items[b], S)]
      /\ totalBytes' = totalBytes - BytesOf(items[b], S) /\ totalItems' = totalItems - Cardinality(S)
      /\ UNCHANGED <<lastSeq, scopeCount>>
  BY <1>0, <1>2 DEF RemoveItemsLocked
<1>6. BytesOf(items[b], S) \in Int /\ Cardinality(S) \in Nat /\ totalItems \in Int /\ totalBytes \in Int
  BY <1>1, ItemMapFacts DEF LockInv, TypeOK, CounterTypeOK
<1>6a. /\ items'[b] = m /\ bytes'[b] = bytes[b] - BytesOf(items[b], S)
       /\ \A a \in Bufs \ {b} : items'[a] = items[a] /\ bytes'[a] = bytes[a]
  BY <1>1, <1>5 DEF LockInv, TypeOK, HeapTypeOK
<1>7a. /\ IsItemMap(m) /\ DOMAIN m = DOMAIN items[b] \ S
       /\ \A n \in DOMAIN m : m[n] = items[b][n]
  BY <1>1, <1>2 DEF IsItemMap
<1>7. /\ BytesOf(m, DOMAIN m) = BytesOf(items[b], DOMAIN items[b]) - BytesOf(items[b], S)
      /\ Cardinality(DOMAIN m) = Cardinality(DOMAIN items[b]) - Cardinality(S)
  BY <1>1, <1>7a, BytesRemove
<1>8. SeqsIssued'
  BY <1>1, <1>5, <1>6a, <1>7a DEF SeqsIssued, CountInv
<1>10. CountersExact'
  <2>1. bytes'[b] = BytesOf(m, DOMAIN m)
    BY <1>1, <1>6a, <1>7
  <2>2. /\ totalBytes' - totalBytes = BytesOf(m, DOMAIN m) - BytesOf(items[b], DOMAIN items[b])
        /\ totalBytes' \in Int
    BY <1>1, <1>5, <1>6, <1>7
  <2>3. /\ totalItems' - totalItems = Cardinality(DOMAIN m) - Cardinality(DOMAIN items[b])
        /\ totalItems' \in Int
    BY <1>1, <1>5, <1>6, <1>7
  <2>4. scopeCount' = scopeCount
    BY <1>5
  <2>5. QED
    BY <1>0, <1>6a, <1>7a, <2>1, <2>2, <2>3, <2>4, ContentsMoveBy
<1>11. QED
  BY <1>8, <1>10

\* A step that ends the request leaves what is reserved ahead alone.
LEMMA ReturnPending ==
  ASSUME LockInv, NEW p \in Procs, Idle(p) \/ Committed(p), pc[p] \notin BulkLabels,
         UNCHANGED <<holder, plan>>
  PROVE  /\ \A t \in Scopes : (scopes'[t] = NoBuf <=> scopes[t] = NoBuf) => Pending(t)' = Pending(t)
         /\ \A q \in Procs : pc'[q] = "rebuild" => pc[q] = "rebuild" /\ load'[q] = load[q]
<1>1. /\ pc'[p] \in {"idle", "emit"}
      /\ \A q \in Procs \ {p} : pc'[q] = pc[q] /\ load'[q] = load[q]
  BY ReturnFacts DEF LockInv
<1>2. QED
  BY <1>1, PointPending

LEMMA CommitCount ==
  ASSUME LockInv, CountInv, NEW p \in Procs,
         AppendItem(p) \/ UpsertByID(p) \/ CounterAdd(p) \/ UpdateItem(p) \/ DeleteItems(p)
  PROVE  CountInv'
<1> DEFINE s == req[p].scope
           it == [id |-> req[p].id, size |-> req[p].size]
           hits == Hits(ref[p], req[p])
<1>1. pc[p] = "commit" /\ ~ detached[ref[p]]
  BY DEF AppendItem, UpsertByID, CounterAdd, UpdateItem, DeleteItems, AtBuffer
<1>2. Committed(p) /\ UNCHANGED <<scopes, holder, plan>>
  BY DEF AppendItem, UpsertByID, CounterAdd, UpdateItem, DeleteItems
<1>3. /\ req[p].size \in Nat /\ it \in Item /\ hits \in SUBSET DOMAIN items[ref[p]]
  BY <1>1, RequestFacts DEF LockInv
<1>4. s \in Mapped /\ scopes[s] = ref[p]
  BY <1>1, WritesToMapped
<1>5. \/ InsertNewItemLocked(ref[p], it)
      \/ \E k \in hits : ReplaceItemLocked(ref[p], k, req[p].size)
      \/ RemoveItemsLocked(ref[p], hits)
  BY DEF AppendItem, UpsertByID, CounterAdd, UpdateItem, DeleteItems
<1>6. (\A t \in Scopes : Pending(t)' = Pending(t))
      /\ \A q \in Procs : pc'[q] = "rebuild" => pc[q] = "rebuild" /\ load'[q] = load[q]
  BY <1>1, <1>2, ReturnPending DEF BulkLabels
<1>7. CountersExact' /\ SeqsIssued'
  <2> HIDE DEF s, it, hits
  <2>1. CASE InsertNewItemLocked(ref[p], it)
    BY <1>2, <1>3, <1>4, <1>6, <2>1, InsertCount
  <2>2. ASSUME NEW k \in hits, ReplaceItemLocked(ref[p], k, req[p].size)
        PROVE  CountersExact' /\ SeqsIssued'
    <3>1. k \in DOMAIN items[scopes[s]] /\ ReplaceItemLocked(scopes[s], k, req[p].size)
      BY <1>3, <1>4, <2>2
    <3>2. QED
      BY <1>2, <1>3, <1>4, <1>6, <3>1, ReplaceCount
  <2>3. CASE RemoveItemsLocked(ref[p], hits)
    BY <1>2, <1>3, <1>4, <1>6, <2>3, RemoveCount
  <2>4. QED
    BY <1>5, <2>1, <2>2, <2>3
<1>8. OldOfAbsent' /\ LoadFits'
  BY <1>2, <1>6, SideFrame DEF CountInv
<1>9. QED
  BY <1>7, <1>8 DEF CountInv

----------------------------------------------------------------------------
(* Lookups, misses, failures and the operations on whole scopes *)

\* Steps that touch no buffer contents and no counter.
LEMMA QuietCount ==
  ASSUME LockInv, CountInv, UNCHANGED <<scopes, items, bytes, lastSeq, totals, plan>>,
         \A t \in Scopes : Pending(t)' = Pending(t),
         \A q \in Procs : pc'[q] = "rebuild" => pc[q] = "rebuild" /\ load'[q] = load[q]
  PROVE  CountInv'
<1>1. CountersExact'
  BY CountStay DEF CountInv
<1>2. OldOfAbsent' /\ LoadFits'
  BY SideFrame DEF CountInv
<1>3. SeqsIssued'
  BY DEF CountInv, SeqsIssued
<1>4. QED
  BY <1>1, <1>2, <1>3 DEF CountInv

LEMMA LookupFoundCount ==
  ASSUME LockInv, CountInv, NEW p \in Procs, NEW r \in Request, LookupFound(p, r), pc[p] \in {"idle", "emit"}
  PROVE  CountInv'
<1>1. UNCHANGED <<scopes, holder, items, bytes, lastSeq, totals, load, plan>> /\ pc'[p] = "commit"
      /\ \A q \in Procs \ {p} : pc'[q] = pc[q]
  BY DEF LookupFound, bufVars, LockInv, TypeOK, ProcTypeOK
<1>2. \A t \in Scopes : Pending(t)' = Pending(t)
  BY <1>1, PointPending DEF BulkLabels
<1>3. \A q \in Procs : pc'[q] = "rebuild" => pc[q] = "rebuild" /\ load'[q] = load[q]
  BY <1>1
<1>4. QED
  BY <1>1, <1>2, <1>3, QuietCount

LEMMA LookupCreatedCount ==
  ASSUME LockInv, CountInv, NEW p \in Procs, NEW r \in Request, LookupCreated(p, r), pc[p] = "idle"
  PROVE  CountInv'
<1>0. PICK s : s = r.scope
  OBVIOUS
<1>1. s \in Scopes /\ scopes[s] = NoBuf /\ FreshBufs # {} /\ ShardFree(s)
  BY <1>0 DEF LookupCreated, Found, Request
<1>2. /\ NewBuf \in Bufs /\ NewBuf # NoBuf
  BY <1>1, FreshFacts
<1>3. /\ scopes'[s] = NewBuf /\ \A t \in Scopes \ {s} : scopes'[t] = scopes[t]
      /\ items'[NewBuf] = NoItems /\ bytes'[NewBuf] = 0 /\ lastSeq'[NewBuf] = 0
      /\ \A c \in Bufs \ {NewBuf} : items'[c] = items[c] /\ bytes'[c] = bytes[c] /\ lastSeq'[c] = lastSeq[c]
  BY <1>0, <1>1, <1>2 DEF LookupCreated, LockInv, TypeOK, HeapTypeOK
<1>4. /\ totalBytes' = totalBytes + ScopeBufferOverhead /\ scopeCount' = scopeCount + 1
      /\ UNCHANGED <<holder, totalItems, load, plan>>
      /\ pc'[p] = "commit" /\ \A q \in Procs \ {p} : pc'[q] = pc[q]
  BY DEF LookupCreated, LockInv, TypeOK, ProcTypeOK
<1>5. IsItemMap(NoItems) /\ DOMAIN NoItems = {}
  BY NoItemsMap
<1>6. BytesOf(NoItems, DOMAIN NoItems) = 0 /\ Cardinality(DOMAIN NoItems) = 0
  BY <1>5, EmptyBytes
<1>7. plan[s].phase = "none" /\ ~ plan[s].new /\ Pending(s) = 0 /\ Pending(s)' = 0
  <2>1. plan[s].phase = "none" /\ ~ plan[s].new /\ Pending(s) = 0
    BY <1>1, FreeShardNoPlan
  <2>2. QED
    BY <1>4, <2>1 DEF Pending
<1>8. \A t \in Scopes \ {s} : Pending(t)' = Pending(t)
  BY <1>3, <1>4, PointPending DEF BulkLabels
<1>9. BytesAccounted' /\ BufferBytesExact' /\ ItemsAccounted'
  <2>1. PICK e \in Int : e = 0
    OBVIOUS
  <2>2. Pending(s)' = Pending(s) + e
    BY <1>7, <2>1
  <2>3. totalBytes' = totalBytes + (BytesOf(NoItems, DOMAIN NoItems) + ScopeBufferOverhead + e)
    BY <1>4, <1>6, <2>1
  <2>4. totalItems' = totalItems + Cardinality(DOMAIN NoItems)
    BY <1>4, <1>6 DEF LockInv, TypeOK, CounterTypeOK
  <2>5. bytes'[NewBuf] = BytesOf(NoItems, DOMAIN NoItems)
    BY <1>3, <1>6
  <2>6. QED
    BY <1>1, <1>3, <1>5, <1>8, <2>2, <2>3, <2>4, <2>5, Publish DEF CountInv
<1>10. ScopesAccounted'
  <2> DEFINE C == {t \in Mapped : ~ plan[t].new}
  <2>1. s \notin C /\ IsFiniteSet(C)
    <3>1. C \subseteq Scopes
      BY DEF Mapped
    <3>2. QED
      BY <1>1, <3>1, FS_Subset DEF Mapped
  <2>2. {t \in Mapped : ~ plan[t].new}' = C \cup {s}
    BY <1>1, <1>2, <1>3, <1>4, <1>7 DEF Mapped
  <2>3. Cardinality(C \cup {s}) = Cardinality(C) + 1
    <3> HIDE DEF C
    <3> QED BY <2>1, FS_AddElement
  <2>4. QED
    BY <1>4, <2>2, <2>3 DEF CountInv, CountersExact, ScopesAccounted
<1>11. OldOfAbsent' /\ LoadFits'
  BY <1>1, <1>2, <1>3, <1>4, SideFrame DEF CountInv
<1>12. SeqsIssued'
  BY <1>3, <1>5 DEF SeqsIssued, CountInv
<1>13. QED
  BY <1>9, <1>10, <1>11, <1>12 DEF CountInv, CountersExact

LEMMA BeginCount ==
  ASSUME LockInv, CountInv, NEW p \in Procs, Begin(p) \/ Emit(p)
  PROVE  CountInv'
<1>1. CASE Begin(p)
  BY <1>1, LookupFoundCount, LookupCreatedCount DEF Begin, Requests
<1>2. CASE Emit(p)
  BY <1>2, LookupFoundCount, NoRequestType DEF Emit
<1>3. QED
  BY <1>1, <1>2

LEMMA MissFailCount ==
  ASSUME LockInv, CountInv, NEW p \in Procs, Miss(p) \/ Fail(p)
  PROVE  CountInv'
<1>1. pc[p] = "commit" /\ UNCHANGED <<scopes, holder, items, bytes, lastSeq, totals, plan>>
  BY DEF Miss, Fail, bufVars
<1>2. CASE Idle(p)
  <2>1. /\ \A t \in Scopes : Pending(t)' = Pending(t)
        /\ \A q \in Procs : pc'[q] = "rebuild" => pc[q] = "rebuild" /\ load'[q] = load[q]
    BY <1>1, <1>2, ReturnPending DEF BulkLabels
  <2>2. QED
    BY <1>1, <2>1, QuietCount
<1>3. CASE pc' = [pc EXCEPT ![p] = "cleanup"] /\ UNCHANGED load
  <2>1. \A t \in Scopes : Pending(t)' = Pending(t)
    BY <1>1, <1>3, PointPending DEF BulkLabels
  <2>2. \A q \in Procs : pc'[q] = "rebuild" => pc[q] = "rebuild" /\ load'[q] = load[q]
    BY <1>3 DEF LockInv, TypeOK, ProcTypeOK
  <2>3. QED
    BY <1>1, <2>1, <2>2, QuietCount
<1>4. QED
  BY <1>2, <1>3 DEF Miss, Fail

\* deleteScope and the rollback of a scope that stayed empty.
LEMMA UnmapCount ==
  ASSUME LockInv, CountInv, NEW p \in Procs, Idle(p) \/ Committed(p), pc[p] \notin BulkLabels,
         NEW s \in Mapped, ShardFree(s),
         scopes' = [scopes EXCEPT ![s] = NoBuf],
         totalBytes' = totalBytes - (bytes[scopes[s]] + ScopeBufferOverhead),
         totalItems' = totalItems - Cardinality(DOMAIN items[scopes[s]]),
         scopeCount' = scopeCount - 1,
         UNCHANGED <<holder, items, bytes, lastSeq, plan>>
  PROVE  CountInv'
<1>1. s \in Scopes
  BY DEF Mapped
<1>2. scopes'[s] = NoBuf /\ \A t \in Scopes \ {s} : scopes'[t] = scopes[t]
  BY <1>1 DEF LockInv, TypeOK, HeapTypeOK
<1>3. plan[s].phase = "none" /\ ~ plan[s].new /\ Pending(s) = 0 /\ Pending(s)' = 0
  <2>1. plan[s].phase = "none" /\ ~ plan[s].new /\ Pending(s) = 0
    BY <1>1, FreeShardNoPlan
  <2>2. QED
    BY <2>1 DEF Pending
<1>4. /\ pc'[p] \in {"idle", "emit"}
      /\ \A q \in Procs \ {p} : pc'[q] = pc[q] /\ load'[q] = load[q]
  BY ReturnFacts DEF LockInv
<1>5. \A t \in Scopes \ {s} : Pending(t)' = Pending(t)
  BY <1>2, <1>4, PointPending
<1>6. CountersExact'
  BY <1>2, <1>3, <1>5, Unmap DEF CountInv
<1>7. OldOfAbsent'
  BY <1>2, <1>3 DEF OldOfAbsent, CountInv
<1>8. LoadFits'
  BY <1>4 DEF LoadFits, CountInv
<1>9. SeqsIssued'
  BY DEF SeqsIssued, CountInv
<1>10. QED
  BY <1>6, <1>7, <1>8, <1>9 DEF CountInv

LEMMA ScopeOpsCount ==
  ASSUME LockInv, CountInv, NEW p \in Procs, Cleanup(p) \/ \E s \in Scopes : DeleteScope(p, s)
  PROVE  CountInv'
<1>1. CASE Cleanup(p)
  <2>0. PICK s : s = req[p].scope
    OBVIOUS
  <2>1. ref[p] \in Bufs /\ ref[p] # NoBuf /\ s \in Scopes
    BY <1>1, <2>0 DEF Cleanup, LockInv, TypeOK, ProcTypeOK, Request
  <2>2. pc[p] = "cleanup" /\ ShardFree(s) /\ Idle(p) /\ UNCHANGED <<holder, items, bytes, lastSeq, totalItems, plan>>
    BY <1>1, <2>0 DEF Cleanup
  <2>3. CASE StillUnused(s, ref[p])
    <3>1. s \in Mapped /\ DOMAIN items[scopes[s]] = {}
      BY <2>1, <2>3 DEF StillUnused, Mapped
    <3>2. bytes[scopes[s]] = 0 /\ Cardinality(DOMAIN items[scopes[s]]) = 0
      BY <3>1, MappedFacts, EmptyBytes
    <3>3. /\ scopes' = [scopes EXCEPT ![s] = NoBuf]
          /\ totalBytes' = totalBytes - ScopeBufferOverhead /\ scopeCount' = scopeCount - 1
      BY <1>1, <2>0, <2>3 DEF Cleanup
    <3>4. /\ totalBytes' = totalBytes - (bytes[scopes[s]] + ScopeBufferOverhead)
          /\ totalItems' = totalItems - Cardinality(DOMAIN items[scopes[s]])
      BY <2>2, <3>2, <3>3 DEF LockInv, TypeOK, CounterTypeOK
    <3>5. QED
      BY <2>2, <3>1, <3>3, <3>4, UnmapCount DEF BulkLabels
  <2>4. CASE ~ StillUnused(s, ref[p])
    <3>1. UNCHANGED <<scopes, totals>>
      BY <1>1, <2>0, <2>4 DEF Cleanup, totals
    <3>2. /\ \A t \in Scopes : Pending(t)' = Pending(t)
          /\ \A q \in Procs : pc'[q] = "rebuild" => pc[q] = "rebuild" /\ load'[q] = load[q]
      BY <2>2, <3>1, ReturnPending DEF BulkLabels
    <3>3. QED
      BY <2>2, <3>1, <3>2, QuietCount
  <2>5. QED
    BY <2>3, <2>4
<1>2. ASSUME NEW s \in Scopes, DeleteScope(p, s)
      PROVE  CountInv'
  <2>1. s \in Mapped
    BY <1>2 DEF DeleteScope, Mapped
  <2>2. QED
    BY <1>2, <2>1, UnmapCount DEF DeleteScope, BulkLabels
<1>3. QED
  BY <1>1, <1>2

----------------------------------------------------------------------------
(* /wipe and /rebuild *)

LEMMA DetachBufferCount ==
  ASSUME LockInv, CountInv, NEW p \in Procs, NEW s \in Scopes, DetachBuffer(p, s)
  PROVE  CountInv'
<1>1. UNCHANGED <<scopes, holder, items, bytes, lastSeq, totals, plan, pc, load>>
  BY DEF DetachBuffer, procVars
<1>2. \A t \in Scopes : Pending(t)' = Pending(t)
  BY <1>1, PendingFrame
<1>3. QED
  BY <1>1, <1>2, QuietCount

\* While one goroutine, or nobody, has every shard, nothing is reserved ahead.
LEMMA SolePending ==
  ASSUME LockInv, NEW p \in Procs \cup {NoProc}, \A sh \in Shards : holder[sh] = p,
         p \in Procs => pc[p] \in {"wipe", "rebuild"}, UNCHANGED plan
  PROVE  \A t \in Scopes : /\ plan[t].phase = "none" /\ ~ plan[t].new
                           /\ Pending(t) = 0 /\ Pending(t)' = 0
<1>1. \A t \in Scopes : plan[t].phase = "none" /\ ~ plan[t].new
  BY SoleBulk
<1>2. QED
  BY <1>1 DEF Pending

LEMMA LockAllCount ==
  ASSUME LockInv, CountInv, NEW p \in Procs, NEW label, LockAll(p, label),
         \A q \in Procs \ {p} : load'[q] = load[q],
         label = "rebuild" => SumFunctionOnSet(LoadBytes(load'[p]), Scopes) + ReservedOverhead <= MaxStoreBytes
  PROVE  CountInv'
<1>1. /\ \A sh \in Shards : holder[sh] = NoProc
      /\ UNCHANGED <<scopes, items, bytes, lastSeq, totals, plan>>
      /\ pc'[p] = label /\ \A q \in Procs \ {p} : pc'[q] = pc[q]
  BY DEF LockAll, AllShards, LockInv, TypeOK, ProcTypeOK, bufVars
<1>2. \A t \in Scopes : Pending(t) = 0 /\ Pending(t)' = 0
  BY <1>1, SolePending
<1>3. CountersExact'
  BY <1>1, <1>2, CountStay DEF CountInv
<1>4. OldOfAbsent' /\ SeqsIssued'
  BY <1>1 DEF OldOfAbsent, SeqsIssued, CountInv
<1>5. LoadFits'
  BY <1>1 DEF LoadFits, CountInv
<1>6. QED
  BY <1>3, <1>4, <1>5 DEF CountInv

LEMMA WipeRebuildCount ==
  ASSUME LockInv, CountInv, NEW p \in Procs, WipeLock(p) \/ \E ld \in Loads : RebuildLock(p, ld)
  PROVE  CountInv'
<1>1. CASE WipeLock(p)
  BY <1>1, LockAllCount DEF WipeLock
<1>2. ASSUME NEW ld \in Loads, RebuildLock(p, ld)
      PROVE  CountInv'
  <2>1. load'[p] = ld /\ \A q \in Procs \ {p} : load'[q] = load[q]
    BY <1>2 DEF RebuildLock, LockInv, TypeOK, ProcTypeOK
  <2>2. QED
    BY <1>2, <2>1, LockAllCount DEF RebuildLock
<1>3. QED
  BY <1>1, <1>2

\* What the scopes of a load and the reserved ones come to.
LEMMA LoadTotal ==
  ASSUME NEW ld \in [Scopes -> Batches \cup {NoBatch}],
         NEW g, \A s \in Scopes : g[s] = LoadBytes(ld)[s] + (IF s \in Reserved THEN ScopeBufferOverhead ELSE 0)
  PROVE  SumFunctionOnSet(g, Scopes) = SumFunctionOnSet(LoadBytes(ld), Scopes) + ReservedOverhead
<1> DEFINE c == [s \in Reserved |-> ScopeBufferOverhead]
           r == [s \in Scopes |-> IF s \in Reserved THEN ScopeBufferOverhead ELSE 0]
           f == LoadBytes(ld)
<1>1. \A s \in Scopes : f[s] \in Int
  BY LoadSums
<1>2. \A s \in Scopes : r[s] \in Int
  OBVIOUS
<1>2a. \A s \in Scopes : g[s] = f[s] + r[s]
  OBVIOUS
<1>3. /\ IsFiniteSet(Scopes) /\ Reserved \in SUBSET Scopes /\ IsFiniteSet(Reserved)
      /\ \A s \in Reserved : c[s] = ScopeBufferOverhead
      /\ \A s \in Scopes : r[s] = IF s \in Reserved THEN c[s] ELSE 0
  BY FS_Subset
<1> HIDE DEF c, r, f
<1>4. SumFunctionOnSet(g, Scopes) = SumFunctionOnSet(f, Scopes) + SumFunctionOnSet(r, Scopes)
  BY <1>1, <1>2, <1>2a, SumPlus, SMTT(40)
<1>5. SumFunctionOnSet(r, Scopes) = SumFunctionOnSet(c, Reserved)
  BY <1>3, SumRestrict, SMTT(40)
<1>6. SumFunctionOnSet(c, Reserved) = Cardinality(Reserved) * ScopeBufferOverhead
  BY <1>3, SumConstant
<1>7. QED
  BY <1>4, <1>5, <1>6 DEF f, ReservedOverhead

LEMMA SwapCount ==
  ASSUME LockInv, CountInv, NEW p \in Procs, pc[p] \in {"wipe", "rebuild"},
         NEW ld \in [Scopes -> Batches \cup {NoBatch}], Swap(p, ld),
         \A s \in Reserved : ld[s] = NoBatch
  PROVE  CountInv'
<1> DEFINE f == SwapBufs(ld)
           kept == KeptScopes(ld)
<1>1. /\ kept \subseteq Scopes
      /\ f \in [kept -> FreshBufs]
      /\ scopes' = [s \in Scopes |-> IF s \in kept THEN f[s] ELSE NoBuf]
      /\ \A s \in kept : /\ items'[f[s]] = BatchOf(ld, s)
                          /\ bytes'[f[s]] = BytesOf(BatchOf(ld, s), DOMAIN BatchOf(ld, s))
                          /\ lastSeq'[f[s]] = Cardinality(DOMAIN BatchOf(ld, s))
      /\ \A b \in Bufs : (\A s \in kept : f[s] # b) => items'[b] = items[b] /\ lastSeq'[b] = lastSeq[b]
  BY SwapEffect, ZenonT(60) DEF LockInv
<1>2. /\ totalBytes' = SumFunctionOnSet(LoadBytes(ld), Scopes) + ReservedOverhead
      /\ totalItems' = SumFunctionOnSet(LoadItems(ld), Scopes)
      /\ scopeCount' = Cardinality(kept) /\ Idle(p) /\ plan' = plan
  BY DEF Swap
<1>3. \A s \in Scopes : s \in kept <=> (s \in Reserved \/ ld[s] # NoBatch)
  BY DEF KeptScopes, WarmScopes
<1> HIDE DEF f, kept
<1>4. /\ \A s \in kept : scopes'[s] = f[s] /\ f[s] \in Bufs /\ f[s] # NoBuf
      /\ \A s \in Scopes : s \notin kept => scopes'[s] = NoBuf
  BY <1>1 DEF FreshBufs
<1>5. \A t \in Scopes : plan[t].phase = "none" /\ ~ plan[t].new /\ Pending(t)' = 0
  <2>1. \A sh \in Shards : holder[sh] = p
    BY DEF LockInv, LockDiscipline
  <2>2. QED
    BY <1>2, <2>1, SolePending
<1>6. \A s \in Scopes : ld[s] = NoBatch =>
         BatchOf(ld, s) = NoItems /\ BytesOf(BatchOf(ld, s), DOMAIN BatchOf(ld, s)) = 0
         /\ Cardinality(DOMAIN BatchOf(ld, s)) = 0
  BY NoItemsMap, EmptyBytes DEF BatchOf
<1>7. \A s \in Scopes : ld[s] # NoBatch => BatchOf(ld, s) = ld[s] /\ ld[s] \in Batches
  BY DEF BatchOf
<1>8. BytesAccounted'
  <2> DEFINE g == [s \in Scopes |-> ScopeShare(s)']
  <2>1. ASSUME NEW s \in Scopes
        PROVE  g[s] = LoadBytes(ld)[s] + (IF s \in Reserved THEN ScopeBufferOverhead ELSE 0)
    <3>0. g[s] = (IF scopes'[s] = NoBuf THEN 0 ELSE bytes'[scopes'[s]] + ScopeBufferOverhead) + 0
      BY <1>5 DEF ScopeShare
    <3>1. CASE s \in Reserved
      <4>1. ld[s] = NoBatch /\ s \in kept /\ LoadBytes(ld)[s] = 0
        BY <1>3, <3>1 DEF LoadBytes
      <4>2. bytes'[scopes'[s]] = 0 /\ scopes'[s] # NoBuf
        BY <1>1, <1>4, <1>6, <4>1
      <4>3. QED
        BY <3>0, <3>1, <4>1, <4>2
    <3>2. CASE s \notin Reserved /\ ld[s] # NoBatch
      <4>1. s \in kept /\ LoadBytes(ld)[s] = BytesOf(ld[s], DOMAIN ld[s]) + ScopeBufferOverhead
        BY <1>3, <3>2 DEF LoadBytes
      <4>2. bytes'[scopes'[s]] = BytesOf(ld[s], DOMAIN ld[s]) /\ scopes'[s] # NoBuf
        <5>1. scopes'[s] = f[s] /\ scopes'[s] # NoBuf /\ BatchOf(ld, s) = ld[s]
          BY <1>4, <1>7, <3>2, <4>1
        <5>2. bytes'[f[s]] = BytesOf(BatchOf(ld, s), DOMAIN BatchOf(ld, s))
          BY <1>1, <4>1
        <5>3. QED
          BY <5>1, <5>2
      <4>3. LoadBytes(ld)[s] \in Int
        BY LoadSums
      <4>4. QED
        BY <3>0, <3>2, <4>1, <4>2, <4>3
    <3>3. CASE s \notin Reserved /\ ld[s] = NoBatch
      <4>1. scopes'[s] = NoBuf /\ LoadBytes(ld)[s] = 0
        BY <1>3, <1>4, <3>3 DEF LoadBytes
      <4>2. QED
        BY <3>0, <3>3, <4>1
    <3>4. QED
      BY <3>1, <3>2, <3>3
  <2>2. BytesAccounted' <=> totalBytes' = SumFunctionOnSet(g, Scopes)
    BY DEF BytesAccounted
  <2> HIDE DEF g
  <2>3. SumFunctionOnSet(g, Scopes) = SumFunctionOnSet(LoadBytes(ld), Scopes) + ReservedOverhead
    BY <2>1, LoadTotal
  <2>4. QED
    BY <1>2, <2>2, <2>3
<1>9. BufferBytesExact'
  <2>1. \A s \in kept : bytes'[f[s]] = BytesOf(items'[f[s]], DOMAIN items'[f[s]])
    BY <1>1
  <2>2. QED
    BY <1>1, <1>4, <2>1 DEF BufferBytesExact, Mapped
<1>10. ItemsAccounted'
  <2> DEFINE g == [s \in Scopes |-> ItemsIn(s)']
             h == LoadItems(ld)
  <2>1. \A s \in Scopes : h[s] \in Int
    BY LoadSums
  <2>2. ASSUME NEW s \in Scopes
        PROVE  g[s] = h[s]
    <3>0. g[s] = IF scopes'[s] = NoBuf THEN 0 ELSE Cardinality(DOMAIN items'[scopes'[s]])
      BY DEF ItemsIn
    <3>1. CASE ld[s] # NoBatch
      <4>1. s \in kept /\ h[s] = Cardinality(DOMAIN ld[s])
        BY <1>3, <3>1 DEF LoadItems
      <4>2. items'[scopes'[s]] = ld[s] /\ scopes'[s] # NoBuf
        BY <1>1, <1>4, <1>7, <3>1, <4>1
      <4>3. QED
        BY <3>0, <4>1, <4>2
    <3>2. CASE ld[s] = NoBatch
      <4>1. h[s] = 0
        BY <3>2 DEF LoadItems
      <4>2. s \in kept => scopes'[s] # NoBuf /\ Cardinality(DOMAIN items'[scopes'[s]]) = 0
        BY <1>1, <1>4, <1>6, <3>2
      <4>3. QED
        BY <1>4, <3>0, <4>1, <4>2
    <3>3. QED
      BY <3>1, <3>2
  <2>3. ItemsAccounted' <=> totalItems' = SumFunctionOnSet(g, Scopes)
    BY DEF ItemsAccounted, ItemsIn
  <2>4. totalItems' = SumFunctionOnSet(h, Scopes)
    BY <1>2
  <2> HIDE DEF g, h
  <2>5. SumFunctionOnSet(g, Scopes) = SumFunctionOnSet(h, Scopes)
    BY <2>1, <2>2, SumEqual
  <2>6. QED
    BY <2>3, <2>4, <2>5
<1>11. ScopesAccounted'
  <2>1. {s \in Mapped : ~ plan[s].new}' = kept
    BY <1>1, <1>2, <1>4, <1>5 DEF Mapped
  <2>2. QED
    BY <1>2, <2>1 DEF ScopesAccounted
<1>12. OldOfAbsent'
  BY <1>2, <1>5 DEF OldOfAbsent
<1>13. SeqsIssued'
  <2>1. ASSUME NEW s \in kept
        PROVE  DOMAIN BatchOf(ld, s) \subseteq 1..Cardinality(DOMAIN BatchOf(ld, s))
    <3>1. CASE ld[s] = NoBatch
      BY <1>1, <1>6, <3>1, NoItemsMap
    <3>2. CASE ld[s] # NoBatch
      BY <1>1, <1>7, <3>2, BatchSeqs
    <3>3. QED
      BY <3>1, <3>2
  <2>2. ASSUME NEW b \in Bufs
        PROVE  DOMAIN items'[b] \subseteq 1..lastSeq'[b]
    <3>1. CASE \E s \in kept : f[s] = b
      BY <1>1, <2>1, <3>1
    <3>2. CASE \A s \in kept : f[s] # b
      BY <1>1, <3>2 DEF CountInv, SeqsIssued
    <3>3. QED
      BY <3>1, <3>2
  <2>3. QED
    BY <2>2 DEF SeqsIssued
<1>14. LoadFits'
  <2>1. pc'[p] = "idle" /\ \A q \in Procs \ {p} : pc'[q] = pc[q] /\ load'[q] = load[q]
    BY <1>2 DEF Idle, LockInv, TypeOK, ProcTypeOK
  <2>2. QED
    BY <2>1 DEF LoadFits, CountInv
<1>15. QED
  BY <1>8, <1>9, <1>10, <1>11, <1>12, <1>13, <1>14 DEF CountInv, CountersExact

LEMMA SwapsCount ==
  ASSUME LockInv, CountInv, NEW p \in Procs, WipeSwap(p) \/ RebuildSwap(p)
  PROVE  CountInv'
<1>1. CASE WipeSwap(p)
  <2>1. NoLoad \in [Scopes -> Batches \cup {NoBatch}] /\ \A s \in Reserved : NoLoad[s] = NoBatch
    BY NoRequestType DEF NoLoad
  <2>2. QED
    BY <1>1, <2>1, SwapCount DEF WipeSwap
<1>2. CASE RebuildSwap(p)
  <2>1. load[p] \in [Scopes -> Batches \cup {NoBatch}] /\ \A s \in Reserved : load[p][s] = NoBatch
    BY DEF LockInv, TypeOK, ProcTypeOK, UserScopesOnly
  <2>2. QED
    BY <1>2, <2>1, SwapCount DEF RebuildSwap
<1>3. QED
  BY <1>1, <1>2

----------------------------------------------------------------------------
(* /warm *)

\* A step of a /warm that moves neither a buffer nor a counter.
LEMMA PlanCount ==
  ASSUME LockInv, CountInv, UNCHANGED <<scopes, items, bytes, lastSeq, totals>>,
         \A t \in Scopes : Pending(t)' = Pending(t) /\ plan'[t].new = plan[t].new,
         OldOfAbsent',
         \A q \in Procs : pc'[q] = "rebuild" => pc[q] = "rebuild" /\ load'[q] = load[q]
  PROVE  CountInv'
<1>1. CountersExact'
  BY CountStay DEF CountInv
<1>2. LoadFits' /\ SeqsIssued'
  BY DEF LoadFits, SeqsIssued, CountInv
<1>3. QED
  BY <1>1, <1>2 DEF CountInv

LEMMA WarmLockCount ==
  ASSUME LockInv, CountInv, NEW p \in Procs, NEW ld \in Loads, WarmLock(p, ld)
  PROVE  CountInv'
<1>1. /\ pc[p] = "idle" /\ pc'[p] = "warm"
      /\ \A q \in Procs \ {p} : pc'[q] = pc[q] /\ load'[q] = load[q]
      /\ UNCHANGED <<scopes, items, bytes, lastSeq, totals>>
  BY DEF WarmLock, LockInv, TypeOK, ProcTypeOK, bufVars
<1>2. /\ \A s \in WarmScopes(ld) : ShardFree(s) /\ s \in Scopes
      /\ \A s \in Scopes : s \in WarmScopes(ld) => plan'[s] = [NoPlan EXCEPT !.phase = "todo"]
      /\ \A s \in Scopes : s \notin WarmScopes(ld) => plan'[s] = plan[s]
  BY DEF WarmLock, WarmScopes
<1>3. [NoPlan EXCEPT !.phase = "todo"].phase = "todo" /\ [NoPlan EXCEPT !.phase = "todo"].new = FALSE
  BY DEF NoPlan
<1>4. \A sh \in Shards : holder[sh] # NoProc => holder'[sh] = holder[sh]
  BY DEF WarmLock, ShardFree
<1>5. ASSUME NEW t \in Scopes
      PROVE  Pending(t)' = Pending(t) /\ plan'[t].new = plan[t].new
  <2>1. CASE t \in WarmScopes(ld)
    <3>1. plan'[t].phase = "todo" /\ plan'[t].new = FALSE
      BY <1>2, <1>3, <2>1
    <3>2. ~ plan[t].new /\ Pending(t) = 0 /\ plan[t] \in Plan
      BY <1>2, <2>1, FreeShardNoPlan DEF LockInv, TypeOK, LockTypeOK
    <3>3. plan[t].new = FALSE
      BY <3>2 DEF Plan
    <3>4. QED
      BY <3>1, <3>2, <3>3 DEF Pending
  <2>2. CASE t \notin WarmScopes(ld)
    <3>1. plan'[t] = plan[t]
      BY <1>2, <2>2
    <3>2. ASSUME plan[t].phase = "reserved"
          PROVE  /\ holder'[ShardOf[t]] = holder[ShardOf[t]]
                 /\ load'[holder[ShardOf[t]]] = load[holder[ShardOf[t]]]
      <4>1. holder[ShardOf[t]] # NoProc /\ holder[ShardOf[t]] \in Procs /\ pc[holder[ShardOf[t]]] = "warm"
        BY <3>2 DEF LockInv, LockDiscipline, ShardFree, TypeOK, LockTypeOK
      <4>2. QED
        BY <1>1, <1>4, <4>1
    <3>3. QED
      BY <1>1, <3>1, <3>2, PendingFrame
  <2>3. QED
    BY <2>1, <2>2
<1>6. OldOfAbsent'
  BY <1>1, <1>2, <1>3 DEF OldOfAbsent, CountInv
<1>7. QED
  BY <1>1, <1>5, <1>6, PlanCount

LEMMA WarmSnapshotCount ==
  ASSUME LockInv, CountInv, NEW p \in Procs, NEW s \in Scopes, WarmSnapshot(p, s)
  PROVE  CountInv'
<1>1. UNCHANGED <<scopes, holder, items, bytes, lastSeq, totals, pc, load>> /\ plan[s].phase = "todo"
  BY DEF WarmSnapshot, bufVars, procVars
<1>2. /\ plan'[s].phase = "snap" /\ plan'[s].new = FALSE
      /\ scopes[s] = NoBuf => plan'[s].old = 0
      /\ \A t \in Scopes \ {s} : plan'[t] = plan[t]
  BY DEF WarmSnapshot, LockInv, TypeOK, LockTypeOK
<1>3. plan[s].new = FALSE
  <2>1. plan[s] \in Plan /\ ~ plan[s].new
    BY <1>1 DEF LockInv, LockDiscipline, TypeOK, LockTypeOK
  <2>2. QED
    BY <2>1 DEF Plan
<1>4. ASSUME NEW t \in Scopes
      PROVE  Pending(t)' = Pending(t) /\ plan'[t].new = plan[t].new
  <2>1. CASE t = s
    BY <1>1, <1>2, <1>3, <2>1 DEF Pending
  <2>2. CASE t # s
    BY <1>1, <1>2, <2>2, PendingFrame
  <2>3. QED
    BY <2>1, <2>2
<1>5. OldOfAbsent'
  BY <1>1, <1>2 DEF OldOfAbsent, CountInv
<1>6. QED
  BY <1>1, <1>4, <1>5, PlanCount

\* The reservation of a /warm: every scope of the batch gets its part of the sum.
LEMMA WarmReserveCount ==
  ASSUME LockInv, CountInv, NEW p \in Procs, WarmReserve(p)
  PROVE  CountInv'
<1>1. /\ pc[p] = "warm" /\ \A s \in PlanScopes(p) : plan[s].phase = "snap"
      /\ totalBytes' = totalBytes + TotalDelta(load[p])
      /\ UNCHANGED <<scopes, holder, items, bytes, lastSeq, totalItems, scopeCount, pc, load>>
  BY DEF WarmReserve, bufVars, procVars
<1>2. load[p] \in [Scopes -> Batches \cup {NoBatch}] /\ plan \in [Scopes -> Plan]
  BY DEF LockInv, TypeOK, ProcTypeOK, LockTypeOK
<1>3. /\ \A s \in Scopes : s \in PlanScopes(p) => plan'[s] = [plan[s] EXCEPT !.phase = "reserved"]
      /\ \A s \in Scopes : s \notin PlanScopes(p) => plan'[s] = plan[s]
  BY DEF WarmReserve
<1>4. \A s \in Scopes : plan'[s].new = plan[s].new /\ plan'[s].old = plan[s].old
  <2>1. \A pl \in Plan : /\ [pl EXCEPT !.phase = "reserved"].new = pl.new
                         /\ [pl EXCEPT !.phase = "reserved"].old = pl.old
    BY DEF Plan
  <2>2. QED
    BY <1>2, <1>3, <2>1
<1>5. \A s \in PlanScopes(p) : s \in Scopes /\ plan'[s].phase = "reserved" /\ holder[ShardOf[s]] = p
  <2>1. \A pl \in Plan : [pl EXCEPT !.phase = "reserved"].phase = "reserved"
    BY DEF Plan
  <2>2. \A s \in PlanScopes(p) : s \in Scopes /\ holder[ShardOf[s]] = p
    BY <1>1 DEF LockInv, LockDiscipline, PlanScopes, WarmScopes
  <2>3. ASSUME NEW s \in PlanScopes(p)
        PROVE  plan'[s].phase = "reserved"
    <3>1. plan[s] \in Plan /\ plan'[s] = [plan[s] EXCEPT !.phase = "reserved"]
      BY <1>2, <1>3, <2>2
    <3>2. QED
      BY <2>1, <3>1
  <2>4. QED
    BY <2>2, <2>3
<1> DEFINE d == [s \in Scopes |-> IF s \in WarmScopes(load[p]) THEN PlanDelta(load[p], s) ELSE 0]
           f == [s \in Scopes |-> ScopeShare(s)]
           g == [s \in Scopes |-> ScopeShare(s)']
<1>6. ASSUME NEW s \in Scopes
      PROVE  d[s] \in Int /\ f[s] \in Int /\ g[s] = f[s] + d[s]
  <2>1. d[s] \in Int
    BY <1>2, PlanSums DEF LockInv
  <2>2. f[s] \in Int /\ Pending(s) \in Int
    BY ShareInt
  <2>3. Pending(s)' = Pending(s) + d[s]
    <3>1. CASE s \in PlanScopes(p)
      <4>1. Pending(s) = 0
        BY <1>1, <3>1 DEF Pending
      <4>2. d[s] = PlanDelta(load[p], s)
        BY <3>1 DEF PlanScopes
      <4>3. Pending(s)' = PlanDelta(load[p], s)
        BY <1>1, <1>4, <1>5, <3>1 DEF Pending, PlanDelta
      <4>4. QED
        BY <2>1, <4>1, <4>2, <4>3
    <3>2. CASE s \notin PlanScopes(p)
      <4>1. d[s] = 0
        BY <3>2 DEF PlanScopes
      <4>2. Pending(s)' = Pending(s)
        BY <1>1, <1>3, <3>2, PendingFrame
      <4>3. QED
        BY <2>2, <4>1, <4>2
    <3>3. QED
      BY <3>1, <3>2
  <2>4. scopes[s] # NoBuf => bytes[scopes[s]] \in Int
    BY DEF LockInv, TypeOK, HeapTypeOK
  <2> HIDE DEF d
  <2>5. QED
    BY <1>1, <2>1, <2>2, <2>3, <2>4 DEF ScopeShare
<1>7. BytesAccounted'
  <2>1. totalBytes = SumFunctionOnSet(f, Scopes)
    BY DEF CountInv, CountersExact, BytesAccounted
  <2>2. TotalDelta(load[p]) = SumFunctionOnSet(d, Scopes)
    BY DEF TotalDelta
  <2>3. BytesAccounted' <=> totalBytes' = SumFunctionOnSet(g, Scopes)
    BY DEF BytesAccounted
  <2> HIDE DEF d, f, g
  <2>4. SumFunctionOnSet(g, Scopes) = SumFunctionOnSet(f, Scopes) + SumFunctionOnSet(d, Scopes)
    BY <1>6, SumPlus
  <2>5. QED
    BY <1>1, <2>1, <2>2, <2>3, <2>4
<1>8. BufferBytesExact' /\ ItemsAccounted'
  BY <1>1 DEF CountInv, CountersExact, BufferBytesExact, ItemsAccounted, Mapped
<1>9. ScopesAccounted'
  BY <1>1, <1>4 DEF CountInv, CountersExact, ScopesAccounted, Mapped
<1>10. OldOfAbsent'
  BY <1>1, <1>3, <1>4, <1>5 DEF OldOfAbsent, CountInv
<1>11. LoadFits' /\ SeqsIssued'
  BY <1>1 DEF LoadFits, SeqsIssued, CountInv
<1>12. QED
  BY <1>7, <1>8, <1>9, <1>10, <1>11 DEF CountInv, CountersExact

\* A /warm that returns takes its plans and locks along and leaves the others'.
LEMMA WarmReturnPending ==
  ASSUME LockInv, NEW p \in Procs, pc[p] = "warm", Unlock(p), ClearPlans(p), Idle(p) \/ Committed(p),
         UNCHANGED scopes, \A s \in PlanScopes(p) : plan[s].phase # "reserved"
  PROVE  /\ \A t \in Scopes : Pending(t)' = Pending(t)
         /\ \A t \in Scopes : t \in PlanScopes(p) => plan'[t] = NoPlan
         /\ \A t \in Scopes : t \notin PlanScopes(p) => plan'[t] = plan[t]
         /\ \A q \in Procs : pc'[q] = "rebuild" => pc[q] = "rebuild" /\ load'[q] = load[q]
<1>1. /\ pc'[p] \in {"idle", "emit"}
      /\ \A q \in Procs \ {p} : pc'[q] = pc[q] /\ load'[q] = load[q]
  BY ReturnFacts DEF LockInv
<1>2. /\ \A t \in Scopes : t \in PlanScopes(p) => plan'[t] = NoPlan
      /\ \A t \in Scopes : t \notin PlanScopes(p) => plan'[t] = plan[t]
  BY DEF ClearPlans
<1>3. ASSUME NEW t \in Scopes
      PROVE  Pending(t)' = Pending(t)
  <2>1. CASE t \in PlanScopes(p)
    BY <1>2, <2>1 DEF Pending, NoPlan
  <2>2. CASE t \notin PlanScopes(p)
    <3>1. ASSUME plan[t].phase = "reserved"
          PROVE  /\ holder'[ShardOf[t]] = holder[ShardOf[t]]
                 /\ load'[holder[ShardOf[t]]] = load[holder[ShardOf[t]]]
      <4>1. holder[ShardOf[t]] \in Procs \ {p}
        BY <2>2, <3>1 DEF LockInv, LockDiscipline, ShardFree, TypeOK, LockTypeOK
      <4>2. QED
        BY <1>1, <4>1 DEF Unlock
    <3>2. QED
      BY <1>2, <2>2, <3>1, PendingFrame
  <2>3. QED
    BY <2>1, <2>2
<1>4. QED
  BY <1>1, <1>2, <1>3

LEMMA WarmRefusedCount ==
  ASSUME LockInv, CountInv, NEW p \in Procs, WarmRefused(p)
  PROVE  CountInv'
<1>1. /\ pc[p] = "warm" /\ \A s \in PlanScopes(p) : plan[s].phase = "snap"
      /\ Unlock(p) /\ ClearPlans(p) /\ Idle(p)
      /\ UNCHANGED <<scopes, items, bytes, lastSeq, totals>>
  BY DEF WarmRefused, bufVars
<1>2. /\ \A t \in Scopes : Pending(t)' = Pending(t)
      /\ \A t \in Scopes : t \in PlanScopes(p) => plan'[t] = NoPlan
      /\ \A t \in Scopes : t \notin PlanScopes(p) => plan'[t] = plan[t]
      /\ \A q \in Procs : pc'[q] = "rebuild" => pc[q] = "rebuild" /\ load'[q] = load[q]
  BY <1>1, WarmReturnPending
<1>3. ASSUME NEW t \in Scopes
      PROVE  plan'[t].new = plan[t].new
  <2>1. plan[t] \in Plan /\ (t \in PlanScopes(p) => ~ plan[t].new)
    BY <1>1 DEF LockInv, LockDiscipline, TypeOK, LockTypeOK
  <2>2. t \in PlanScopes(p) => plan[t].new = FALSE
    BY <2>1 DEF Plan
  <2>3. NoPlan.new = FALSE
    BY DEF NoPlan
  <2>4. CASE t \in PlanScopes(p)
    BY <1>2, <2>2, <2>3, <2>4, Zenon
  <2>5. CASE t \notin PlanScopes(p)
    BY <1>2, <2>5, Zenon
  <2>6. QED
    BY <2>4, <2>5
<1>4. OldOfAbsent'
  BY <1>1, <1>2 DEF OldOfAbsent, CountInv, NoPlan
<1>5. QED
  BY <1>1, <1>2, <1>3, <1>4, PlanCount

LEMMA WarmFinishCount ==
  ASSUME LockInv, CountInv, NEW p \in Procs, WarmFinish(p)
  PROVE  CountInv'
<1>1. /\ pc[p] = "warm" /\ \A s \in PlanScopes(p) : plan[s].phase = "done"
      /\ scopeCount' = scopeCount + Cardinality(NewScopes(p))
      /\ Unlock(p) /\ ClearPlans(p) /\ Committed(p)
      /\ UNCHANGED <<scopes, items, bytes, lastSeq, totalBytes, totalItems>>
  BY DEF WarmFinish, bufVars
<1>2. /\ \A t \in Scopes : Pending(t)' = Pending(t)
      /\ \A t \in Scopes : t \in PlanScopes(p) => plan'[t] = NoPlan
      /\ \A t \in Scopes : t \notin PlanScopes(p) => plan'[t] = plan[t]
      /\ \A q \in Procs : pc'[q] = "rebuild" => pc[q] = "rebuild" /\ load'[q] = load[q]
  BY <1>1, WarmReturnPending
<1>3. BytesAccounted'
  <2>1. \A t \in Scopes : ScopeShare(t)' = ScopeShare(t)
    BY <1>1, <1>2 DEF ScopeShare
  <2>2. QED
    BY <1>1, <2>1, BytesStay DEF CountInv, CountersExact
<1>4. BufferBytesExact' /\ ItemsAccounted'
  BY <1>1 DEF CountInv, CountersExact, BufferBytesExact, ItemsAccounted, Mapped
<1>5. ScopesAccounted'
  <2> DEFINE C == {t \in Mapped : ~ plan[t].new}
             N == NewScopes(p)
  <2>1. C \cap N = {} /\ N \subseteq Mapped /\ C \subseteq Scopes /\ N \subseteq Scopes
    BY DEF NewScopes, PlanScopes, WarmScopes, LockInv, LockDiscipline, Mapped
  <2>2. IsFiniteSet(C) /\ IsFiniteSet(N)
    BY <2>1, FS_Subset
  <2>3. {t \in Mapped : ~ plan[t].new}' = C \cup N
    <3>1. ASSUME NEW t \in Mapped
          PROVE  ~ plan'[t].new <=> (t \in C \/ t \in N)
      <4>1. CASE t \in PlanScopes(p)
        BY <1>2, <4>1 DEF NewScopes, NoPlan, Mapped
      <4>2. CASE t \notin PlanScopes(p)
        BY <1>2, <4>2 DEF NewScopes, Mapped
      <4>3. QED
        BY <4>1, <4>2
    <3>2. Mapped' = Mapped
      BY <1>1 DEF Mapped
    <3>3. QED
      BY <2>1, <3>1, <3>2
  <2> HIDE DEF N, C
  <2>4. Cardinality(C \cup N) = Cardinality(C) + Cardinality(N)
    <3>1. Cardinality(C \cup N) = Cardinality(C) + Cardinality(N) - Cardinality(C \cap N)
      BY <2>2, FS_Union
    <3>2. Cardinality(C \cap N) = 0 /\ Cardinality(C) \in Nat /\ Cardinality(N) \in Nat
      BY <2>1, <2>2, FS_EmptySet, FS_CardinalityType
    <3>3. QED
      BY <3>1, <3>2
  <2>5. QED
    BY <1>1, <2>3, <2>4 DEF CountInv, CountersExact, ScopesAccounted, N, C
<1>6. OldOfAbsent'
  BY <1>1, <1>2 DEF OldOfAbsent, CountInv, NoPlan
<1>7. LoadFits' /\ SeqsIssued'
  BY <1>1, <1>2 DEF LoadFits, SeqsIssued, CountInv
<1>8. QED
  BY <1>3, <1>4, <1>5, <1>6, <1>7 DEF CountInv, CountersExact

\* The plan a step of a running /warm works on.
LEMMA PlanOwner ==
  ASSUME LockInv, NEW p \in Procs, NEW s \in Scopes, pc[p] = "warm", s \in PlanScopes(p)
  PROVE  /\ holder[ShardOf[s]] = p /\ plan[s] \in Plan /\ plan[s].old \in Int
         /\ load[p][s] \in Batches /\ IsItemMap(load[p][s])
         /\ BytesOf(load[p][s], DOMAIN load[p][s]) \in Int
         /\ Cardinality(DOMAIN load[p][s]) \in Int
         /\ DOMAIN load[p][s] \subseteq 1..Cardinality(DOMAIN load[p][s])
<1>1. holder[ShardOf[s]] = p /\ plan[s] \in Plan
  BY DEF LockInv, LockDiscipline, TypeOK, LockTypeOK
<1>2. plan[s].old \in Int
  BY <1>1 DEF Plan
<1>3. load[p][s] \in Batches
  BY DEF LockInv, TypeOK, ProcTypeOK, PlanScopes, WarmScopes
<1>4. QED
  BY <1>1, <1>2, <1>3, BatchFacts, BatchSeqs

\* A plan whose phase moves on.
LEMMA PhaseFields ==
  ASSUME NEW pl \in Plan
  PROVE  /\ [pl EXCEPT !.phase = "done"].phase = "done"
         /\ [pl EXCEPT !.phase = "done"].new = pl.new
         /\ [pl EXCEPT !.phase = "done", !.new = TRUE].phase = "done"
         /\ [pl EXCEPT !.phase = "done", !.new = TRUE].new = TRUE
BY DEF Plan

LEMMA WarmCommitCount ==
  ASSUME LockInv, CountInv, NEW p \in Procs, NEW s \in Scopes, WarmCommit(p, s)
  PROVE  CountInv'
<1>0. PICK b, m, n : b = scopes[s] /\ m = load[p][s] /\ n = BytesOf(load[p][s], DOMAIN load[p][s])
  OBVIOUS
<1>1. /\ pc[p] = "warm" /\ s \in PlanScopes(p) /\ plan[s].phase = "reserved" /\ b # NoBuf
      /\ UNCHANGED <<scopes, holder, scopeCount, pc, load>>
      /\ totalBytes' = totalBytes - (bytes[b] - plan[s].old)
      /\ totalItems' = totalItems + (Cardinality(DOMAIN m) - Cardinality(DOMAIN items[b]))
  BY <1>0 DEF WarmCommit, procVars, CommitReplacementPreReserved, Drift, ItemsDelta
<1>2. s \in Mapped /\ b \in Bufs
  BY <1>0, <1>1 DEF Mapped, LockInv, TypeOK, HeapTypeOK
<1>3. /\ items'[b] = m /\ bytes'[b] = n /\ lastSeq'[b] = Cardinality(DOMAIN m)
      /\ \A c \in Bufs \ {b} : items'[c] = items[c] /\ bytes'[c] = bytes[c] /\ lastSeq'[c] = lastSeq[c]
  BY <1>0, <1>2 DEF WarmCommit, CommitReplacementPreReserved, LockInv, TypeOK, HeapTypeOK
<1>4. /\ holder[ShardOf[s]] = p /\ plan[s] \in Plan /\ plan[s].old \in Int
      /\ IsItemMap(m) /\ n \in Int /\ n = BytesOf(m, DOMAIN m) /\ Cardinality(DOMAIN m) \in Int
      /\ DOMAIN m \subseteq 1..Cardinality(DOMAIN m)
  BY <1>0, <1>1, PlanOwner
<1>5. bytes[b] \in Int /\ Cardinality(DOMAIN items[b]) \in Int /\ totalBytes \in Int /\ totalItems \in Int
  BY <1>0, <1>2, MappedFacts DEF LockInv, TypeOK, CounterTypeOK
<1>6. /\ plan'[s] = [plan[s] EXCEPT !.phase = "done"]
      /\ \A t \in Scopes \ {s} : plan'[t] = plan[t]
  BY DEF WarmCommit, LockInv, TypeOK, LockTypeOK
<1>7. plan'[s].phase = "done" /\ plan'[s].new = plan[s].new
  BY <1>4, <1>6, PhaseFields
<1>8. Pending(s) = n - plan[s].old /\ Pending(s)' = 0
  <2>1. PlanDelta(load[p], s) = n - plan[s].old + 0
    BY <1>0, <1>1 DEF PlanDelta
  <2>2. QED
    BY <1>1, <1>4, <1>7, <2>1 DEF Pending
<1>9. \A t \in Scopes \ {s} : Pending(t)' = Pending(t)
  BY <1>1, <1>6, PendingFrame
<1>10. CountersExact'
  <2>1. PICK e \in Int : e = plan[s].old - n
    BY <1>4
  <2>2. Pending(s)' = Pending(s) + e
    BY <1>4, <1>8, <2>1
  <2>3. totalBytes' = totalBytes + (BytesOf(m, DOMAIN m) - bytes[scopes[s]] + e)
    <3>1. PICK o, x : o = plan[s].old /\ x = bytes[b]
      OBVIOUS
    <3>2. totalBytes' = totalBytes - (x - o) /\ e = o - n
      BY <1>1, <2>1, <3>1, Zenon
    <3>3. o \in Int /\ x \in Int /\ n \in Int /\ totalBytes \in Int
      BY <1>4, <1>5, <3>1, Zenon
    <3>4. totalBytes' = totalBytes + (n - x + e)
      BY <3>2, <3>3
    <3>5. n = BytesOf(m, DOMAIN m) /\ x = bytes[scopes[s]]
      BY <1>0, <1>4, <3>1, Zenon
    <3>6. QED
      BY <3>4, <3>5, Zenon
  <2>4. /\ items'[scopes[s]] = m /\ bytes'[scopes[s]] = BytesOf(m, DOMAIN m)
        /\ \A c \in Bufs \ {scopes[s]} : items'[c] = items[c] /\ bytes'[c] = bytes[c]
        /\ totalItems' = totalItems + (Cardinality(DOMAIN m) - Cardinality(DOMAIN items[scopes[s]]))
    BY <1>0, <1>1, <1>3, <1>4
  <2>5. \A t \in Scopes : plan'[t].new = plan[t].new
    BY <1>6, <1>7
  <2>6. QED
    BY <1>1, <1>2, <1>4, <1>9, <2>2, <2>3, <2>4, <2>5, ContentsMove DEF CountInv
<1>11. OldOfAbsent'
  BY <1>0, <1>1, <1>6 DEF OldOfAbsent, CountInv
<1>12. SeqsIssued'
  BY <1>3, <1>4 DEF SeqsIssued, CountInv
<1>13. LoadFits'
  BY <1>1 DEF LoadFits, CountInv
<1>14. QED
  BY <1>10, <1>11, <1>12, <1>13 DEF CountInv

LEMMA WarmCreateCount ==
  ASSUME LockInv, CountInv, NEW p \in Procs, NEW s \in Scopes, WarmCreate(p, s)
  PROVE  CountInv'
<1>0. PICK m, n : m = load[p][s] /\ n = BytesOf(load[p][s], DOMAIN load[p][s])
  OBVIOUS
<1>1. /\ pc[p] = "warm" /\ s \in PlanScopes(p) /\ plan[s].phase = "reserved" /\ scopes[s] = NoBuf
      /\ FreshBufs # {} /\ UNCHANGED <<holder, totalBytes, scopeCount, pc, load>>
      /\ totalItems' = totalItems + Cardinality(DOMAIN m)
  BY <1>0 DEF WarmCreate, procVars
<1>2. NewBuf \in Bufs /\ NewBuf # NoBuf
  BY <1>1, FreshFacts
<1>3. /\ scopes'[s] = NewBuf /\ \A t \in Scopes \ {s} : scopes'[t] = scopes[t]
      /\ items'[NewBuf] = m /\ bytes'[NewBuf] = n /\ lastSeq'[NewBuf] = Cardinality(DOMAIN m)
      /\ \A c \in Bufs \ {NewBuf} : items'[c] = items[c] /\ bytes'[c] = bytes[c] /\ lastSeq'[c] = lastSeq[c]
  BY <1>0, <1>2 DEF WarmCreate, LockInv, TypeOK, HeapTypeOK
<1>4. /\ holder[ShardOf[s]] = p /\ plan[s] \in Plan
      /\ IsItemMap(m) /\ n \in Int /\ n = BytesOf(m, DOMAIN m) /\ Cardinality(DOMAIN m) \in Int
      /\ DOMAIN m \subseteq 1..Cardinality(DOMAIN m)
  BY <1>0, <1>1, PlanOwner
<1>5. plan[s].old = 0
  BY <1>1 DEF CountInv, OldOfAbsent
<1>6. /\ plan'[s] = [plan[s] EXCEPT !.phase = "done", !.new = TRUE]
      /\ \A t \in Scopes \ {s} : plan'[t] = plan[t]
  BY DEF WarmCreate, LockInv, TypeOK, LockTypeOK
<1>7. plan'[s].phase = "done" /\ plan'[s].new = TRUE
  BY <1>4, <1>6, PhaseFields
<1>8. Pending(s) = n + ScopeBufferOverhead /\ Pending(s)' = 0
  <2>1. PlanDelta(load[p], s) = n - 0 + ScopeBufferOverhead
    BY <1>0, <1>1, <1>5 DEF PlanDelta
  <2>2. QED
    BY <1>1, <1>4, <1>7, <2>1 DEF Pending
<1>9. \A t \in Scopes \ {s} : Pending(t)' = Pending(t)
  BY <1>1, <1>3, <1>6, PendingFrame
<1>10. BytesAccounted' /\ BufferBytesExact' /\ ItemsAccounted'
  <2>1. PICK e \in Int : e = 0 - (n + ScopeBufferOverhead)
    BY <1>4
  <2>2. Pending(s)' = Pending(s) + e
    BY <1>4, <1>8, <2>1
  <2>3. totalBytes' = totalBytes + (BytesOf(m, DOMAIN m) + ScopeBufferOverhead + e)
    BY <1>1, <1>4, <2>1 DEF LockInv, TypeOK, CounterTypeOK
  <2>4. bytes'[NewBuf] = BytesOf(m, DOMAIN m)
    BY <1>3, <1>4
  <2>5. QED
    BY <1>1, <1>3, <1>4, <1>9, <2>2, <2>3, <2>4, Publish, ZenonT(60) DEF CountInv
<1>11. ScopesAccounted'
  <2>1. {t \in Mapped : ~ plan[t].new}' = {t \in Mapped : ~ plan[t].new}
    <3>1. ASSUME NEW t \in Scopes
          PROVE  (scopes'[t] # NoBuf /\ ~ plan'[t].new) <=> (scopes[t] # NoBuf /\ ~ plan[t].new)
      <4>1. CASE t = s
        BY <1>1, <1>7, <4>1
      <4>2. CASE t # s
        BY <1>3, <1>6, <4>2
      <4>3. QED
        BY <4>1, <4>2
    <3>2. QED
      BY <3>1 DEF Mapped
  <2>2. QED
    BY <1>1, <2>1 DEF CountInv, CountersExact, ScopesAccounted
<1>12. OldOfAbsent'
  BY <1>2, <1>3, <1>6 DEF OldOfAbsent, CountInv
<1>13. SeqsIssued'
  BY <1>3, <1>4 DEF SeqsIssued, CountInv
<1>14. LoadFits'
  BY <1>1 DEF LoadFits, CountInv
<1>15. QED
  BY <1>10, <1>11, <1>12, <1>13, <1>14 DEF CountInv, CountersExact

----------------------------------------------------------------------------
(* The counters are exact *)

\* An empty load comes to nothing.
LEMMA NoLoadBytes == SumFunctionOnSet(LoadBytes(NoLoad), Scopes) = 0
<1> DEFINE z == LoadBytes(NoLoad)
<1>1. \A s \in Scopes : z[s] = 0
  BY DEF LoadBytes, NoLoad
<1>2. PICK c \in Nat : c = 0
  OBVIOUS
<1>3. SumFunctionOnSet(z, Scopes) = Cardinality(Scopes) * c
  <2> HIDE DEF z
  <2> QED BY <1>1, <1>2, SumConstant
<1>4. Cardinality(Scopes) \in Nat
  BY FS_CardinalityType
<1>5. QED
  BY <1>2, <1>3, <1>4

LEMMA InitCount == Init => CountInv
<1> SUFFICES ASSUME Init PROVE CountInv
  OBVIOUS
<1>1. PICK f \in [Reserved -> Bufs] : scopes = [s \in Scopes |-> IF s \in Reserved THEN f[s] ELSE NoBuf]
  BY HeapRoom DEF Init, ExistsInjection, Injection
<1>2. /\ \A b \in Bufs : items[b] = NoItems /\ bytes[b] = 0 /\ lastSeq[b] = 0
      /\ \A s \in Scopes : plan[s].phase = "none" /\ ~ plan[s].new
      /\ \A q \in Procs : pc[q] = "idle"
  BY DEF Init, NoPlan
<1>3. /\ \A s \in Reserved : s \in Scopes /\ scopes[s] \in Bufs /\ scopes[s] # NoBuf
      /\ \A s \in Scopes \ Reserved : scopes[s] = NoBuf
      /\ Mapped = Reserved
  BY <1>1 DEF Mapped
<1>4. BytesOf(NoItems, DOMAIN NoItems) = 0 /\ Cardinality(DOMAIN NoItems) = 0 /\ DOMAIN NoItems = {}
  BY NoItemsMap, EmptyBytes
<1>5. BytesAccounted
  <2> DEFINE g == [s \in Scopes |-> ScopeShare(s)]
             z == LoadBytes(NoLoad)
  <2>1. \A s \in Scopes : z[s] = 0
    BY DEF LoadBytes, NoLoad
  <2>2. ASSUME NEW s \in Scopes
        PROVE  g[s] = LoadBytes(NoLoad)[s] + (IF s \in Reserved THEN ScopeBufferOverhead ELSE 0)
    <3>1. Pending(s) = 0
      BY <1>2 DEF Pending
    <3>2. QED
      BY <1>2, <1>3, <2>1, <3>1 DEF ScopeShare
  <2>3. SumFunctionOnSet(z, Scopes) = 0
    BY NoLoadBytes
  <2>4. NoLoad \in [Scopes -> Batches \cup {NoBatch}] /\ ReservedOverhead \in Int
    BY NoRequestType, LoadSums
  <2>5. SumFunctionOnSet(g, Scopes) = SumFunctionOnSet(LoadBytes(NoLoad), Scopes) + ReservedOverhead
    <3> HIDE DEF g
    <3> QED BY <2>2, <2>4, LoadTotal
  <2>6. totalBytes = ReservedOverhead
    BY DEF Init
  <2>7. QED
    BY <2>3, <2>4, <2>5, <2>6 DEF BytesAccounted
<1>6. BufferBytesExact
  BY <1>2, <1>3, <1>4 DEF BufferBytesExact
<1>7. ItemsAccounted
  <2> DEFINE g == [s \in Scopes |-> ItemsIn(s)]
  <2>1. \A s \in Scopes : g[s] = 0
    BY <1>2, <1>3, <1>4 DEF ItemsIn
  <2>2. ItemsAccounted <=> totalItems = SumFunctionOnSet(g, Scopes)
    BY DEF ItemsAccounted, ItemsIn
  <2>3. SumFunctionOnSet(g, Scopes) = 0
    <3>1. PICK c \in Nat : c = 0
      OBVIOUS
    <3>2. SumFunctionOnSet(g, Scopes) = Cardinality(Scopes) * c
      <4> HIDE DEF g
      <4> QED BY <2>1, <3>1, SumConstant
    <3>3. Cardinality(Scopes) \in Nat
      BY FS_CardinalityType
    <3>4. QED
      BY <3>1, <3>2, <3>3
  <2>4. QED
    BY <2>2, <2>3 DEF Init
<1>8. ScopesAccounted
  <2>1. {s \in Mapped : ~ plan[s].new} = Reserved
    BY <1>2, <1>3
  <2>2. QED
    BY <2>1 DEF Init, ScopesAccounted
<1>9. OldOfAbsent /\ LoadFits
  BY <1>2 DEF OldOfAbsent, LoadFits
<1>10. SeqsIssued
  BY <1>2, <1>4 DEF SeqsIssued
<1>11. QED
  BY <1>5, <1>6, <1>7, <1>8, <1>9, <1>10 DEF CountInv, CountersExact

LEMMA StutterCount ==
  ASSUME LockInv, CountInv, UNCHANGED vars
  PROVE  CountInv'
<1>1. UNCHANGED <<scopes, holder, items, bytes, lastSeq, totals, plan, pc, load>>
  BY DEF vars, bufVars, procVars
<1>2. \A t \in Scopes : Pending(t)' = Pending(t)
  BY <1>1, PendingFrame
<1>3. QED
  BY <1>1, <1>2, QuietCount

LEMMA NextCount ==
  ASSUME LockInv, CountInv, [Next]_vars
  PROVE  CountInv'
<1>1. CASE UNCHANGED vars
  BY <1>1, StutterCount
<1>2. ASSUME NEW p \in Procs, Accept(p)
      PROVE  CountInv'
  BY <1>2, BeginCount, ScopeOpsCount, WipeRebuildCount, WarmLockCount DEF Accept
<1>3. ASSUME NEW p \in Procs, Proceed(p)
      PROVE  CountInv'
  BY <1>3, BeginCount, CommitCount, MissFailCount, ScopeOpsCount, DetachBufferCount, SwapsCount,
     WarmSnapshotCount, WarmCommitCount, WarmCreateCount, WarmReserveCount, WarmRefusedCount, WarmFinishCount
     DEF Proceed
<1>4. QED
  BY <1>1, <1>2, <1>3 DEF Next

\* Every counter that gates a write is exact in every reachable state, for any
\* number of goroutines, scopes, shards and buffers: totalBytes, totalItems,
\* scopeCount and the bytes of each mapped buffer, over deletes, rollbacks,
\* /wipe, /rebuild and the drift of /warm.
THEOREM CountersAreExact == Spec => []CountersExact
<1>1. Init => LockInv /\ CountInv
  BY InitLock, InitCount
<1>2. LockInv /\ CountInv /\ [Next]_vars => (LockInv /\ CountInv)'
  BY NextLock, NextCount
<1>3. LockInv /\ CountInv => CountersExact
  BY DEF CountInv
<1>4. QED
  BY <1>1, <1>2, <1>3, PTL DEF Spec

----------------------------------------------------------------------------
(* The cap *)

\* A reservation that succeeded.
LEMMA ReservedUnderCap ==
  ASSUME NEW d \in Int, totalBytes \in Int, Fits(d), totalBytes' = totalBytes + d
  PROVE  totalBytes' <= totalBytes \/ totalBytes' <= MaxStoreBytes
BY DEF Fits

LEMMA CommitUnderCap ==
  ASSUME LockInv, CountInv, NEW p \in Procs,
         AppendItem(p) \/ UpsertByID(p) \/ CounterAdd(p) \/ UpdateItem(p) \/ DeleteItems(p)
  PROVE  totalBytes' <= totalBytes \/ totalBytes' <= MaxStoreBytes
<1>0. PICK b, hits, it : b = ref[p] /\ hits = Hits(ref[p], req[p]) /\ it = [id |-> req[p].id, size |-> req[p].size]
  OBVIOUS
<1>1. pc[p] = "commit"
  BY DEF AppendItem, UpsertByID, CounterAdd, UpdateItem, DeleteItems, AtBuffer
<1>2. b \in Bufs /\ req[p].size \in Nat /\ hits \in SUBSET DOMAIN items[b] /\ it.size \in Int
  <2>1. b \in Bufs /\ req[p].size \in Nat /\ hits \in SUBSET DOMAIN items[b]
    BY <1>0, <1>1, RequestFacts DEF LockInv
  <2>2. it.size = req[p].size
    BY <1>0
  <2>3. QED
    BY <2>1, <2>2
<1>3. totalBytes \in Int /\ IsItemMap(items[b])
  BY <1>2 DEF LockInv, TypeOK, CounterTypeOK, HeapTypeOK
<1>4. CASE InsertNewItemLocked(b, it)
  BY <1>2, <1>3, <1>4, ReservedUnderCap DEF InsertNewItemLocked
<1>5. ASSUME NEW k \in hits, ReplaceItemLocked(b, k, req[p].size)
      PROVE  totalBytes' <= totalBytes \/ totalBytes' <= MaxStoreBytes
  <2>1. items[b][k].size \in Int
    BY <1>2, <1>3 DEF IsItemMap, Item
  <2>2. PICK d \in Int : d = SizeDelta(b, k, req[p].size)
    BY <1>2, <2>1 DEF SizeDelta
  <2>3. Fits(d) /\ totalBytes' = totalBytes + d
    BY <1>5, <2>2 DEF ReplaceItemLocked
  <2>4. QED
    BY <1>3, <2>3, ReservedUnderCap
<1>6. CASE RemoveItemsLocked(b, hits)
  <2>1. BytesOf(items[b], hits) \in Nat
    BY <1>2, <1>3, BytesNat
  <2>2. totalBytes' = totalBytes - BytesOf(items[b], hits)
    BY <1>6 DEF RemoveItemsLocked
  <2>3. QED
    BY <1>3, <2>1, <2>2
<1>7. QED
  BY <1>0, <1>4, <1>5, <1>6 DEF AppendItem, UpsertByID, CounterAdd, UpdateItem, DeleteItems

LEMMA ScopeOpsUnderCap ==
  ASSUME LockInv, CountInv, NEW p \in Procs, Cleanup(p) \/ \E s \in Scopes : DeleteScope(p, s)
  PROVE  totalBytes' <= totalBytes
<1>0. totalBytes \in Int
  BY DEF LockInv, TypeOK, CounterTypeOK
<1>1. CASE Cleanup(p)
  <2>1. totalBytes' = totalBytes - ScopeBufferOverhead \/ totalBytes' = totalBytes
    BY <1>1 DEF Cleanup
  <2>2. QED
    BY <1>0, <2>1
<1>2. ASSUME NEW s \in Scopes, DeleteScope(p, s)
      PROVE  totalBytes' <= totalBytes
  <2>1. s \in Mapped /\ totalBytes' = totalBytes - (bytes[scopes[s]] + ScopeBufferOverhead)
    BY <1>2 DEF DeleteScope, Mapped
  <2>2. bytes[scopes[s]] \in Nat
    <3>1. /\ IsItemMap(items[scopes[s]])
          /\ bytes[scopes[s]] = BytesOf(items[scopes[s]], DOMAIN items[scopes[s]])
      BY <2>1, MappedFacts
    <3>2. QED
      BY <3>1, BytesNat
  <2>3. QED
    BY <1>0, <2>1, <2>2
<1>3. QED
  BY <1>1, <1>2

LEMMA SwapUnderCap ==
  ASSUME LockInv, CountInv, NEW p \in Procs, WipeSwap(p) \/ RebuildSwap(p)
  PROVE  totalBytes' <= MaxStoreBytes
<1>1. CASE WipeSwap(p)
  <2>1. totalBytes' = SumFunctionOnSet(LoadBytes(NoLoad), Scopes) + ReservedOverhead
    BY <1>1 DEF WipeSwap, Swap
  <2>2. SumFunctionOnSet(LoadBytes(NoLoad), Scopes) = 0
    BY NoLoadBytes
  <2>3. ReservedOverhead \in Int /\ ReservedOverhead <= MaxStoreBytes
    BY ReservedFit, NoRequestType, LoadSums DEF ReservedOverhead
  <2>4. QED
    BY <2>1, <2>2, <2>3
<1>2. CASE RebuildSwap(p)
  BY <1>2 DEF RebuildSwap, Swap, CountInv, LoadFits
<1>3. QED
  BY <1>1, <1>2

\* The drift of a /warm commit is the only thing that can pass the cap.
LEMMA OverCapStep ==
  ASSUME LockInv, CountInv, Next, totalBytes' > totalBytes, totalBytes' > MaxStoreBytes
  PROVE  \E s \in Mapped : /\ plan[s].phase = "reserved" /\ plan'[s].phase = "done"
                            /\ bytes[scopes[s]] < plan[s].old
<1>0. totalBytes \in Int /\ totalBytes' \in Int
  BY NextType DEF LockInv, TypeOK, CounterTypeOK
<1>1. totalBytes' # totalBytes /\ ~ (totalBytes' <= totalBytes) /\ ~ (totalBytes' <= MaxStoreBytes)
  BY <1>0
<1>2. PICK p \in Procs : Accept(p) \/ Proceed(p)
  BY DEF Next
<1>3. ASSUME NEW r, LookupCreated(p, r)
      PROVE  FALSE
  BY <1>0, <1>1, <1>3, ReservedUnderCap DEF LookupCreated
<1>4. ~ Accept(p)
  <2>1. ~ Begin(p)
    BY <1>1, <1>3 DEF Begin, LookupFound, totals
  <2>2. ~ (WipeLock(p) \/ \E ld \in Loads : RebuildLock(p, ld) \/ WarmLock(p, ld))
    BY <1>1 DEF WipeLock, RebuildLock, WarmLock, LockAll, totals
  <2>3. QED
    BY <1>1, <2>1, <2>2, ScopeOpsUnderCap DEF Accept
<1>5. ~ WarmReserve(p)
  <2>1. load[p] \in [Scopes -> Batches \cup {NoBatch}]
    BY DEF LockInv, TypeOK, ProcTypeOK
  <2>2. TotalDelta(load[p]) \in Int
    BY <2>1, PlanSums DEF LockInv
  <2>3. PICK d \in Int : d = TotalDelta(load[p])
    BY <2>2
  <2>4. QED
    BY <1>0, <1>1, <2>3, ReservedUnderCap DEF WarmReserve
<1>6. ~ (Emit(p) \/ Miss(p) \/ Fail(p) \/ WarmRefused(p) \/ WarmFinish(p))
  BY <1>1 DEF Emit, LookupFound, Miss, Fail, WarmRefused, WarmFinish, totals
<1>7. ~ \E s \in Scopes : DetachBuffer(p, s) \/ WarmSnapshot(p, s) \/ WarmCreate(p, s)
  BY <1>1 DEF DetachBuffer, WarmSnapshot, WarmCreate, totals
<1>8. PICK s \in Scopes : WarmCommit(p, s)
  BY <1>1, <1>2, <1>4, <1>5, <1>6, <1>7, CommitUnderCap, ScopeOpsUnderCap, SwapUnderCap DEF Proceed
<1>9. /\ s \in Mapped /\ plan[s].phase = "reserved" /\ s \in PlanScopes(p) /\ pc[p] = "warm"
      /\ totalBytes' = totalBytes - (bytes[scopes[s]] - plan[s].old)
  BY <1>8 DEF WarmCommit, CommitReplacementPreReserved, Drift, Mapped
<1>10. plan'[s].phase = "done"
  <2>1. plan[s] \in Plan /\ plan'[s] = [plan[s] EXCEPT !.phase = "done"]
    BY <1>8 DEF WarmCommit, LockInv, TypeOK, LockTypeOK
  <2>2. QED
    BY <2>1, PhaseFields
<1>11. bytes[scopes[s]] \in Int /\ plan[s].old \in Int
  BY <1>9, MappedFacts, PlanOwner
<1>12. bytes[scopes[s]] < plan[s].old
  BY <1>0, <1>1, <1>9, <1>11
<1>13. QED
  BY <1>9, <1>10, <1>12

\* reserveBytes keeps the cap at every other place: only the drift of a /warm
\* commit, over a scope that shrank after its snapshot, carries totalBytes past it.
THEOREM CapPassedOnlyByDrift == Spec => OverCapOnlyByWarmDrift
<1>1. Init => LockInv /\ CountInv
  BY InitLock, InitCount
<1>2. LockInv /\ CountInv /\ [Next]_vars => (LockInv /\ CountInv)'
  BY NextLock, NextCount
<1>3. LockInv /\ CountInv /\ [Next]_vars =>
        [totalBytes' > totalBytes /\ totalBytes' > MaxStoreBytes =>
           \E s \in Mapped : /\ plan[s].phase = "reserved" /\ plan'[s].phase = "done"
                              /\ bytes[scopes[s]] < plan[s].old]_vars
  BY OverCapStep
<1>4. QED
  BY <1>1, <1>2, <1>3, PTL DEF Spec, OverCapOnlyByWarmDrift

----------------------------------------------------------------------------
(* No empty scope is left behind *)

\* A goroutine that is still on its way into the scope it allocated.
Allocating(s) == \E q \in Procs : created[q] /\ ref[q] = scopes[s]

\* A user scope has had an item, or the goroutine that allocated it has not
\* returned; a pointer leads to no other scope than the one it was looked up by.
GhostInv ==
  /\ \A s \in UserScopes \cap Mapped : lastSeq[scopes[s]] > 0 \/ Allocating(s)
  /\ \A q \in Procs : ref[q] # NoBuf => \A s \in Scopes : scopes[s] = ref[q] => s = req[q].scope
  /\ \A q \in Procs : created[q] => pc[q] \in {"commit", "cleanup"} /\ req[q].op \in CreatingOps

\* Clients send no empty list.
NoEmptyBatch == \A bt \in Batches : DOMAIN bt # {}

\* What fills a scope in one step.
LEMMA FullBatch ==
  ASSUME NoEmptyBatch, NEW bt \in Batches
  PROVE  Cardinality(DOMAIN bt) > 0
<1>1. DOMAIN bt # {}
  BY DEF NoEmptyBatch
<1>2. IsFiniteSet(DOMAIN bt) /\ Cardinality(DOMAIN bt) \in Nat
  BY BatchFacts, FS_CardinalityType
<1>3. Cardinality(DOMAIN bt) # 0
  BY <1>1, <1>2, FS_EmptySet
<1>4. QED
  BY <1>2, <1>3

\* A request that returns: the scope it allocated is used by now, or gone.
LEMMA ReturnGhost ==
  ASSUME LockInv, TypeOK', GhostInv, NEW p \in Procs, Idle(p) \/ Committed(p),
         \A t \in Scopes : scopes'[t] = scopes[t] \/ scopes'[t] = NoBuf,
         \A b \in Bufs : lastSeq[b] > 0 => lastSeq'[b] > 0,
         created[p] => \A t \in Scopes : scopes'[t] = ref[p] => lastSeq'[ref[p]] > 0
  PROVE  GhostInv'
<1>1. /\ pc'[p] \in {"idle", "emit"} /\ created'[p] = FALSE
      /\ \A q \in Procs \ {p} : /\ pc'[q] = pc[q] /\ req'[q] = req[q] /\ ref'[q] = ref[q]
                                /\ created'[q] = created[q]
  BY ReturnFacts DEF LockInv
<1>2. ref'[p] = NoBuf
  BY <1>1 DEF TypeOK, ProcTypeOK
<1>3. ASSUME NEW s \in UserScopes, scopes'[s] # NoBuf
      PROVE  lastSeq'[scopes'[s]] > 0 \/ \E q \in Procs : created'[q] /\ ref'[q] = scopes'[s]
  <2>1. s \in Scopes /\ scopes'[s] = scopes[s] /\ s \in Mapped /\ scopes[s] \in Bufs
    BY <1>3 DEF UserScopes, Mapped, LockInv, TypeOK, HeapTypeOK
  <2>2. CASE lastSeq[scopes[s]] > 0
    BY <2>1, <2>2
  <2>3. CASE Allocating(s)
    <3>1. PICK q \in Procs : created[q] /\ ref[q] = scopes[s]
      BY <2>3 DEF Allocating
    <3>2. QED
      BY <1>1, <2>1, <3>1
  <2>4. QED
    BY <2>1, <2>2, <2>3 DEF GhostInv
<1>4. ASSUME NEW q \in Procs, ref'[q] # NoBuf, NEW s \in Scopes, scopes'[s] = ref'[q]
      PROVE  s = req'[q].scope
  BY <1>1, <1>2, <1>4 DEF GhostInv
<1>5. ASSUME NEW q \in Procs, created'[q]
      PROVE  pc'[q] \in {"commit", "cleanup"} /\ req'[q].op \in CreatingOps
  BY <1>1, <1>5 DEF GhostInv
<1>6. QED
  BY <1>3, <1>4, <1>5 DEF GhostInv, Mapped, Allocating

\* A step that keeps the goroutines' pointers; what it maps anew is filled.
LEMMA KeepGhost ==
  ASSUME LockInv, GhostInv, UNCHANGED <<req, ref, created>>,
         \A q \in Procs : pc[q] \in {"commit", "cleanup"} => pc'[q] \in {"commit", "cleanup"},
         \A t \in Scopes : \/ scopes'[t] = scopes[t]
                           \/ lastSeq'[scopes'[t]] > 0 /\ \A q \in Procs : ref[q] # scopes'[t],
         \A b \in Bufs : lastSeq[b] > 0 => lastSeq'[b] > 0 \/ \A t \in Scopes : scopes'[t] # b
  PROVE  GhostInv'
<1>1. ASSUME NEW s \in UserScopes, scopes'[s] # NoBuf
      PROVE  lastSeq'[scopes'[s]] > 0 \/ \E q \in Procs : created'[q] /\ ref'[q] = scopes'[s]
  <2>0. s \in Scopes
    BY DEF UserScopes
  <2>1. CASE scopes'[s] = scopes[s]
    <3>1. s \in Mapped /\ scopes[s] \in Bufs
      BY <1>1, <2>0, <2>1 DEF Mapped, LockInv, TypeOK, HeapTypeOK
    <3>2. lastSeq[scopes[s]] > 0 \/ Allocating(s)
      BY <3>1 DEF GhostInv
    <3>3. QED
      BY <2>0, <2>1, <3>1, <3>2 DEF Allocating
  <2>2. QED
    BY <2>0, <2>1
<1>2. ASSUME NEW q \in Procs, ref[q] # NoBuf, NEW s \in Scopes, scopes'[s] = ref[q]
      PROVE  s = req[q].scope
  BY <1>2 DEF GhostInv
<1>3. ASSUME NEW q \in Procs, created[q]
      PROVE  pc'[q] \in {"commit", "cleanup"} /\ req[q].op \in CreatingOps
  BY <1>3 DEF GhostInv
<1>4. QED
  BY <1>1, <1>2, <1>3 DEF GhostInv, Mapped, Allocating

LEMMA LookupFoundGhost ==
  ASSUME LockInv, GhostInv, NEW p \in Procs, NEW r \in Request, LookupFound(p, r), pc[p] \in {"idle", "emit"}
  PROVE  GhostInv'
<1>1. /\ pc'[p] = "commit" /\ req'[p] = r /\ ref'[p] = scopes[r.scope] /\ created'[p] = FALSE
      /\ \A q \in Procs \ {p} : /\ pc'[q] = pc[q] /\ req'[q] = req[q] /\ ref'[q] = ref[q]
                                /\ created'[q] = created[q]
      /\ UNCHANGED <<scopes, lastSeq>> /\ r.scope \in Scopes /\ scopes[r.scope] # NoBuf
  BY DEF LookupFound, Found, LockInv, TypeOK, ProcTypeOK, bufVars, Request
<1>2. ~ created[p]
  BY DEF GhostInv
<1>3. \A s \in Scopes : scopes[s] = scopes[r.scope] => s = r.scope
  BY <1>1 DEF LockInv, LookupsAreLive, Mapped
<1>4. ASSUME NEW s \in UserScopes, scopes[s] # NoBuf
      PROVE  lastSeq[scopes[s]] > 0 \/ \E q \in Procs : created'[q] /\ ref'[q] = scopes[s]
  <2>1. lastSeq[scopes[s]] > 0 \/ Allocating(s)
    BY <1>4 DEF GhostInv, Mapped, UserScopes
  <2>2. QED
    BY <1>1, <1>2, <2>1 DEF Allocating
<1>5. ASSUME NEW q \in Procs, ref'[q] # NoBuf, NEW s \in Scopes, scopes[s] = ref'[q]
      PROVE  s = req'[q].scope
  BY <1>1, <1>3, <1>5 DEF GhostInv
<1>6. ASSUME NEW q \in Procs, created'[q]
      PROVE  pc'[q] \in {"commit", "cleanup"} /\ req'[q].op \in CreatingOps
  BY <1>1, <1>6 DEF GhostInv
<1>7. QED
  BY <1>1, <1>4, <1>5, <1>6 DEF GhostInv, Mapped, Allocating

LEMMA LookupCreatedGhost ==
  ASSUME LockInv, GhostInv, NEW p \in Procs, NEW r \in Request, LookupCreated(p, r), pc[p] = "idle",
         r.op \in CreatingOps
  PROVE  GhostInv'
<1>0. r.scope \in Scopes /\ FreshBufs # {} /\ scopes[r.scope] = NoBuf
  BY DEF LookupCreated, Found, Request
<1>1. /\ pc'[p] = "commit" /\ req'[p] = r /\ ref'[p] = NewBuf /\ created'[p] = TRUE
      /\ \A q \in Procs \ {p} : /\ pc'[q] = pc[q] /\ req'[q] = req[q] /\ ref'[q] = ref[q]
                                /\ created'[q] = created[q]
  BY DEF LookupCreated, LockInv, TypeOK, ProcTypeOK
<1>2. /\ NewBuf \in Bufs /\ NewBuf # NoBuf
      /\ \A s \in Scopes : scopes[s] # NewBuf
      /\ \A q \in Procs : ref[q] # NewBuf
  BY <1>0, FreshFacts
<1>3. /\ scopes'[r.scope] = NewBuf /\ \A t \in Scopes \ {r.scope} : scopes'[t] = scopes[t]
      /\ \A b \in Bufs \ {NewBuf} : lastSeq'[b] = lastSeq[b]
  BY <1>0, <1>2 DEF LookupCreated, LockInv, TypeOK, HeapTypeOK
<1>4. ~ created[p]
  BY DEF GhostInv
<1>5. ASSUME NEW s \in UserScopes, scopes'[s] # NoBuf
      PROVE  lastSeq'[scopes'[s]] > 0 \/ \E q \in Procs : created'[q] /\ ref'[q] = scopes'[s]
  <2>1. CASE s = r.scope
    BY <1>1, <1>3, <2>1
  <2>2. CASE s # r.scope
    <3>1. scopes'[s] = scopes[s] /\ s \in Mapped /\ scopes[s] \in Bufs \ {NewBuf}
      BY <1>2, <1>3, <1>5, <2>2 DEF UserScopes, Mapped, LockInv, TypeOK, HeapTypeOK
    <3>2. lastSeq[scopes[s]] > 0 \/ Allocating(s)
      BY <3>1 DEF GhostInv
    <3>3. QED
      BY <1>1, <1>3, <1>4, <3>1, <3>2 DEF Allocating
  <2>3. QED
    BY <2>1, <2>2
<1>6. ASSUME NEW q \in Procs, ref'[q] # NoBuf, NEW s \in Scopes, scopes'[s] = ref'[q]
      PROVE  s = req'[q].scope
  <2>1. CASE q = p
    BY <1>1, <1>2, <1>3, <1>6, <2>1
  <2>2. CASE q # p
    BY <1>1, <1>2, <1>3, <1>6, <2>2 DEF GhostInv
  <2>3. QED
    BY <2>1, <2>2
<1>7. ASSUME NEW q \in Procs, created'[q]
      PROVE  pc'[q] \in {"commit", "cleanup"} /\ req'[q].op \in CreatingOps
  BY <1>1, <1>7 DEF GhostInv
<1>8. QED
  BY <1>5, <1>6, <1>7 DEF GhostInv, Mapped, Allocating

LEMMA BeginGhost ==
  ASSUME LockInv, GhostInv, NEW p \in Procs, Begin(p) \/ Emit(p)
  PROVE  GhostInv'
<1>1. CASE Begin(p)
  BY <1>1, LookupFoundGhost, LookupCreatedGhost DEF Begin, Requests
<1>2. CASE Emit(p)
  BY <1>2, LookupFoundGhost, NoRequestType DEF Emit
<1>3. QED
  BY <1>1, <1>2

LEMMA CommitGhost ==
  ASSUME LockInv, TypeOK', CountInv, GhostInv, NEW p \in Procs,
         AppendItem(p) \/ UpsertByID(p) \/ CounterAdd(p) \/ UpdateItem(p) \/ DeleteItems(p)
  PROVE  GhostInv'
<1>0. PICK b, hits, it : b = ref[p] /\ hits = Hits(ref[p], req[p]) /\ it = [id |-> req[p].id, size |-> req[p].size]
  OBVIOUS
<1>1. pc[p] = "commit" /\ Committed(p) /\ UNCHANGED scopes
  BY DEF AppendItem, UpsertByID, CounterAdd, UpdateItem, DeleteItems, AtBuffer
<1>2. b \in Bufs /\ hits \in SUBSET DOMAIN items[b]
  BY <1>0, <1>1, RequestFacts DEF LockInv
<1>3. lastSeq \in [Bufs -> 0..MaxSeq] /\ DOMAIN items[b] \subseteq 1..lastSeq[b]
  BY <1>2 DEF LockInv, TypeOK, HeapTypeOK, CountInv, SeqsIssued
<1>4. hits # {} => lastSeq[b] > 0
  BY <1>2, <1>3
<1>5. lastSeq'[b] > 0 /\ \A c \in Bufs : lastSeq[c] > 0 => lastSeq'[c] > 0
  <2>1. CASE InsertNewItemLocked(b, it)
    <3>1. lastSeq' = [lastSeq EXCEPT ![b] = lastSeq[b] + 1]
      BY <2>1 DEF InsertNewItemLocked
    <3>2. QED
      BY <1>2, <1>3, <3>1
  <2>2. CASE \E k \in hits : ReplaceItemLocked(b, k, req[p].size)
    BY <1>4, <2>2 DEF ReplaceItemLocked
  <2>3. CASE RemoveItemsLocked(b, hits) /\ hits # {}
    BY <1>4, <2>3 DEF RemoveItemsLocked
  <2>4. QED
    BY <1>0, <2>1, <2>2, <2>3 DEF AppendItem, UpsertByID, CounterAdd, UpdateItem, DeleteItems
<1>6. QED
  BY <1>0, <1>1, <1>5, ReturnGhost

LEMMA MissFailGhost ==
  ASSUME LockInv, TypeOK', GhostInv, NEW p \in Procs, Miss(p) \/ Fail(p)
  PROVE  GhostInv'
<1>1. pc[p] = "commit" /\ UNCHANGED <<scopes, lastSeq>>
  BY DEF Miss, Fail, bufVars
<1>2. CASE Idle(p) /\ ~ created[p]
  BY <1>1, <1>2, ReturnGhost
<1>3. CASE pc' = [pc EXCEPT ![p] = "cleanup"] /\ UNCHANGED <<req, ref, created>>
  <2>1. \A q \in Procs : pc[q] \in {"commit", "cleanup"} => pc'[q] \in {"commit", "cleanup"}
    BY <1>3 DEF LockInv, TypeOK, ProcTypeOK
  <2>2. QED
    BY <1>1, <1>3, <2>1, KeepGhost
<1>4. Miss(p) => ~ created[p]
  BY DEF Miss, GhostInv, CreatingOps
<1>5. QED
  BY <1>2, <1>3, <1>4 DEF Miss, Fail, RollsBack

LEMMA ScopeOpsGhost ==
  ASSUME LockInv, TypeOK', CountInv, GhostInv, NEW p \in Procs, Cleanup(p) \/ \E s \in Scopes : DeleteScope(p, s)
  PROVE  GhostInv'
<1>1. CASE Cleanup(p)
  <2>0. PICK s, b : s = req[p].scope /\ b = ref[p]
    OBVIOUS
  <2>1. pc[p] = "cleanup" /\ Idle(p) /\ UNCHANGED <<items, lastSeq>>
    BY <1>1 DEF Cleanup
  <2>2. b \in Bufs /\ b # NoBuf /\ s \in Scopes
    BY <2>0, <2>1 DEF LockInv, TypeOK, ProcTypeOK, Request
  <2>3. \A t \in Scopes : scopes[t] = b => t = s
    BY <2>0, <2>2 DEF GhostInv
  <2>4. CASE StillUnused(s, b)
    <3>1. scopes'[s] = NoBuf /\ \A t \in Scopes \ {s} : scopes'[t] = scopes[t]
      BY <1>1, <2>0, <2>2, <2>4 DEF Cleanup, LockInv, TypeOK, HeapTypeOK
    <3>2. \A t \in Scopes : scopes'[t] # b
      BY <2>2, <2>3, <3>1
    <3>3. QED
      BY <2>0, <2>1, <3>1, <3>2, ReturnGhost
  <2>5. CASE ~ StillUnused(s, b)
    <3>1. UNCHANGED scopes
      BY <1>1, <2>0, <2>5 DEF Cleanup
    <3>2. ASSUME NEW t \in Scopes, scopes'[t] = b
          PROVE  lastSeq'[b] > 0
      <4>1. scopes[s] = b
        BY <2>3, <3>1, <3>2
      <4>2. DOMAIN items[b] # {}
        BY <2>5, <4>1 DEF StillUnused
      <4>3. DOMAIN items[b] \subseteq 1..lastSeq[b] /\ lastSeq[b] \in Nat
        BY <2>2 DEF CountInv, SeqsIssued, LockInv, TypeOK, HeapTypeOK
      <4>4. QED
        BY <2>1, <4>2, <4>3
    <3>3. QED
      BY <2>0, <2>1, <3>1, <3>2, ReturnGhost
  <2>6. QED
    BY <2>4, <2>5
<1>2. ASSUME NEW s \in Scopes, DeleteScope(p, s)
      PROVE  GhostInv'
  <2>1. pc[p] = "idle" /\ Committed(p) /\ UNCHANGED lastSeq /\ scopes' = [scopes EXCEPT ![s] = NoBuf]
    BY <1>2 DEF DeleteScope
  <2>2. ~ created[p]
    BY <2>1 DEF GhostInv
  <2>3. \A t \in Scopes : scopes'[t] = scopes[t] \/ scopes'[t] = NoBuf
    BY <2>1 DEF LockInv, TypeOK, HeapTypeOK
  <2>4. QED
    BY <2>1, <2>2, <2>3, ReturnGhost
<1>3. QED
  BY <1>1, <1>2

LEMMA BulkLockGhost ==
  ASSUME LockInv, GhostInv, NEW p \in Procs,
         \/ WipeLock(p)
         \/ \E ld \in Loads : RebuildLock(p, ld) \/ WarmLock(p, ld)
         \/ \E s \in Scopes : DetachBuffer(p, s) \/ WarmSnapshot(p, s)
         \/ WarmReserve(p)
  PROVE  GhostInv'
<1>1. UNCHANGED <<scopes, lastSeq, req, ref, created>>
  BY DEF WipeLock, RebuildLock, LockAll, WarmLock, DetachBuffer, WarmSnapshot, WarmReserve, bufVars, procVars
<1>2. UNCHANGED pc \/ \E l \in Labels : pc[p] = "idle" /\ pc' = [pc EXCEPT ![p] = l]
  BY DEF WipeLock, RebuildLock, LockAll, WarmLock, DetachBuffer, WarmSnapshot, WarmReserve, procVars, Labels
<1>3. \A q \in Procs : pc[q] \in {"commit", "cleanup"} => pc'[q] \in {"commit", "cleanup"}
  BY <1>2 DEF LockInv, TypeOK, ProcTypeOK
<1>4. QED
  BY <1>1, <1>3, KeepGhost

LEMMA WarmPhase2Ghost ==
  ASSUME NoEmptyBatch, LockInv, GhostInv, NEW p \in Procs, NEW s \in Scopes, WarmCommit(p, s) \/ WarmCreate(p, s)
  PROVE  GhostInv'
<1>1. pc[p] = "warm" /\ s \in PlanScopes(p) /\ UNCHANGED <<pc, req, ref, created>>
  BY DEF WarmCommit, WarmCreate, procVars
<1>2. Cardinality(DOMAIN load[p][s]) > 0
  BY <1>1, PlanOwner, FullBatch
<1>3. CASE WarmCommit(p, s)
  <2>1. scopes[s] \in Bufs
    BY <1>3 DEF WarmCommit, LockInv, TypeOK, HeapTypeOK
  <2>2. UNCHANGED scopes /\ lastSeq' = [lastSeq EXCEPT ![scopes[s]] = Cardinality(DOMAIN load[p][s])]
    BY <1>3 DEF WarmCommit, CommitReplacementPreReserved
  <2>3. \A b \in Bufs : lastSeq[b] > 0 => lastSeq'[b] > 0
    BY <1>2, <2>1, <2>2 DEF LockInv, TypeOK, HeapTypeOK
  <2>4. QED
    BY <1>1, <2>2, <2>3, KeepGhost
<1>4. CASE WarmCreate(p, s)
  <2>1. FreshBufs # {} /\ scopes' = [scopes EXCEPT ![s] = NewBuf]
        /\ lastSeq' = [lastSeq EXCEPT ![NewBuf] = Cardinality(DOMAIN load[p][s])]
    BY <1>4 DEF WarmCreate
  <2>2. NewBuf \in Bufs /\ \A q \in Procs : ref[q] # NewBuf
    BY <2>1, FreshFacts
  <2>3. /\ lastSeq'[NewBuf] > 0 /\ \A b \in Bufs : lastSeq[b] > 0 => lastSeq'[b] > 0
    BY <1>2, <2>1, <2>2 DEF LockInv, TypeOK, HeapTypeOK
  <2>4. scopes'[s] = NewBuf /\ \A t \in Scopes \ {s} : scopes'[t] = scopes[t]
    BY <2>1 DEF LockInv, TypeOK, HeapTypeOK
  <2>5. QED
    BY <1>1, <2>2, <2>3, <2>4, KeepGhost
<1>5. QED
  BY <1>3, <1>4

LEMMA WarmReturnGhost ==
  ASSUME LockInv, TypeOK', GhostInv, NEW p \in Procs, WarmRefused(p) \/ WarmFinish(p)
  PROVE  GhostInv'
<1>1. pc[p] = "warm" /\ (Idle(p) \/ Committed(p)) /\ UNCHANGED <<scopes, lastSeq>>
  BY DEF WarmRefused, WarmFinish, bufVars
<1>2. ~ created[p]
  BY <1>1 DEF GhostInv
<1>3. QED
  BY <1>1, <1>2, ReturnGhost

LEMMA SwapGhost ==
  ASSUME NoEmptyBatch, LockInv, TypeOK', GhostInv, NEW p \in Procs, pc[p] \in {"wipe", "rebuild"},
         NEW ld \in [Scopes -> Batches \cup {NoBatch}], Swap(p, ld)
  PROVE  GhostInv'
<1> DEFINE f == SwapBufs(ld)
           kept == KeptScopes(ld)
<1>1. /\ kept \subseteq Scopes
      /\ f \in [kept -> FreshBufs]
      /\ scopes' = [s \in Scopes |-> IF s \in kept THEN f[s] ELSE NoBuf]
      /\ \A s \in kept : lastSeq'[f[s]] = Cardinality(DOMAIN BatchOf(ld, s))
  BY SwapEffect DEF LockInv
<1>2. \A s \in kept : s \in UserScopes => ld[s] # NoBatch
  BY DEF KeptScopes, WarmScopes, UserScopes
<1> HIDE DEF f, kept
<1>3. /\ pc'[p] = "idle" /\ created'[p] = FALSE /\ ref'[p] = NoBuf
      /\ \A q \in Procs \ {p} : /\ pc'[q] = pc[q] /\ req'[q] = req[q] /\ ref'[q] = ref[q]
                                /\ created'[q] = created[q]
  BY DEF Swap, Idle, LockInv, TypeOK, ProcTypeOK
<1>4. ASSUME NEW s \in Scopes, scopes'[s] # NoBuf
      PROVE  s \in kept /\ scopes'[s] = f[s] /\ \A q \in Procs : ref[q] # scopes'[s]
  BY <1>1, <1>4 DEF FreshBufs
<1>5. ASSUME NEW s \in UserScopes, scopes'[s] # NoBuf
      PROVE  lastSeq'[scopes'[s]] > 0
  <2>1. s \in kept /\ scopes'[s] = f[s] /\ ld[s] # NoBatch
    BY <1>2, <1>4, <1>5 DEF UserScopes
  <2>2. BatchOf(ld, s) = ld[s] /\ ld[s] \in Batches
    BY <1>1, <2>1 DEF BatchOf
  <2>3. QED
    BY <1>1, <2>1, <2>2, FullBatch
<1>6. ASSUME NEW q \in Procs, ref'[q] # NoBuf, NEW s \in Scopes, scopes'[s] = ref'[q]
      PROVE  FALSE
  BY <1>3, <1>4, <1>6
<1>7. ASSUME NEW q \in Procs, created'[q]
      PROVE  pc'[q] \in {"commit", "cleanup"} /\ req'[q].op \in CreatingOps
  BY <1>3, <1>7 DEF GhostInv
<1>8. QED
  BY <1>5, <1>6, <1>7 DEF GhostInv, Mapped, UserScopes

LEMMA InitGhost == Init => GhostInv
<1> SUFFICES ASSUME Init PROVE GhostInv
  OBVIOUS
<1>1. PICK f \in [Reserved -> Bufs] : scopes = [s \in Scopes |-> IF s \in Reserved THEN f[s] ELSE NoBuf]
  BY HeapRoom DEF Init, ExistsInjection, Injection
<1>2. \A q \in Procs : ref[q] = NoBuf /\ ~ created[q]
  BY DEF Init
<1>3. UserScopes \cap Mapped = {}
  BY <1>1 DEF UserScopes, Mapped
<1>4. QED
  BY <1>2, <1>3 DEF GhostInv

LEMMA NextGhost ==
  ASSUME NoEmptyBatch, LockInv, CountInv, GhostInv, [Next]_vars
  PROVE  GhostInv'
<1>0. TypeOK'
  BY NextType DEF LockInv
<1>1. CASE UNCHANGED vars
  <2>1. UNCHANGED <<scopes, lastSeq, pc, req, ref, created>>
    BY <1>1 DEF vars, bufVars, procVars
  <2>2. QED
    BY <2>1, KeepGhost
<1>2. ASSUME NEW p \in Procs, Accept(p)
      PROVE  GhostInv'
  BY <1>0, <1>2, BeginGhost, ScopeOpsGhost, BulkLockGhost DEF Accept
<1>3. ASSUME NEW p \in Procs, Proceed(p)
      PROVE  GhostInv'
  <2>1. CASE WipeSwap(p)
    <3>1. NoLoad \in [Scopes -> Batches \cup {NoBatch}]
      BY NoRequestType
    <3>2. QED
      BY <1>0, <2>1, <3>1, SwapGhost DEF WipeSwap
  <2>2. CASE RebuildSwap(p)
    <3>1. load[p] \in [Scopes -> Batches \cup {NoBatch}]
      BY DEF LockInv, TypeOK, ProcTypeOK
    <3>2. QED
      BY <1>0, <2>2, <3>1, SwapGhost DEF RebuildSwap
  <2>3. CASE ~ WipeSwap(p) /\ ~ RebuildSwap(p)
    BY <1>0, <1>3, <2>3, BeginGhost, CommitGhost, MissFailGhost, ScopeOpsGhost, BulkLockGhost,
       WarmPhase2Ghost, WarmReturnGhost DEF Proceed
  <2>4. QED
    BY <2>1, <2>2, <2>3
<1>4. QED
  BY <1>1, <1>2, <1>3 DEF Next

\* The rollback of cleanupIfEmptyAndUnused is complete: as long as no client
\* sends an empty list, a store at rest has no user scope that never had an item,
\* whatever failed and whoever raced the rollback.
THEOREM NoGhostScopeIsLeft == NoEmptyBatch => (Spec => []NoGhostScopes)
<1> SUFFICES ASSUME NoEmptyBatch PROVE Spec => []NoGhostScopes
  OBVIOUS
<1>1. Init => LockInv /\ CountInv /\ GhostInv
  BY InitLock, InitCount, InitGhost
<1>2. LockInv /\ CountInv /\ GhostInv /\ [Next]_vars => (LockInv /\ CountInv /\ GhostInv)'
  BY NextLock, NextCount, NextGhost
<1>3. LockInv /\ CountInv /\ GhostInv => NoGhostScopes
  <2> SUFFICES ASSUME GhostInv, AllIdle, NEW s \in UserScopes \cap Mapped
               PROVE  lastSeq[scopes[s]] > 0
    BY DEF NoGhostScopes
  <2>1. ~ Allocating(s)
    BY DEF Allocating, AllIdle, GhostInv
  <2>2. QED
    BY <2>1 DEF GhostInv
<1>4. QED
  BY <1>1, <1>2, <1>3, PTL DEF Spec

=============================================================================
