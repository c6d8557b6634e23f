-------------------------- MODULE ShardLocks_proofs --------------------------
(***************************************************************************)
(* The shard locks for any number of goroutines and shards: locks taken    *)
(* one by one in ascending order are as good as locks taken at once, and   *)
(* somebody can always go on.                                              *)
(***************************************************************************)
EXTENDS ShardLocks, WellFoundedInduction, TLAPS

\* How far a goroutine is in its loop, and that the loop ascends.
Stages ==
  \A p \in Procs :
    /\ pc[p] = "idle" => got[p] = {}
    /\ pc[p] = "lock" => got[p] \subseteq section[p].shards /\ got[p] # section[p].shards
    /\ pc[p] = "hold" => got[p] = section[p].shards
    /\ pc[p] = "lock" => \A x \in got[p], y \in section[p].shards \ got[p] : x < y

\* The writer of a shard has it, or waits for it.
WriterWants ==
  \A sh \in Shards : writer[sh] # NoProc =>
    /\ Writes(writer[sh])
    /\ sh \in got[writer[sh]] \/ (pc[writer[sh]] = "lock" /\ sh = Wanted(writer[sh]))

\* Who has locked a shard for writing is its writer and alone.
WritersAlone ==
  \A p \in Procs : \A sh \in got[p] :
    Writes(p) => writer[sh] = p /\ \A q \in Procs \ {p} : sh \notin got[q]

\* The inductive invariant.
ShardInv == TypeOK /\ Stages /\ WriterWants /\ WritersAlone

----------------------------------------------------------------------------
(* The lowest and the highest of a set of shards *)

\* Every set of numbers has a least one.
LEMMA LeastOf ==
  ASSUME NEW T, T \subseteq Nat, T # {}
  PROVE  \E x \in T : \A y \in T : x <= y
<1> DEFINE R == {ss \in Nat \X Nat : ss[1] < ss[2]}
<1>1. IsWellFoundedOn(R, Nat) BY NatLessThanWellFounded DEF OpToRel
<1>2. \E x \in T : \A y \in T : ~ (<<y, x>> \in R)
  <2> HIDE DEF R
  <2> QED BY <1>1, WFMin
<1>3. PICK x \in T : \A y \in T : ~ (<<y, x>> \in R) BY <1>2
<1>4. ASSUME NEW y \in T, y < x PROVE FALSE
  <2>1. y \in Nat /\ x \in Nat OBVIOUS
  <2>2. <<y, x>> \in Nat \X Nat BY <2>1
  <2>3. <<y, x>> \in R BY <2>2, <1>4
  <2> QED BY <1>3, <2>3
<1>5. \A y \in T : x <= y BY <1>4
<1> QED BY <1>5

\* A set of shards has a highest one.
LEMMA HighestOf ==
  ASSUME NEW T, T \subseteq Shards, T # {}
  PROVE  \E x \in T : \A y \in T : y <= x
<1> DEFINE U == {NumShards - y : y \in T}
<1>1. U \subseteq Nat /\ U # {}
  <2>1. \A y \in T : NumShards - y \in Nat BY ShardConstants DEF Shards
  <2> QED BY <2>1
<1>2. PICK u \in U : \A v \in U : u <= v
  <2> HIDE DEF U
  <2> QED BY <1>1, LeastOf
<1>3. PICK x \in T : u = NumShards - x BY <1>2
<1>4. \A y \in T : NumShards - x <= NumShards - y BY <1>2, <1>3
<1> QED BY <1>4, ShardConstants DEF Shards

\* What the loop of lockAllShards and lockShards takes next.
LEMMA WantedFacts ==
  ASSUME TypeOK, NEW p \in Procs,
         got[p] \subseteq section[p].shards, got[p] # section[p].shards
  PROVE  /\ Wanted(p) \in section[p].shards \ got[p]
         /\ Wanted(p) \in Shards
         /\ \A t \in section[p].shards \ got[p] : Wanted(p) <= t
<1> DEFINE rest == section[p].shards \ got[p]
<1>1. section[p].shards \subseteq Shards BY DEF TypeOK, Section
<1>2. rest \subseteq Nat /\ rest # {} BY <1>1, ShardConstants DEF Shards
<1>3. \E x \in rest : \A y \in rest : x <= y
  <2> HIDE DEF rest
  <2> QED BY <1>2, LeastOf
<1>4. Lowest(rest) \in rest /\ \A t \in rest : Lowest(rest) <= t
  <2> HIDE DEF rest
  <2> QED BY <1>3 DEF Lowest
<1> QED BY <1>1, <1>4 DEF Wanted, NextShard

----------------------------------------------------------------------------
(* The requests *)

LEMMA SectionTypes ==
  /\ \A sh \in Shards : RLock(sh) \in Section
  /\ \A S \in (SUBSET Shards) \ {{}} : LockAllOf(S) \in Section
  /\ \A sh \in Shards : LockAllOf({sh}) \in Section
  /\ LockAllOf(Shards) \in Section
<1>1. ASSUME NEW S \in (SUBSET Shards) \ {{}}, NEW m \in {"R", "W"}
      PROVE  [mode |-> m, shards |-> S] \in Section
  BY <1>1 DEF Section
<1>2. \A sh \in Shards : {sh} \in (SUBSET Shards) \ {{}} OBVIOUS
<1>3. Shards \in (SUBSET Shards) \ {{}} BY ShardConstants
<1> QED BY <1>1, <1>2, <1>3 DEF RLock, LockAllOf

\* A request goes through at least one section.
LEMMA RequestTypes ==
  ASSUME NEW r \in Requests
  PROVE  r \in Seq(Section) /\ r # <<>>
<1>1. ASSUME NEW w \in GetOrCreateScope \cup DeleteScope \cup ReplaceScopes
      PROVE  w \in Seq(Section) /\ w # <<>>
  <2>1. CASE w \in GetOrCreateScope
    <3>1. CASE \E sh \in Shards : w = <<RLock(sh)>>
      <4>1. PICK sh \in Shards : w = <<RLock(sh)>> BY <3>1
      <4>2. RLock(sh) \in Section BY SectionTypes
      <4> QED BY <4>1, <4>2
    <3>2. CASE \E sh \in Shards : w = <<RLock(sh), LockAllOf({sh})>>
      <4>1. PICK sh \in Shards : w = <<RLock(sh), LockAllOf({sh})>> BY <3>2
      <4>2. RLock(sh) \in Section /\ LockAllOf({sh}) \in Section BY SectionTypes
      <4> QED BY <4>1, <4>2
    <3> QED BY <2>1, <3>1, <3>2 DEF GetOrCreateScope
  <2>2. CASE w \in DeleteScope
    <3>1. PICK sh \in Shards : w = <<LockAllOf({sh})>> BY <2>2 DEF DeleteScope
    <3>2. LockAllOf({sh}) \in Section BY SectionTypes
    <3> QED BY <3>1, <3>2
  <2>3. CASE w \in ReplaceScopes
    <3>1. PICK S \in (SUBSET Shards) \ {{}} : w = <<LockAllOf(S)>> BY <2>3 DEF ReplaceScopes
    <3>2. LockAllOf(S) \in Section BY SectionTypes
    <3> QED BY <3>1, <3>2
  <2> QED BY <1>1, <2>1, <2>2, <2>3
<1>2. CASE r \in CleanupIfEmptyAndUnused
  <2>1. PICK sh \in Shards : r = <<RLock(sh), LockAllOf({sh}), LockAllOf({sh})>>
    BY <1>2 DEF CleanupIfEmptyAndUnused
  <2>2. RLock(sh) \in Section /\ LockAllOf({sh}) \in Section BY SectionTypes
  <2> QED BY <2>1, <2>2
<1>3. CASE r \in LockAllShards
  <2>1. r = <<LockAllOf(Shards)>> /\ LockAllOf(Shards) \in Section BY <1>3, SectionTypes DEF LockAllShards
  <2> QED BY <2>1
<1>4. CASE r \in ScopeList
  <2>1. r = [sh \in 1..NumShards |-> RLock(sh)] BY <1>4 DEF ScopeList, Shards
  <2>2. r \in [1..NumShards -> Section] BY <2>1, SectionTypes DEF Shards
  <2>3. r \in Seq(Section) /\ Len(r) = NumShards BY <2>2, ShardConstants
  <2>4. NumShards > 0 BY ShardConstants DEF Shards
  <2> QED BY <2>3, <2>4
<1>5. CASE r \in Emitting
  <2>1. PICK w \in GetOrCreateScope \cup DeleteScope \cup ReplaceScopes : r = w \o <<RLock(EventsShard)>>
    BY <1>5 DEF Emitting
  <2>2. w \in Seq(Section) /\ w # <<>> BY <1>1
  <2>3. <<RLock(EventsShard)>> \in Seq(Section) BY SectionTypes, ShardConstants
  <2>4. r \in Seq(Section) /\ Len(r) = Len(w) + 1 BY <2>1, <2>2, <2>3
  <2> QED BY <2>2, <2>4
<1>6. \/ r \in GetOrCreateScope \cup DeleteScope \cup ReplaceScopes
      \/ r \in CleanupIfEmptyAndUnused \/ r \in LockAllShards \/ r \in ScopeList \/ r \in Emitting
  BY Zenon DEF Requests, Made
<1> QED BY <1>1, <1>2, <1>3, <1>4, <1>5, <1>6

----------------------------------------------------------------------------
(* The invariant *)

\* A goroutine is not concerned by what another one does to its own locks.
LEMMA OthersWanted ==
  ASSUME NEW q, section'[q] = section[q], got'[q] = got[q]
  PROVE  Wanted(q)' = Wanted(q) /\ (Writes(q)' <=> Writes(q))
BY DEF Wanted, Writes, NextShard, Lowest

LEMMA InitShardInv == Init => ShardInv
<1> SUFFICES ASSUME Init PROVE ShardInv OBVIOUS
<1>1. TypeOK
  <2>1. RLock(EventsShard) \in Section BY SectionTypes, ShardConstants
  <2> QED BY <2>1 DEF Init, TypeOK
<1>2. Stages BY DEF Init, Stages
<1>3. WriterWants BY DEF Init, WriterWants
<1>4. WritersAlone BY DEF Init, WritersAlone
<1> QED BY <1>1, <1>2, <1>3, <1>4 DEF ShardInv

LEMMA CallKeeps ==
  ASSUME ShardInv, NEW p \in Procs, Call(p)
  PROVE  ShardInv'
<1> USE DEF ShardInv
<1>1. PICK r \in Requests : /\ section' = [section EXCEPT ![p] = Head(r)]
                            /\ later' = [later EXCEPT ![p] = Tail(r)]
  BY DEF Call
<1>2. r \in Seq(Section) /\ r # <<>> BY RequestTypes
<1>3. Head(r) \in Section /\ Tail(r) \in Seq(Section) BY <1>2
<1>4. pc[p] = "idle" /\ pc' = [pc EXCEPT ![p] = "lock"] /\ got' = got /\ writer' = writer BY DEF Call
<1>5. TypeOK' BY <1>1, <1>3, <1>4 DEF TypeOK
<1>6. got[p] = {} BY <1>4 DEF Stages
<1>7. Head(r).shards # {} BY <1>3 DEF Section
<1>8. \A q \in Procs : q # p => pc'[q] = pc[q] /\ section'[q] = section[q] BY <1>1, <1>4 DEF TypeOK
<1>9. pc'[p] = "lock" /\ section'[p] = Head(r) BY <1>1, <1>4 DEF TypeOK
<1>10. Stages' BY <1>4, <1>6, <1>7, <1>8, <1>9 DEF Stages
<1>11. \A sh \in Shards : writer[sh] # p BY <1>4, <1>6, ShardConstants DEF WriterWants, TypeOK
<1>12. \A q \in Procs : q # p => Wanted(q)' = Wanted(q) /\ (Writes(q)' <=> Writes(q))
  BY <1>4, <1>8, OthersWanted
<1>13. WriterWants'
  <2> SUFFICES ASSUME NEW sh \in Shards, writer[sh] # NoProc
               PROVE  /\ Writes(writer[sh])'
                      /\ sh \in got[writer[sh]] \/ (pc'[writer[sh]] = "lock" /\ sh = Wanted(writer[sh])')
    BY <1>4 DEF WriterWants
  <2>1. PICK q \in Procs : q = writer[sh] BY DEF TypeOK
  <2>2. q # p BY <2>1, <1>11
  <2>3. Writes(q)' /\ (sh \in got[q] \/ (pc'[q] = "lock" /\ sh = Wanted(q)'))
    BY <2>1, <2>2, <1>8, <1>12 DEF WriterWants
  <2> QED BY <2>1, <2>3, <1>4
<1>14. WritersAlone' BY <1>4, <1>6, <1>12 DEF WritersAlone
<1> QED BY <1>5, <1>10, <1>13, <1>14

LEMMA AnnounceKeeps ==
  ASSUME ShardInv, NEW p \in Procs, Announce(p)
  PROVE  ShardInv'
<1> USE DEF ShardInv
<1>1. /\ pc[p] = "lock" /\ Writes(p) /\ writer[Wanted(p)] = NoProc
      /\ writer' = [writer EXCEPT ![Wanted(p)] = p]
      /\ pc' = pc /\ section' = section /\ later' = later /\ got' = got
  BY DEF Announce
<1>2. Wanted(p) \in Shards /\ Wanted(p) \notin got[p]
  BY <1>1, WantedFacts DEF Stages
<1>3. TypeOK' BY <1>1, <1>2 DEF TypeOK
<1>4. Stages' BY <1>1 DEF Stages
<1>5. \A q \in Procs : Wanted(q)' = Wanted(q) /\ (Writes(q)' <=> Writes(q)) BY <1>1, OthersWanted
<1>6. WriterWants'
  <2> SUFFICES ASSUME NEW sh \in Shards, writer'[sh] # NoProc
               PROVE  /\ Writes(writer[sh])'
                      /\ sh \in got'[writer'[sh]] \/ (pc'[writer'[sh]] = "lock" /\ sh = Wanted(writer[sh])')
    BY DEF WriterWants
  <2>1. PICK q \in Procs : q = writer'[sh] BY <1>3 DEF TypeOK
  <2>2. CASE sh = Wanted(p)
    <3>1. q = p BY <2>1, <2>2, <1>1, <1>2 DEF TypeOK
    <3> QED BY <3>1, <2>1, <2>2, <1>1, <1>5
  <2>3. CASE sh # Wanted(p)
    <3>1. q = writer[sh] BY <2>1, <2>3, <1>1 DEF TypeOK
    <3>2. Writes(q) /\ (sh \in got[q] \/ (pc[q] = "lock" /\ sh = Wanted(q)))
      BY <3>1, <2>1 DEF WriterWants
    <3> QED BY <3>2, <2>1, <1>1, <1>5
  <2> QED BY <2>2, <2>3
<1>7. WritersAlone'
  <2> SUFFICES ASSUME NEW q \in Procs, NEW sh \in got[q], Writes(q)
               PROVE  writer'[sh] = q /\ \A o \in Procs \ {q} : sh \notin got[o]
    BY <1>1, <1>5 DEF WritersAlone
  <2>1. writer[sh] = q /\ \A o \in Procs \ {q} : sh \notin got[o] BY DEF WritersAlone
  <2>2. sh # Wanted(p) BY <2>1, <1>1, ShardConstants
  <2>3. sh \in Shards BY DEF TypeOK
  <2> QED BY <2>1, <2>2, <2>3, <1>1, <1>2 DEF TypeOK
<1> QED BY <1>3, <1>4, <1>6, <1>7

LEMMA LockKeeps ==
  ASSUME ShardInv, NEW p \in Procs, Lock(p)
  PROVE  ShardInv'
<1> USE DEF ShardInv
<1> DEFINE w == Wanted(p)
<1>1. /\ pc[p] = "lock" /\ Free(p, w)
      /\ got' = [got EXCEPT ![p] = @ \cup {w}]
      /\ pc' = [pc EXCEPT ![p] = IF got[p] \cup {w} = section[p].shards THEN "hold" ELSE "lock"]
      /\ section' = section /\ later' = later /\ writer' = writer
  BY DEF Lock
<1>2. got[p] \subseteq section[p].shards /\ got[p] # section[p].shards BY <1>1 DEF Stages
<1>3. /\ w \in section[p].shards \ got[p] /\ w \in Shards
      /\ \A t \in section[p].shards \ got[p] : w <= t
  BY <1>2, WantedFacts
<1> HIDE DEF w
<1>4. TypeOK' BY <1>1, <1>3 DEF TypeOK
<1>5. \A q \in Procs : q # p => pc'[q] = pc[q] /\ got'[q] = got[q] BY <1>1 DEF TypeOK
<1>6. /\ got'[p] = got[p] \cup {w}
      /\ pc'[p] = IF got[p] \cup {w} = section[p].shards THEN "hold" ELSE "lock"
  BY <1>1 DEF TypeOK
<1>7. \A q \in Procs : q # p => Wanted(q)' = Wanted(q) BY <1>1, <1>5, OthersWanted
<1>8. \A q \in Procs : Writes(q)' <=> Writes(q) BY <1>1 DEF Writes
<1>9. Stages'
  <2>1. ASSUME NEW x \in got[p] \cup {w}, NEW y \in section[p].shards \ (got[p] \cup {w}) PROVE x < y
    <3>1. y \in section[p].shards \ got[p] /\ y # w OBVIOUS
    <3>2. x \in Nat /\ y \in Nat /\ w \in Nat
      <4>1. section[p].shards \subseteq Shards BY DEF TypeOK, Section
      <4> QED BY <1>2, <1>3, <3>1, <4>1, ShardConstants DEF Shards
    <3>3. CASE x = w BY <3>1, <3>2, <3>3, <1>3
    <3>4. CASE x \in got[p] BY <3>1, <3>4, <1>1 DEF Stages
    <3> QED BY <3>3, <3>4
  <2>2. ASSUME NEW q \in Procs, q # p
        PROVE  /\ pc'[q] = "idle" => got'[q] = {}
               /\ pc'[q] = "lock" => got'[q] \subseteq section'[q].shards /\ got'[q] # section'[q].shards
               /\ pc'[q] = "hold" => got'[q] = section'[q].shards
               /\ pc'[q] = "lock" => \A x \in got'[q], y \in section'[q].shards \ got'[q] : x < y
    BY <1>1, <1>5, <2>2 DEF Stages
  <2>3. /\ pc'[p] = "idle" => got'[p] = {}
        /\ pc'[p] = "lock" => got'[p] \subseteq section'[p].shards /\ got'[p] # section'[p].shards
        /\ pc'[p] = "hold" => got'[p] = section'[p].shards
        /\ pc'[p] = "lock" => \A x \in got'[p], y \in section'[p].shards \ got'[p] : x < y
    BY <1>1, <1>2, <1>3, <1>6, <2>1
  <2> QED BY <2>2, <2>3 DEF Stages
<1>10. WriterWants'
  <2> SUFFICES ASSUME NEW sh \in Shards, writer[sh] # NoProc
               PROVE  /\ Writes(writer[sh])'
                      /\ sh \in got'[writer[sh]] \/ (pc'[writer[sh]] = "lock" /\ sh = Wanted(writer[sh])')
    BY <1>1 DEF WriterWants
  <2>1. PICK q \in Procs : q = writer[sh] BY DEF TypeOK
  <2>2. Writes(q) /\ (sh \in got[q] \/ (pc[q] = "lock" /\ sh = Wanted(q))) BY <2>1 DEF WriterWants
  <2>3. CASE q = p BY <2>1, <2>2, <2>3, <1>1, <1>6, <1>8 DEF w
  <2>4. CASE q # p BY <2>1, <2>2, <2>4, <1>1, <1>5, <1>7, <1>8
  <2> QED BY <2>3, <2>4
<1>11. WritersAlone'
  <2> SUFFICES ASSUME NEW q \in Procs, NEW sh \in got'[q], Writes(q), NEW o \in Procs \ {q}
               PROVE  writer[sh] = q /\ sh \notin got'[o]
    <3>1. ASSUME NEW q \in Procs, NEW sh \in got'[q], Writes(q) PROVE writer[sh] = q
      <4>1. CASE sh \in got[q] BY <4>1, <3>1 DEF WritersAlone
      <4>2. CASE q = p /\ sh = w BY <4>2, <3>1, <1>1 DEF Free
      <4> QED BY <4>1, <4>2, <1>5, <1>6
    <3> QED BY <3>1, <1>1, <1>8 DEF WritersAlone
  <2>1. CASE q = p /\ sh = w BY <2>1, <1>1, <1>5 DEF Free
  <2>2. CASE sh \in got[q]
    <3>1. writer[sh] = q /\ sh \notin got[o] BY <2>2 DEF WritersAlone
    <3>2. CASE o = p /\ sh = w
      <4>1. writer[w] = IF Writes(p) THEN p ELSE NoProc BY <1>1 DEF Free
      <4> QED BY <4>1, <3>1, <3>2, ShardConstants
    <3> QED BY <3>1, <3>2, <1>5, <1>6
  <2> QED BY <2>1, <2>2, <1>5, <1>6
<1> QED BY <1>4, <1>9, <1>10, <1>11

LEMMA WorkKeeps ==
  ASSUME ShardInv, NEW p \in Procs, Work(p)
  PROVE  ShardInv'
<1> USE DEF ShardInv
<1>1. /\ pc[p] = "hold" /\ pc' = [pc EXCEPT ![p] = "unlock"]
      /\ section' = section /\ later' = later /\ got' = got /\ writer' = writer
  BY DEF Work
<1>2. TypeOK' BY <1>1 DEF TypeOK
<1>3. \A q \in Procs : q # p => pc'[q] = pc[q] BY <1>1 DEF TypeOK
<1>4. pc'[p] = "unlock" BY <1>1 DEF TypeOK
<1>5. Stages' BY <1>1, <1>3, <1>4 DEF Stages
<1>6. \A q \in Procs : Wanted(q)' = Wanted(q) /\ (Writes(q)' <=> Writes(q)) BY <1>1, OthersWanted
<1>7. WriterWants'
  <2> SUFFICES ASSUME NEW sh \in Shards, writer[sh] # NoProc
               PROVE  /\ Writes(writer[sh])'
                      /\ sh \in got[writer[sh]] \/ (pc'[writer[sh]] = "lock" /\ sh = Wanted(writer[sh])')
    BY <1>1 DEF WriterWants
  <2>1. PICK q \in Procs : q = writer[sh] BY DEF TypeOK
  <2>2. Writes(q) /\ (sh \in got[q] \/ (pc[q] = "lock" /\ sh = Wanted(q))) BY <2>1 DEF WriterWants
  <2> QED BY <2>1, <2>2, <1>1, <1>3, <1>6
<1>8. WritersAlone' BY <1>1, <1>6 DEF WritersAlone
<1> QED BY <1>2, <1>5, <1>7, <1>8

\* What the release of one shard leaves of the two tables of locks.
LEMMA UnlockedFacts ==
  ASSUME ShardInv, NEW p \in Procs, NEW sh \in got[p], pc[p] = "unlock", Unlocked(p, sh)
  PROVE  /\ got' \in [Procs -> SUBSET Shards] /\ writer' \in [Shards -> Procs \cup {NoProc}]
         /\ got'[p] = got[p] \ {sh} /\ \A q \in Procs : q # p => got'[q] = got[q]
         /\ \A t \in Shards : writer'[t] # NoProc =>
              writer'[t] = writer[t] /\ (writer[t] = p => t \in got'[p])
         /\ \A q \in Procs : \A t \in got'[q] : Writes(q) => writer'[t] = q
<1> USE DEF ShardInv
<1>1. got' = [got EXCEPT ![p] = @ \ {sh}] BY DEF Unlocked
<1>2. writer' = IF Writes(p) THEN [writer EXCEPT ![sh] = NoProc] ELSE writer BY DEF Unlocked
<1>3. sh \in Shards BY DEF TypeOK
<1>4. got' \in [Procs -> SUBSET Shards] /\ writer' \in [Shards -> Procs \cup {NoProc}]
  BY <1>1, <1>2, <1>3 DEF TypeOK
<1>5. got'[p] = got[p] \ {sh} /\ \A q \in Procs : q # p => got'[q] = got[q] BY <1>1 DEF TypeOK
<1>6. \A t \in Shards : t # sh => writer'[t] = writer[t] BY <1>2 DEF TypeOK
<1>7. Writes(p) => writer'[sh] = NoProc BY <1>2, <1>3 DEF TypeOK
<1>8. ~ Writes(p) => writer'[sh] = writer[sh] BY <1>2
<1>9. ASSUME NEW t \in Shards, writer'[t] # NoProc
      PROVE  writer'[t] = writer[t] /\ (writer[t] = p => t \in got'[p])
  <2>1. writer'[t] = writer[t] BY <1>6, <1>7, <1>8, <1>9
  <2>2. ASSUME writer[t] = p PROVE t \in got'[p]
    <3>1. Writes(p) /\ t \in got[p] BY <2>2, ShardConstants DEF WriterWants
    <3> QED BY <3>1, <1>5, <1>7, <1>9
  <2> QED BY <2>1, <2>2
<1>10. ASSUME NEW q \in Procs, NEW t \in got'[q], Writes(q) PROVE writer'[t] = q
  <2>1. t \in got[q] /\ t \in Shards BY <1>4, <1>5
  <2>2. writer[t] = q /\ \A o \in Procs \ {q} : t \notin got[o] BY <2>1, <1>10 DEF WritersAlone
  <2>3. t # sh BY <2>2, <1>5
  <2> QED BY <2>1, <2>2, <2>3, <1>6
<1> QED BY <1>4, <1>5, <1>9, <1>10

LEMMA UnlockKeeps ==
  ASSUME ShardInv, NEW p \in Procs, NEW sh, Unlock(p, sh)
  PROVE  ShardInv'
<1> USE DEF ShardInv
<1>1. /\ pc[p] = "unlock" /\ sh \in got[p] /\ Unlocked(p, sh)
      /\ pc' = pc /\ section' = section /\ later' = later
  BY DEF Unlock
<1>2. /\ got' \in [Procs -> SUBSET Shards] /\ writer' \in [Shards -> Procs \cup {NoProc}]
      /\ got'[p] = got[p] \ {sh} /\ \A q \in Procs : q # p => got'[q] = got[q]
      /\ \A t \in Shards : writer'[t] # NoProc =>
           writer'[t] = writer[t] /\ (writer[t] = p => t \in got'[p])
      /\ \A q \in Procs : \A t \in got'[q] : Writes(q) => writer'[t] = q
  BY <1>1, UnlockedFacts
<1>3. TypeOK' BY <1>1, <1>2 DEF TypeOK
<1>4. Stages' BY <1>1, <1>2 DEF Stages
<1>5. \A q \in Procs : q # p => Wanted(q)' = Wanted(q) BY <1>1, <1>2, OthersWanted
<1>6. \A q \in Procs : Writes(q)' <=> Writes(q) BY <1>1 DEF Writes
<1>7. WriterWants'
  <2> SUFFICES ASSUME NEW t \in Shards, writer'[t] # NoProc
               PROVE  /\ Writes(writer[t])'
                      /\ t \in got'[writer'[t]] \/ (pc'[writer'[t]] = "lock" /\ t = Wanted(writer[t])')
    BY DEF WriterWants
  <2>1. PICK q \in Procs : q = writer'[t] BY <1>2
  <2>2. q = writer[t] /\ (q = p => t \in got'[p]) BY <2>1, <1>2
  <2>3. Writes(q) /\ (t \in got[q] \/ (pc[q] = "lock" /\ t = Wanted(q)))
    BY <2>1, <2>2 DEF WriterWants
  <2> QED BY <2>1, <2>2, <2>3, <1>1, <1>2, <1>5, <1>6
<1>8. WritersAlone'
  <2> SUFFICES ASSUME NEW q \in Procs, NEW t \in got'[q], Writes(q)
               PROVE  \A o \in Procs \ {q} : t \notin got'[o]
    BY <1>2, <1>6 DEF WritersAlone
  <2>1. t \in got[q] BY <1>2
  <2>2. \A o \in Procs \ {q} : t \notin got[o] BY <2>1 DEF WritersAlone
  <2> QED BY <2>2, <1>2
<1> QED BY <1>3, <1>4, <1>7, <1>8

LEMMA UnlockLastKeeps ==
  ASSUME ShardInv, NEW p \in Procs, NEW sh, UnlockLast(p, sh)
  PROVE  ShardInv'
<1> USE DEF ShardInv
<1>1. pc[p] = "unlock" /\ got[p] = {sh} /\ sh \in got[p] /\ Unlocked(p, sh) BY DEF UnlockLast
<1>2. /\ got' \in [Procs -> SUBSET Shards] /\ writer' \in [Shards -> Procs \cup {NoProc}]
      /\ got'[p] = got[p] \ {sh} /\ \A q \in Procs : q # p => got'[q] = got[q]
      /\ \A t \in Shards : writer'[t] # NoProc =>
           writer'[t] = writer[t] /\ (writer[t] = p => t \in got'[p])
      /\ \A q \in Procs : \A t \in got'[q] : Writes(q) => writer'[t] = q
  BY <1>1, UnlockedFacts
<1>3. got'[p] = {} BY <1>1, <1>2
<1>4. later[p] \in Seq(Section) BY DEF TypeOK
<1>5. /\ pc' \in [Procs -> {"idle", "lock", "hold", "unlock"}] /\ section' \in [Procs -> Section]
      /\ later' \in [Procs -> Seq(Section)]
      /\ pc'[p] = "idle" \/ (pc'[p] = "lock" /\ section'[p].shards # {})
      /\ \A q \in Procs : q # p => pc'[q] = pc[q] /\ section'[q] = section[q]
  <2>1. CASE later[p] = <<>>
    <3>1. pc' = [pc EXCEPT ![p] = "idle"] /\ section' = section /\ later' = later BY <2>1 DEF UnlockLast
    <3> QED BY <3>1 DEF TypeOK
  <2>2. CASE later[p] # <<>>
    <3>1. /\ pc' = [pc EXCEPT ![p] = "lock"]
          /\ section' = [section EXCEPT ![p] = Head(later[p])]
          /\ later' = [later EXCEPT ![p] = Tail(later[p])]
      BY <2>2 DEF UnlockLast
    <3>2. Head(later[p]) \in Section /\ Tail(later[p]) \in Seq(Section) BY <1>4, <2>2
    <3>3. Head(later[p]).shards # {} BY <3>2 DEF Section
    <3> QED BY <3>1, <3>2, <3>3 DEF TypeOK
  <2> QED BY <2>1, <2>2
<1>6. TypeOK' BY <1>2, <1>5 DEF TypeOK
<1>7. Stages' BY <1>2, <1>3, <1>5, ZenonT(60) DEF Stages
<1>8. \A q \in Procs : q # p => Wanted(q)' = Wanted(q) /\ (Writes(q)' <=> Writes(q))
  BY <1>2, <1>5, OthersWanted
<1>9. WriterWants'
  <2> SUFFICES ASSUME NEW t \in Shards, writer'[t] # NoProc
               PROVE  /\ Writes(writer[t])'
                      /\ t \in got'[writer'[t]] \/ (pc'[writer'[t]] = "lock" /\ t = Wanted(writer[t])')
    BY DEF WriterWants
  <2>1. PICK q \in Procs : q = writer'[t] BY <1>2
  <2>2. q = writer[t] /\ q # p BY <2>1, <1>2, <1>3
  <2>3. Writes(q) /\ (t \in got[q] \/ (pc[q] = "lock" /\ t = Wanted(q)))
    BY <2>1, <2>2 DEF WriterWants
  <2> QED BY <2>1, <2>2, <2>3, <1>2, <1>5, <1>8
<1>10. WritersAlone'
  <2> SUFFICES ASSUME NEW q \in Procs, NEW t \in got'[q], Writes(q)'
               PROVE  writer'[t] = q /\ \A o \in Procs \ {q} : t \notin got'[o]
    BY DEF WritersAlone
  <2>1. q # p BY <1>3
  <2>2. t \in got[q] /\ Writes(q) BY <2>1, <1>2, <1>8
  <2>3. \A o \in Procs \ {q} : t \notin got[o] BY <2>2 DEF WritersAlone
  <2> QED BY <2>2, <2>3, <1>2
<1> QED BY <1>6, <1>7, <1>9, <1>10

LEMMA ShardStep == ShardInv /\ [Next]_vars => ShardInv'
<1> SUFFICES ASSUME ShardInv, [Next]_vars PROVE ShardInv' OBVIOUS
<1>1. CASE Next
  <2>1. PICK p \in Procs : Call(p) \/ Announce(p) \/ Lock(p) \/ Work(p) \/ Release(p)
    BY <1>1 DEF Next
  <2> QED BY <2>1, CallKeeps, AnnounceKeeps, LockKeeps, WorkKeeps, UnlockKeeps, UnlockLastKeeps
      DEF Release
<1>2. CASE UNCHANGED vars
  <2>1. pc' = pc /\ section' = section /\ later' = later /\ got' = got /\ writer' = writer
    BY <1>2 DEF vars
  <2> QED BY <2>1 DEF ShardInv, TypeOK, Stages, WriterWants, WritersAlone, Wanted, Writes, NextShard, Lowest
<1> QED BY <1>1, <1>2

\* The loops of lockAllShards, lockShards and unlockShards keep the tables of
\* locks in order: who writes is alone, who announced itself is next.
THEOREM ShardInvariant == Spec => []ShardInv
<1>1. Init => ShardInv BY InitShardInv
<1>2. ShardInv /\ [Next]_vars => ShardInv' BY ShardStep
<1> QED BY <1>1, <1>2, PTL DEF Spec

----------------------------------------------------------------------------
(* Somebody can always go on *)

\* Among the goroutines that wait, look at one that waits for the highest shard:
\* nobody can have that shard, so that its writer, or whoever asks, may go on.
LEMMA SomebodyCanStep == ShardInv => NoDeadlock
<1> SUFFICES ASSUME ShardInv, NEW p0 \in Procs, pc[p0] # "idle", \A p \in Procs : ~ CanStep(p)
             PROVE  FALSE
  BY DEF NoDeadlock
<1> USE DEF ShardInv
<1>1. \A p \in Procs : pc[p] = "idle" \/ pc[p] = "lock" BY DEF CanStep, TypeOK
<1>2. ASSUME NEW p \in Procs, pc[p] = "lock"
      PROVE  Wanted(p) \in Shards /\ Wanted(p) \in section[p].shards \ got[p]
  BY <1>2, WantedFacts DEF Stages
<1> DEFINE B == {Wanted(p) : p \in {q \in Procs : pc[q] = "lock"}}
<1>3. B \subseteq Shards /\ B # {} BY <1>1, <1>2
<1>4. PICK m \in B : \A y \in B : y <= m
  <2> HIDE DEF B
  <2> QED BY <1>3, HighestOf
<1>5. PICK p \in Procs : pc[p] = "lock" /\ m = Wanted(p) BY <1>4
<1>6. m \in Shards BY <1>3, <1>4
<1>7. ASSUME NEW q \in Procs, m \in got[q] PROVE FALSE
  <2>1. pc[q] = "lock" BY <1>1, <1>7 DEF Stages
  <2>2. Wanted(q) \in Shards /\ Wanted(q) \in section[q].shards \ got[q] BY <1>2, <2>1
  <2>3. m < Wanted(q) BY <1>7, <2>1, <2>2 DEF Stages
  <2>4. Wanted(q) \in B BY <2>1
  <2>5. Wanted(q) <= m BY <1>4, <2>4
  <2> QED BY <2>2, <2>3, <2>5, <1>6, ShardConstants DEF Shards
<1>8. writer[m] # NoProc BY <1>5 DEF CanStep, Free
<1>9. PICK q \in Procs : q = writer[m] BY <1>6, <1>8 DEF TypeOK
<1>10. Writes(q) /\ pc[q] = "lock" /\ m = Wanted(q) BY <1>6, <1>7, <1>8, <1>9 DEF WriterWants
<1>11. Free(q, Wanted(q)) BY <1>7, <1>9, <1>10 DEF Free
<1> QED BY <1>10, <1>11 DEF CanStep

\* No deadlock between /wipe, /rebuild, /warm, /delete_scope, creations, scans and
\* the emission of events, for any number of goroutines and shards.
THEOREM NobodyDeadlocks == Spec => []NoDeadlock
BY ShardInvariant, SomebodyCanStep, PTL

----------------------------------------------------------------------------
(* Locks one by one implement locks at once *)

\* No two sections, the one p is about to enter included, conflict.
LEMMA SectionsCompatible ==
  ASSUME ShardInv, NEW p \in Procs, NEW q \in Procs \ {p},
         got[q] = section[q].shards,
         NEW S, S = section[p].shards, NEW w,
         got[p] \cup {w} = S, Free(p, w)
  PROVE  section[q].shards \cap S = {} \/ (section[q].mode = "R" /\ section[p].mode = "R")
<1> USE DEF ShardInv
<1>1. section[q].mode \in {"R", "W"} /\ section[p].mode \in {"R", "W"} BY DEF TypeOK, Section
<1>2. CASE Writes(p)
  <2>1. w \notin got[q] BY <1>2 DEF Free
  <2>2. \A t \in got[p] : t \notin got[q] BY <1>2 DEF WritersAlone
  <2> QED BY <2>1, <2>2
<1>3. CASE ~ Writes(p) /\ Writes(q)
  <2>1. \A t \in got[q] : writer[t] = q /\ t \notin got[p] BY <1>3 DEF WritersAlone
  <2>2. writer[w] = NoProc BY <1>3 DEF Free
  <2>3. w \notin got[q] BY <2>1, <2>2, ShardConstants
  <2> QED BY <2>1, <2>3
<1>4. CASE ~ Writes(p) /\ ~ Writes(q) BY <1>1, <1>4 DEF Writes
<1> QED BY <1>2, <1>3, <1>4

\* The last lock of a section is Enter, the section's end is Leave, the rest
\* changes nothing that AtomicShards can see.
LEMMA StepIsAtomic ==
  ASSUME ShardInv, [Next]_vars
  PROVE  [Atomic!Next]_Inside
<1> USE DEF ShardInv
<1> DEFINE none == [mode |-> "R", shards |-> {}]
<1>1. CASE UNCHANGED vars BY <1>1 DEF vars, Inside
<1>2. ASSUME NEW p \in Procs, Call(p) PROVE Inside' = Inside
  BY <1>2 DEF Call, TypeOK, Inside
<1>3. ASSUME NEW p \in Procs, Announce(p) PROVE Inside' = Inside
  BY <1>3 DEF Announce, Inside
<1>4. ASSUME NEW p \in Procs, Release(p) PROVE Inside' = Inside
  BY <1>4 DEF Release, Unlock, UnlockLast, TypeOK, Inside
<1>5. ASSUME NEW p \in Procs, Work(p) PROVE Atomic!Leave(p)
  <2>1. section[p].shards # {} BY DEF TypeOK, Section
  <2>2. Inside[p] = section[p] BY <1>5 DEF Work, Inside
  <2>3. Inside[p] # none BY <2>1, <2>2
  <2>4. Inside' = [Inside EXCEPT ![p] = none] BY <1>5 DEF Work, TypeOK, Inside
  <2> QED BY <2>3, <2>4 DEF Atomic!Leave, Atomic!NoSection
<1>6. ASSUME NEW p \in Procs, Lock(p) PROVE Inside' = Inside \/ \E c \in Atomic!Section : Atomic!Enter(p, c)
  <2> DEFINE w == Wanted(p)
  <2>1. pc[p] = "lock" /\ Free(p, w) /\ section' = section BY <1>6 DEF Lock
  <2>2. pc' = [pc EXCEPT ![p] = IF got[p] \cup {w} = section[p].shards THEN "hold" ELSE "lock"]
    BY <1>6 DEF Lock
  <2> HIDE DEF w
  <2>3. CASE got[p] \cup {w} # section[p].shards
    BY <2>1, <2>2, <2>3 DEF TypeOK, Inside
  <2>4. CASE got[p] \cup {w} = section[p].shards
    <3>1. section[p] \in Atomic!Section BY DEF TypeOK, Section, Atomic!Section
    <3>2. Inside[p] = none BY <2>1 DEF Inside
    <3>3. Inside' = [Inside EXCEPT ![p] = section[p]] BY <2>1, <2>2, <2>4 DEF TypeOK, Inside
    <3>4. ASSUME NEW q \in Procs \ {p} PROVE Atomic!Compatible(Inside[q], section[p])
      <4>1. CASE pc[q] # "hold"
        <5>1. Inside[q] = none BY <4>1 DEF Inside
        <5> QED BY <5>1 DEF Atomic!Compatible
      <4>2. CASE pc[q] = "hold"
        <5>1. Inside[q] = section[q] BY <4>2 DEF Inside
        <5>2. got[q] = section[q].shards BY <4>2 DEF Stages
        <5>3. section[q].shards \cap section[p].shards = {} \/ (section[q].mode = "R" /\ section[p].mode = "R")
          BY <2>1, <2>4, <5>2, SectionsCompatible
        <5> QED BY <5>1, <5>3 DEF Atomic!Compatible
      <4> QED BY <4>1, <4>2
    <3>5. Atomic!Enter(p, section[p]) BY <3>2, <3>3, <3>4 DEF Atomic!Enter, Atomic!NoSection
    <3> QED BY <3>1, <3>5
  <2> QED BY <2>3, <2>4
<1>7. CASE Next
  <2>1. PICK p \in Procs : Call(p) \/ Announce(p) \/ Lock(p) \/ Work(p) \/ Release(p)
    BY <1>7 DEF Next
  <2>2. Inside' = Inside \/ Atomic!Leave(p) \/ \E c \in Atomic!Section : Atomic!Enter(p, c)
    BY <2>1, <1>2, <1>3, <1>4, <1>5, <1>6
  <2> QED BY <2>2 DEF Atomic!Next
<1> QED BY <1>1, <1>7

\* lockAllShards and lockShards give what taking every shard of a section in one
\* step would: bulk operations exclude each other and every lookup.
THEOREM LocksAreAtomic == Spec => TakenAtOnce
<1>1. Init => Atomic!Init BY DEF Init, Inside, Atomic!Init, Atomic!NoSection
<1>2. ShardInv /\ [Next]_vars => [Atomic!Next]_Inside BY StepIsAtomic
<1> QED BY <1>1, <1>2, ShardInvariant, PTL DEF Spec, TakenAtOnce, Atomic!Spec

=============================================================================
