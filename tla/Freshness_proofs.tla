-------------------------- MODULE Freshness_proofs --------------------------
(***************************************************************************)
(* The store's freshness stamp for any number of goroutines and scopes and *)
(* for clocks that step back: it covers every change that can be seen, is  *)
(* always the stamp of a change, never goes back, and is not behind any    *)
(* scope once no write is under way, but for the scopes that history names. *)
(***************************************************************************)
EXTENDS Freshness, TLAPS

\* The types of the stamps.
StampTypes ==
  /\ clock \in Nat /\ storeTS \in Nat /\ ticks \subseteq Nat
  /\ pc \in [Procs -> {"idle", "buffer", "now", "load", "cas", "cleanup", "lock"}]
  /\ stamp \in [Procs -> Nat] /\ cur \in [Procs -> Nat]

\* A goroutine swaps only to raise.
SwapsRaise == \A p \in Procs : pc[p] = "cas" => cur[p] < stamp[p]

\* In the loop of bumpLastWriteTS.
Bumping(p) == pc[p] \in {"load", "cas"}

\* The stamp is that of a change that is visible or about to be.
StampIsAChange == storeTS # 0 => storeTS \in ticks \/ \E p \in Procs : Bumping(p) /\ storeTS = stamp[p]

\* The inductive invariant.
FreshInv == StampTypes /\ SwapsRaise /\ VisibleIsTicked /\ StampIsAChange

----------------------------------------------------------------------------

LEMMA InitFresh == Init => FreshInv
BY DEF Init, FreshInv, StampTypes, SwapsRaise, VisibleIsTicked, StampIsAChange

\* What an action outside the loop does to the stamps: it may take one of its own.
Quiet(p) ==
  /\ ~ Bumping(p)
  /\ storeTS' = storeTS /\ ticks' = ticks /\ clock' = clock
  /\ \E l \in {"idle", "buffer", "now", "load", "cleanup", "lock"} : pc' = [pc EXCEPT ![p] = l]
  /\ \E t \in Nat : stamp' = [stamp EXCEPT ![p] = t]
  /\ \E t \in Nat : cur' = [cur EXCEPT ![p] = t]

LEMMA QuietKeeps ==
  ASSUME FreshInv, NEW p \in Procs, Quiet(p)
  PROVE  FreshInv'
<1> USE DEF FreshInv
<1>1. StampTypes' BY DEF Quiet, StampTypes
<1>2. /\ pc'[p] # "cas"
      /\ \A q \in Procs : q # p => pc'[q] = pc[q] /\ stamp'[q] = stamp[q] /\ cur'[q] = cur[q]
  BY DEF Quiet, StampTypes
<1>3. SwapsRaise' BY <1>2 DEF SwapsRaise
<1>4. VisibleIsTicked' BY DEF Quiet, VisibleIsTicked
<1>5. StampIsAChange'
  <2>1. storeTS' = storeTS /\ ticks' = ticks /\ ~ Bumping(p) BY DEF Quiet
  <2>2. ASSUME NEW q \in Procs, Bumping(q), storeTS = stamp[q] PROVE Bumping(q)' /\ storeTS' = stamp'[q]
    BY <2>1, <2>2, <1>2 DEF Bumping
  <2> QED BY <2>1, <2>2 DEF StampIsAChange
<1> QED BY <1>1, <1>3, <1>4, <1>5

LEMMA OtherActionsAreQuiet ==
  ASSUME FreshInv, NEW p \in Procs,
         \/ \E s \in Scopes, o \in Ops : Begin(p, s, o)
         \/ Stamp(p) \/ CounterAdd(p) \/ CounterNow(p) \/ Refuse(p) \/ Cleanup(p)
         \/ \E s \in Scopes : DeleteScope(p, s)
         \/ RebuildBuild(p) \/ Rebuild(p) \/ Wipe(p)
  PROVE  Quiet(p)
<1> USE DEF FreshInv, StampTypes, Quiet, Bumping, Goto, Return, history
<1>1. stamp = [stamp EXCEPT ![p] = stamp[p]] /\ cur = [cur EXCEPT ![p] = cur[p]]
      /\ stamp[p] \in Nat /\ cur[p] \in Nat
  OBVIOUS
<1>2. ASSUME NEW s \in Scopes, NEW o \in Ops, Begin(p, s, o) PROVE Quiet(p)
  <2>1. storeTS' = storeTS BY <1>2 DEF Begin, NoTickOnCreate
  <2> QED BY <1>1, <1>2, <2>1 DEF Begin
<1>3. CASE Stamp(p) BY <1>1, <1>3 DEF Stamp
<1>4. CASE CounterAdd(p) BY <1>1, <1>4 DEF CounterAdd
<1>5. CASE CounterNow(p) BY <1>1, <1>5 DEF CounterNow
<1>6. CASE Refuse(p) BY <1>1, <1>6 DEF Refuse
<1>7. CASE Cleanup(p) BY <1>1, <1>7 DEF Cleanup
<1>8. ASSUME NEW s \in Scopes, DeleteScope(p, s) PROVE Quiet(p) BY <1>1, <1>8 DEF DeleteScope
<1>9. CASE RebuildBuild(p) BY <1>1, <1>9 DEF RebuildBuild
<1>10. CASE Rebuild(p) BY <1>1, <1>10 DEF Rebuild, SwapMaps
<1>11. CASE Wipe(p) BY <1>1, <1>11 DEF Wipe, SwapMaps
<1> QED BY <1>2, <1>3, <1>4, <1>5, <1>6, <1>7, <1>8, <1>9, <1>10, <1>11

\* The loop ends: the change is visible from here on.
LEMMA FinishKeeps ==
  ASSUME FreshInv, NEW p \in Procs, Bumping(p), Finish(p), clock' = clock,
         storeTS' \in Nat, storeTS' >= storeTS, storeTS' >= stamp[p],
         storeTS' = storeTS \/ storeTS' = stamp[p]
  PROVE  FreshInv'
<1> USE DEF FreshInv
<1>1. /\ pc' = [pc EXCEPT ![p] = "idle"]
      /\ stamp' = [stamp EXCEPT ![p] = 0] /\ cur' = [cur EXCEPT ![p] = 0]
      /\ ticks' = ticks \cup {stamp[p]}
  BY DEF Finish, Return, Goto
<1>2. StampTypes' BY <1>1 DEF StampTypes
<1>3. /\ pc'[p] = "idle"
      /\ \A q \in Procs : q # p => pc'[q] = pc[q] /\ stamp'[q] = stamp[q] /\ cur'[q] = cur[q]
  BY <1>1 DEF StampTypes
<1>4. SwapsRaise' BY <1>3 DEF SwapsRaise
<1>5. VisibleIsTicked' BY <1>1 DEF VisibleIsTicked, StampTypes
<1>6. StampIsAChange'
  <2>1. CASE storeTS' = stamp[p] BY <2>1, <1>1 DEF StampIsAChange
  <2>2. CASE storeTS' = storeTS /\ storeTS # stamp[p]
    <3>1. ASSUME NEW q \in Procs, Bumping(q), storeTS = stamp[q] PROVE Bumping(q)' /\ storeTS' = stamp'[q]
      BY <2>2, <3>1, <1>3 DEF Bumping
    <3> QED BY <2>2, <3>1, <1>1 DEF StampIsAChange
  <2> QED BY <2>1, <2>2
<1> QED BY <1>2, <1>4, <1>5, <1>6

\* The loop goes on.
LEMMA LoopKeeps ==
  ASSUME FreshInv, NEW p \in Procs, Bumping(p), NEW l \in {"load", "cas"},
         pc' = [pc EXCEPT ![p] = l], clock' = clock, storeTS' = storeTS, ticks' = ticks, stamp' = stamp,
         cur' \in [Procs -> Nat], \A q \in Procs : q # p => cur'[q] = cur[q],
         l = "cas" => cur'[p] < stamp[p]
  PROVE  FreshInv'
<1> USE DEF FreshInv
<1>1. StampTypes' BY DEF StampTypes
<1>2. pc'[p] = l /\ \A q \in Procs : q # p => pc'[q] = pc[q] BY DEF StampTypes
<1>3. SwapsRaise' BY <1>2 DEF SwapsRaise
<1>4. VisibleIsTicked' BY DEF VisibleIsTicked
<1>5. \A q \in Procs : Bumping(q) => Bumping(q)' BY <1>2 DEF Bumping
<1>6. StampIsAChange' BY <1>5 DEF StampIsAChange
<1> QED BY <1>1, <1>3, <1>4, <1>6

LEMMA BumpKeeps ==
  ASSUME FreshInv, NEW p \in Procs, BumpLoad(p) \/ BumpCas(p)
  PROVE  FreshInv' /\ storeTS' >= storeTS
<1> USE DEF FreshInv
<1>0. storeTS \in Nat /\ stamp[p] \in Nat /\ cur[p] \in Nat BY DEF StampTypes
<1>1. CASE BumpLoad(p)
  <2>1. Bumping(p) /\ clock' = clock /\ storeTS' = storeTS BY <1>1 DEF BumpLoad, Bumping
  <2>2. CASE stamp[p] <= storeTS
    <3>1. Finish(p) BY <1>1, <2>2 DEF BumpLoad
    <3>2. storeTS' \in Nat /\ storeTS' >= storeTS /\ storeTS' >= stamp[p] BY <1>0, <2>1, <2>2
    <3> QED BY <2>1, <3>1, <3>2, FinishKeeps
  <2>3. CASE ~ (stamp[p] <= storeTS)
    <3>1. /\ pc' = [pc EXCEPT ![p] = "cas"] /\ cur' = [cur EXCEPT ![p] = storeTS]
          /\ ticks' = ticks /\ stamp' = stamp
      BY <1>1, <2>3 DEF BumpLoad, Goto, history
    <3>2. /\ cur' \in [Procs -> Nat] /\ cur'[p] = storeTS
          /\ \A q \in Procs : q # p => cur'[q] = cur[q]
      BY <3>1, <1>0 DEF StampTypes
    <3>3. cur'[p] < stamp[p] BY <1>0, <2>3, <3>2
    <3>4. FreshInv' BY <2>1, <3>1, <3>2, <3>3, LoopKeeps
    <3> QED BY <3>4, <1>0, <2>1
  <2> QED BY <2>2, <2>3
<1>2. CASE BumpCas(p)
  <2>1. Bumping(p) /\ clock' = clock BY <1>2 DEF BumpCas, Bumping
  <2>2. CASE Swaps(p)
    <3>1. storeTS' = stamp[p] /\ Finish(p) BY <1>2, <2>2 DEF BumpCas
    <3>2. cur[p] < stamp[p] /\ storeTS = cur[p] BY <1>2, <2>2 DEF BumpCas, SwapsRaise, Swaps
    <3>3. storeTS' \in Nat /\ storeTS' >= storeTS /\ storeTS' >= stamp[p] BY <1>0, <3>1, <3>2
    <3>4. FreshInv' BY <2>1, <3>1, <3>3, FinishKeeps
    <3> QED BY <3>3, <3>4
  <2>3. CASE ~ Swaps(p)
    <3>1. /\ pc' = [pc EXCEPT ![p] = "load"] /\ storeTS' = storeTS /\ cur' = cur
          /\ ticks' = ticks /\ stamp' = stamp
      BY <1>2, <2>3 DEF BumpCas, Retry, Goto, history
    <3>2. cur' \in [Procs -> Nat] BY <3>1 DEF StampTypes
    <3>3. FreshInv' BY <2>1, <3>1, <3>2, LoopKeeps
    <3> QED BY <3>1, <3>3, <1>0
  <2> QED BY <2>2, <2>3
<1> QED BY <1>1, <1>2

LEMMA FreshStep ==
  ASSUME FreshInv, [Next]_vars
  PROVE  FreshInv' /\ storeTS' >= storeTS
<1>0. storeTS \in Nat BY DEF FreshInv, StampTypes
<1>1. CASE Tick
  <2>1. /\ clock' \in Nat /\ storeTS' = storeTS /\ ticks' = ticks
        /\ pc' = pc /\ stamp' = stamp /\ cur' = cur
    BY <1>1 DEF Tick, procVars
  <2>2. FreshInv'
    BY <2>1 DEF FreshInv, StampTypes, SwapsRaise, VisibleIsTicked, StampIsAChange, Bumping
  <2> QED BY <2>1, <2>2, <1>0
<1>2. ASSUME NEW p \in Procs, Step(p) PROVE FreshInv' /\ storeTS' >= storeTS
  <2>1. CASE BumpLoad(p) \/ BumpCas(p) BY <2>1, BumpKeeps
  <2>2. CASE ~ (BumpLoad(p) \/ BumpCas(p))
    <3>1. Quiet(p) BY <1>2, <2>2, OtherActionsAreQuiet DEF Step
    <3>2. storeTS' = storeTS BY <3>1 DEF Quiet
    <3> QED BY <3>1, <3>2, <1>0, QuietKeeps
  <2> QED BY <2>1, <2>2
<1>3. CASE UNCHANGED vars
  <2>1. /\ clock' = clock /\ storeTS' = storeTS /\ ticks' = ticks
        /\ pc' = pc /\ stamp' = stamp /\ cur' = cur
    BY <1>3 DEF vars, procVars, history
  <2>2. FreshInv'
    BY <2>1 DEF FreshInv, StampTypes, SwapsRaise, VisibleIsTicked, StampIsAChange, Bumping
  <2> QED BY <2>1, <2>2, <1>0
<1> QED BY <1>1, <1>2, <1>3 DEF Next

\* bumpLastWriteTS and its callers keep the invariant.
THEOREM FreshInvariant == Spec => []FreshInv
<1>1. FreshInv /\ [Next]_vars => FreshInv' BY FreshStep
<1> QED BY <1>1, InitFresh, PTL DEF Spec

\* A change that readers can see is covered by the store's stamp.
THEOREM ChangesAreCovered == Spec => []VisibleIsTicked
<1>1. FreshInv => VisibleIsTicked BY DEF FreshInv
<1> QED BY <1>1, FreshInvariant, PTL

\* The store's stamp is always that of a change.
THEOREM TicksAreChanges == Spec => []NoGhostTick
<1>1. FreshInv => NoGhostTick BY DEF FreshInv, StampIsAChange, NoGhostTick, Bumping
<1> QED BY <1>1, FreshInvariant, PTL

\* The store's stamp only ever advances.
THEOREM StampNeverRewinds == Spec => NeverRewinds
<1>1. FreshInv /\ [Next]_vars => [storeTS' >= storeTS]_vars BY FreshStep
<1> QED BY <1>1, FreshInvariant, PTL DEF Spec, NeverRewinds
----------------------------------------------------------------------------
(* The stamps of the scopes.  A scope's stamp may be ahead of the store's   *)
(* while somebody still owes the tick: the goroutine that made the scope's  *)
(* buffer, or the /wipe or /rebuild that holds every lock.                  *)

ScopeTypes ==
  /\ there \in [Scopes -> BOOLEAN] /\ made \in [Scopes -> Nat]
  /\ scopeTS \in [Scopes -> Nat] /\ skew \in [Procs -> BOOLEAN]
  /\ all \in Procs \cup {NoProc}
  /\ op \in [Procs -> Ops \cup {"none"}] /\ at \in [Procs -> Scopes \cup {AnyScope}]
  /\ ref \in [Procs -> Nat] /\ created \in [Procs -> BOOLEAN]

Swapping(p) == Bumping(p) /\ op[p] \in {"wipe", "rebuild"}

\* Who is where: only the goroutine with all the locks bumps for a swap of the maps.
OpsFit ==
  /\ \A p \in Procs :
       /\ pc[p] = "buffer" => op[p] \in {"write", "counter_add", "delete"}
       /\ pc[p] = "now" => op[p] = "counter_add"
       /\ pc[p] = "lock" => op[p] = "rebuild" /\ (skew[p] \/ stamp[p] <= clock)
       /\ Bumping(p) => op[p] \in Ops
       /\ Swapping(p) => all = p
  /\ all # NoProc => Swapping(all)

\* The stamp t settles it: a write puts its own on the scope, a counter leaves the
\* one of the creation, which the clock may have stepped back behind.
Settles(p, s, t) == op[p] # "counter_add" \/ skew[p] \/ scopeTS[s] <= t

\* p made the buffer of s and has not raised the store's stamp over it yet.
Owes(p, s) ==
  /\ created[p] /\ at[p] = s /\ ref[p] = made[s]
  /\ \/ pc[p] = "cleanup"
     \/ pc[p] \in {"buffer", "now"} /\ Settles(p, s, clock)
     \/ Bumping(p) /\ Settles(p, s, stamp[p])

ScopesCovered ==
  \A s \in Scopes \ stray : there[s] =>
    scopeTS[s] <= storeTS \/ all # NoProc \/ \E p \in Procs : Owes(p, s)

\* What a swap has put into the maps is covered by the stamp it is about to set.
SwapCovered ==
  all # NoProc =>
    \A s \in UserScopes : there[s] =>
      scopeTS[s] <= storeTS \/ scopeTS[s] <= stamp[all] \/ (op[all] = "rebuild" /\ skew[all])

QuiesceInv == FreshInv /\ ScopeTypes /\ OpsFit /\ ScopesCovered /\ SwapCovered

LEMMA InitQuiesce == Init => QuiesceInv
<1> SUFFICES ASSUME Init PROVE QuiesceInv OBVIOUS
<1>1. FreshInv BY InitFresh
<1>2. ScopeTypes BY DEF Init, ScopeTypes
<1>3. OpsFit BY FreshnessConstants DEF Init, OpsFit, Bumping, Swapping
<1>4. ScopesCovered /\ SwapCovered BY DEF Init, ScopesCovered, SwapCovered
<1> QED BY <1>1, <1>2, <1>3, <1>4 DEF QuiesceInv

\* A step of p leaves the other goroutines alone.
OthersKeep(p) ==
  \A q \in Procs : q # p =>
    /\ pc'[q] = pc[q] /\ op'[q] = op[q] /\ at'[q] = at[q] /\ ref'[q] = ref[q]
    /\ created'[q] = created[q] /\ stamp'[q] = stamp[q] /\ skew'[q] = skew[q]

\* What another goroutine owes it still owes, as long as the scope is as it was.
LEMMA DebtsKept ==
  ASSUME QuiesceInv, NEW p \in Procs, OthersKeep(p), clock' = clock,
         NEW s \in Scopes, made'[s] = made[s], scopeTS'[s] = scopeTS[s],
         NEW q \in Procs, q # p, Owes(q, s)
  PROVE  Owes(q, s)'
BY DEF OthersKeep, Owes, Bumping, Settles

\* A step of p outside the loop that leaves the maps alone: it may not forget a
\* debt of its own.
LEMMA MapsKept ==
  ASSUME QuiesceInv, FreshInv', ScopeTypes', NEW p \in Procs, OthersKeep(p),
         clock' = clock, storeTS' = storeTS, all' = all, all # p, stray' = stray,
         there' = there, made' = made, scopeTS' = scopeTS,
         pc'[p] = "buffer" => op'[p] \in {"write", "counter_add", "delete"},
         pc'[p] = "now" => op'[p] = "counter_add",
         pc'[p] = "lock" => op'[p] = "rebuild" /\ (skew'[p] \/ stamp'[p] <= clock),
         Bumping(p)' => op'[p] \in Ops \ {"wipe", "rebuild"},
         \A s \in Scopes : Owes(p, s) => Owes(p, s)'
  PROVE  QuiesceInv'
<1> USE DEF QuiesceInv
<1>1. OpsFit'
  <2>1. ASSUME NEW q \in Procs
        PROVE /\ pc'[q] = "buffer" => op'[q] \in {"write", "counter_add", "delete"}
              /\ pc'[q] = "now" => op'[q] = "counter_add"
              /\ pc'[q] = "lock" => op'[q] = "rebuild" /\ (skew'[q] \/ stamp'[q] <= clock')
              /\ Bumping(q)' => op'[q] \in Ops
              /\ Swapping(q)' => all' = q
    BY DEF OpsFit, OthersKeep, Bumping, Swapping
  <2>2. all # NoProc => all \in Procs /\ all # p BY DEF ScopeTypes
  <2>3. all # NoProc => Swapping(all)' BY <2>2 DEF OpsFit, OthersKeep, Bumping, Swapping
  <2> QED BY <2>1, <2>3 DEF OpsFit
<1>2. ScopesCovered'
  <2>1. ASSUME NEW s \in Scopes, NEW q \in Procs, Owes(q, s) PROVE Owes(q, s)'
    BY <2>1, DebtsKept
  <2> QED BY <2>1 DEF ScopesCovered
<1>3. SwapCovered'
  <2>1. all # NoProc => all \in Procs /\ all # p BY DEF ScopeTypes
  <2> QED BY <2>1 DEF SwapCovered, OthersKeep
<1> QED BY <1>1, <1>2, <1>3

\* The goroutine that holds all the locks is in the loop.
LEMMA NotSwapping ==
  ASSUME QuiesceInv, NEW p \in Procs, pc[p] \in {"idle", "buffer", "now", "cleanup", "lock"}
  PROVE  all # p
BY FreshnessConstants DEF QuiesceInv, OpsFit, Swapping, Bumping, ScopeTypes

\* A new scope has a creator that owes its tick.
LEMMA QuiesceBegin ==
  ASSUME QuiesceInv, FreshInv', NEW p \in Procs, NEW s \in Scopes, NEW o \in Ops, Begin(p, s, o)
  PROVE  QuiesceInv'
<1> USE DEF QuiesceInv
<1>1. /\ pc[p] = "idle" /\ all = NoProc /\ o \in {"write", "counter_add", "delete"}
      /\ pc' = [pc EXCEPT ![p] = "buffer"]
      /\ op' = [op EXCEPT ![p] = o] /\ at' = [at EXCEPT ![p] = s]
      /\ ref' = [ref EXCEPT ![p] = IF there[s] THEN made[s] ELSE made[s] + 1]
      /\ created' = [created EXCEPT ![p] = ~ there[s]]
      /\ UNCHANGED <<clock, all, stamp, skew>>
  BY DEF Begin, Goto
<1>2. OthersKeep(p) BY <1>1 DEF OthersKeep, ScopeTypes, FreshInv, StampTypes
<1>3. pc'[p] = "buffer" /\ op'[p] = o BY <1>1 DEF ScopeTypes, FreshInv, StampTypes
<1>4. CASE there[s]
  <2>1. UNCHANGED <<there, made, scopeTS, stray, storeTS>> BY <1>4 DEF Begin, scopeVars
  <2>2. ScopeTypes' BY <1>1, <1>4, <2>1 DEF ScopeTypes
  <2>3. all # p BY <1>1, NotSwapping
  <2>4. \A t \in Scopes : ~ Owes(p, t) BY <1>1 DEF Owes, Bumping
  <2>5. ~ Bumping(p)' BY <1>3 DEF Bumping
  <2> QED BY <1>1, <1>2, <1>3, <2>1, <2>2, <2>3, <2>4, <2>5, MapsKept
<1>5. CASE ~ there[s]
  <2>1. /\ there' = [there EXCEPT ![s] = TRUE] /\ made' = [made EXCEPT ![s] = made[s] + 1]
        /\ scopeTS' = [scopeTS EXCEPT ![s] = clock] /\ stray' = stray \ {s} /\ storeTS' = storeTS
    BY <1>5 DEF Begin, NoTickOnCreate
  <2>2. ScopeTypes'
    <3>1. clock \in Nat BY DEF FreshInv, StampTypes
    <3> QED BY <1>1, <1>5, <2>1, <3>1 DEF ScopeTypes
  <2>3. Owes(p, s)'
    <3>1. clock \in Nat /\ scopeTS'[s] = clock BY <2>1 DEF ScopeTypes, FreshInv, StampTypes
    <3>2. Settles(p, s, clock)' BY <1>1, <3>1 DEF Settles
    <3> QED BY <1>1, <1>5, <2>1, <3>2, ZenonT(60) DEF Owes, ScopeTypes, FreshInv, StampTypes
  <2>4. OpsFit'
    BY <1>1, <1>2, <1>3 DEF OpsFit, OthersKeep, Bumping, Swapping
  <2>5. ScopesCovered'
    <3>1. ASSUME NEW t \in Scopes \ stray', there'[t]
          PROVE  scopeTS'[t] <= storeTS' \/ all' # NoProc \/ \E q \in Procs : Owes(q, t)'
      <4>1. CASE t = s BY <2>3, <4>1
      <4>2. CASE t # s
        <5>1. t \notin stray /\ there[t] /\ scopeTS'[t] = scopeTS[t] /\ made'[t] = made[t]
          BY <2>1, <3>1, <4>2 DEF ScopeTypes
        <5>2. ASSUME NEW q \in Procs, Owes(q, t) PROVE Owes(q, t)'
          <6>1. q # p BY <1>1, <5>2 DEF Owes, Bumping
          <6> QED BY <1>1, <1>2, <5>1, <5>2, <6>1, DebtsKept
        <5> QED BY <1>1, <2>1, <5>1, <5>2 DEF ScopesCovered
      <4> QED BY <4>1, <4>2
    <3> QED BY <3>1 DEF ScopesCovered
  <2>6. SwapCovered' BY <1>1 DEF SwapCovered
  <2> QED BY <2>2, <2>4, <2>5, <2>6
<1> QED BY <1>4, <1>5

\* A write or a delete takes its stamp: at least that of its scope.
LEMMA QuiesceStamp ==
  ASSUME QuiesceInv, FreshInv', NEW p \in Procs, Stamp(p) \/ CounterNow(p)
  PROVE  QuiesceInv'
<1> USE DEF QuiesceInv
<1>1. /\ pc[p] \in {"buffer", "now"} /\ pc' = [pc EXCEPT ![p] = "load"]
      /\ stamp' = [stamp EXCEPT ![p] = clock]
      /\ UNCHANGED <<clock, storeTS, there, made, scopeTS, all, op, at, ref, created, stray, skew>>
  BY DEF Stamp, CounterNow, Goto, scopeVars, history
<1>2. OthersKeep(p) BY <1>1 DEF OthersKeep, ScopeTypes, FreshInv, StampTypes
<1>3. pc'[p] = "load" /\ stamp'[p] = clock /\ clock \in Nat
  BY <1>1 DEF ScopeTypes, FreshInv, StampTypes
<1>4. ScopeTypes' BY <1>1, <1>3 DEF ScopeTypes
<1>5. all # p BY <1>1, NotSwapping
<1>6. op'[p] \in Ops \ {"wipe", "rebuild"} BY <1>1 DEF OpsFit, Ops
<1>7. \A s \in Scopes : Owes(p, s) => Owes(p, s)' BY <1>1, <1>3 DEF Owes, Settles, Bumping, ScopeTypes
<1> QED BY <1>1, <1>2, <1>3, <1>4, <1>5, <1>6, <1>7, MapsKept

\* The steps that leave the loop alone and keep or have no debt.
LEMMA QuiesceCounterAdd ==
  ASSUME QuiesceInv, FreshInv', NEW p \in Procs, CounterAdd(p) \/ Refuse(p)
  PROVE  QuiesceInv'
<1> USE DEF QuiesceInv
<1>0. /\ pc[p] = "buffer"
      /\ UNCHANGED <<clock, storeTS, there, made, scopeTS, all, stray>>
  BY DEF CounterAdd, Refuse, scopeVars
<1>1. all # p BY <1>0, NotSwapping
<1>2. CASE created[p]
  <2>1. /\ (pc' = [pc EXCEPT ![p] = "now"] /\ op[p] = "counter_add") \/ pc' = [pc EXCEPT ![p] = "cleanup"]
        /\ UNCHANGED <<op, at, ref, created, stamp, skew>>
    BY <1>2 DEF CounterAdd, Refuse, Announces, Goto
  <2>2. OthersKeep(p) BY <2>1 DEF OthersKeep, ScopeTypes, FreshInv, StampTypes
  <2>3. ScopeTypes' BY <1>0, <2>1 DEF ScopeTypes
  <2>4. (pc'[p] = "now" /\ op'[p] = "counter_add") \/ pc'[p] = "cleanup"
    BY <2>1 DEF ScopeTypes, FreshInv, StampTypes
  <2>5. \A s \in Scopes : Owes(p, s) => Owes(p, s)' BY <1>0, <2>1, <2>4 DEF Owes, Settles, Bumping
  <2>6. ~ Bumping(p)' BY <2>4 DEF Bumping
  <2> QED BY <1>0, <1>1, <2>2, <2>3, <2>4, <2>5, <2>6, MapsKept
<1>3. CASE ~ created[p]
  <2>1. /\ pc' = [pc EXCEPT ![p] = "idle"] /\ op' = [op EXCEPT ![p] = "none"]
        /\ at' = [at EXCEPT ![p] = AnyScope] /\ ref' = [ref EXCEPT ![p] = 0]
        /\ created' = [created EXCEPT ![p] = FALSE] /\ stamp' = [stamp EXCEPT ![p] = 0]
        /\ skew' = [skew EXCEPT ![p] = FALSE]
    BY <1>3 DEF CounterAdd, Refuse, Announces, Return, Goto
  <2>2. OthersKeep(p) BY <2>1 DEF OthersKeep, ScopeTypes, FreshInv, StampTypes
  <2>3. ScopeTypes' BY <1>0, <2>1 DEF ScopeTypes, FreshInv, StampTypes
  <2>4. pc'[p] = "idle" BY <2>1 DEF ScopeTypes, FreshInv, StampTypes
  <2>5. \A s \in Scopes : ~ Owes(p, s) BY <1>3 DEF Owes
  <2>6. ~ Bumping(p)' BY <2>4 DEF Bumping
  <2> QED BY <1>0, <1>1, <2>2, <2>3, <2>4, <2>5, <2>6, MapsKept
<1> QED BY <1>2, <1>3

LEMMA QuiesceTakeLock ==
  ASSUME QuiesceInv, FreshInv', NEW p \in Procs,
         RebuildBuild(p) \/ \E s \in Scopes : DeleteScope(p, s)
  PROVE  QuiesceInv'
<1> USE DEF QuiesceInv
<1>0. /\ pc[p] = "idle" /\ stamp' = [stamp EXCEPT ![p] = clock]
      /\ UNCHANGED <<clock, storeTS, there, made, scopeTS, all, stray, created, skew>>
  BY DEF RebuildBuild, DeleteScope, scopeVars, history
<1>1. all # p BY <1>0, NotSwapping
<1>2. \A s \in Scopes : ~ Owes(p, s) BY <1>0 DEF Owes, Bumping
<1>3. CASE RebuildBuild(p)
  <2>1. pc' = [pc EXCEPT ![p] = "lock"] /\ op' = [op EXCEPT ![p] = "rebuild"] /\ UNCHANGED <<at, ref>>
    BY <1>3 DEF RebuildBuild, Goto
  <2>2. OthersKeep(p) BY <1>0, <2>1 DEF OthersKeep, ScopeTypes, FreshInv, StampTypes
  <2>3. ScopeTypes' BY <1>0, <2>1 DEF ScopeTypes, FreshInv, StampTypes, Ops
  <2>4. pc'[p] = "lock" /\ op'[p] = "rebuild" BY <2>1 DEF ScopeTypes, FreshInv, StampTypes
  <2>5. ~ Bumping(p)' BY <2>4 DEF Bumping
  <2>6. stamp'[p] <= clock BY <1>0 DEF FreshInv, StampTypes
  <2> QED BY <1>0, <1>1, <1>2, <2>2, <2>3, <2>4, <2>5, <2>6, MapsKept
<1>4. ASSUME NEW s \in Scopes, DeleteScope(p, s) PROVE QuiesceInv'
  <2>1. /\ pc' = [pc EXCEPT ![p] = "load"] /\ op' = [op EXCEPT ![p] = "delete_scope"]
        /\ at' = [at EXCEPT ![p] = s] /\ ref' = [ref EXCEPT ![p] = made[s]]
    BY <1>4 DEF DeleteScope, Goto
  <2>2. OthersKeep(p) BY <1>0, <2>1 DEF OthersKeep, ScopeTypes, FreshInv, StampTypes
  <2>3. ScopeTypes' BY <1>0, <2>1 DEF ScopeTypes, FreshInv, StampTypes, Ops
  <2>4. pc'[p] = "load" /\ op'[p] = "delete_scope" BY <2>1 DEF ScopeTypes, FreshInv, StampTypes
  <2> QED BY <1>0, <1>1, <1>2, <2>2, <2>3, <2>4, MapsKept DEF Ops
<1> QED BY <1>3, <1>4

\* A creator that failed takes its scope with it, or leaves it to a counter.
LEMMA QuiesceCleanup ==
  ASSUME QuiesceInv, FreshInv', NEW p \in Procs, Cleanup(p)
  PROVE  QuiesceInv'
<1> USE DEF QuiesceInv
<1>1. /\ pc[p] = "cleanup" /\ all = NoProc
      /\ pc' = [pc EXCEPT ![p] = "idle"] /\ op' = [op EXCEPT ![p] = "none"]
      /\ at' = [at EXCEPT ![p] = AnyScope] /\ ref' = [ref EXCEPT ![p] = 0]
      /\ created' = [created EXCEPT ![p] = FALSE] /\ stamp' = [stamp EXCEPT ![p] = 0]
      /\ skew' = [skew EXCEPT ![p] = FALSE]
      /\ UNCHANGED <<clock, storeTS, scopeTS, all>>
  BY DEF Cleanup, Return, Goto
<1>2. OthersKeep(p) BY <1>1 DEF OthersKeep, ScopeTypes, FreshInv, StampTypes
<1>3. pc'[p] = "idle" BY <1>1 DEF FreshInv, StampTypes
<1>4. OpsFit' BY <1>1, <1>2, <1>3 DEF OpsFit, OthersKeep, Bumping, Swapping
<1>5. SwapCovered' BY <1>1 DEF SwapCovered
<1>6. PICK s : s = at[p] OBVIOUS
<1>7. CASE there[s] /\ Current(p) /\ ~ filled[s]
  <2>1. there' = [there EXCEPT ![s] = FALSE] /\ made' = [made EXCEPT ![s] = made[s] + 1] /\ stray' = stray
    BY <1>6, <1>7 DEF Cleanup
  <2>2. ScopeTypes'
    <3>1. made' \in [Scopes -> Nat]
      <4>1. CASE s \in Scopes BY <2>1, <4>1 DEF ScopeTypes
      <4>2. CASE s \notin Scopes
        <5>1. \A t \in Scopes : made'[t] = made[t] BY <2>1, <4>2 DEF ScopeTypes
        <5> QED BY <2>1, <5>1 DEF ScopeTypes
      <4> QED BY <4>1, <4>2
    <3>2. there' \in [Scopes -> BOOLEAN] BY <2>1 DEF ScopeTypes
    <3> QED BY <1>1, <2>1, <3>1, <3>2 DEF ScopeTypes, FreshInv, StampTypes
  <2>3. ScopesCovered'
    <3>1. ASSUME NEW t \in Scopes \ stray, there'[t]
          PROVE  scopeTS[t] <= storeTS \/ \E q \in Procs : Owes(q, t)'
      <4>1. t # s /\ there[t] /\ made'[t] = made[t] BY <2>1, <3>1 DEF ScopeTypes
      <4>2. ASSUME NEW q \in Procs, Owes(q, t) PROVE Owes(q, t)'
        <5>1. q # p BY <1>6, <4>1, <4>2 DEF Owes
        <5> QED BY <1>1, <1>2, <4>1, <4>2, <5>1, DebtsKept
      <4> QED BY <1>1, <4>1, <4>2 DEF ScopesCovered
    <3> QED BY <1>1, <2>1, <3>1 DEF ScopesCovered
  <2> QED BY <1>4, <1>5, <2>2, <2>3
<1>8. CASE ~ (there[s] /\ Current(p) /\ ~ filled[s])
  <2>1. /\ stray' = IF there[s] /\ Current(p) THEN stray \cup {s} ELSE stray
        /\ there' = there /\ made' = made
    BY <1>6, <1>8 DEF Cleanup
  <2>2. ScopeTypes' BY <1>1, <2>1 DEF ScopeTypes, FreshInv, StampTypes
  <2>3. ScopesCovered'
    <3>1. ASSUME NEW t \in Scopes \ stray', there[t]
          PROVE  scopeTS[t] <= storeTS \/ \E q \in Procs : Owes(q, t)'
      <4>1. t \notin stray BY <2>1, <3>1
      <4>2. ASSUME NEW q \in Procs, Owes(q, t) PROVE Owes(q, t)'
        <5>1. ASSUME q = p PROVE FALSE
          <6>1. t = s /\ there[s] /\ Current(p) BY <1>6, <3>1, <4>2, <5>1 DEF Owes, Current
          <6> QED BY <2>1, <3>1, <6>1
        <5> QED BY <1>1, <1>2, <2>1, <4>2, <5>1, DebtsKept
      <4> QED BY <1>1, <3>1, <4>1, <4>2 DEF ScopesCovered
    <3> QED BY <1>1, <2>1, <3>1 DEF ScopesCovered
  <2> QED BY <1>4, <1>5, <2>2, <2>3
<1> QED BY <1>7, <1>8

\* Every scope's buffer is made anew; the swap itself owes the tick.
LEMMA QuiesceSwap ==
  ASSUME QuiesceInv, FreshInv', NEW p \in Procs, NEW kept \in SUBSET UserScopes, NEW ts \in Nat,
         ts <= clock \/ (op'[p] = "rebuild" /\ skew[p]),
         SwapMaps(p, kept, ts), op' = [op EXCEPT ![p] = op'[p]], op'[p] \in {"wipe", "rebuild"}
  PROVE  QuiesceInv'
<1> USE DEF QuiesceInv
<1>1. /\ all = NoProc /\ all' = p
      /\ there' = [s \in Scopes |-> s \in Reserved \cup kept] /\ made' = [s \in Scopes |-> made[s] + 1]
      /\ scopeTS' = [s \in Scopes |-> IF s \in kept THEN ts ELSE scopeTS[s]]
      /\ stamp' = [stamp EXCEPT ![p] = clock] /\ pc' = [pc EXCEPT ![p] = "load"]
      /\ UNCHANGED <<clock, storeTS, at, ref, created, stray, skew>>
  BY DEF SwapMaps, Goto, history
<1>2. OthersKeep(p) BY <1>1 DEF OthersKeep, ScopeTypes, FreshInv, StampTypes
<1>3. pc'[p] = "load" /\ stamp'[p] = clock /\ clock \in Nat /\ p # NoProc
  BY <1>1, FreshnessConstants DEF ScopeTypes, FreshInv, StampTypes
<1>4. ScopeTypes'
  <2>1. there' \in [Scopes -> BOOLEAN] /\ made' \in [Scopes -> Nat] BY <1>1 DEF ScopeTypes
  <2>2. scopeTS' \in [Scopes -> Nat] BY <1>1 DEF ScopeTypes
  <2>3. op' \in [Procs -> Ops \cup {"none"}] BY DEF ScopeTypes, Ops
  <2> QED BY <1>1, <1>3, <2>1, <2>2, <2>3 DEF ScopeTypes
<1>5. OpsFit'
  <2>1. \A q \in Procs : ~ Swapping(q) BY <1>1, FreshnessConstants DEF OpsFit
  <2> QED BY <1>1, <1>2, <1>3, <2>1 DEF OpsFit, OthersKeep, Bumping, Swapping, Ops
<1>6. ScopesCovered' BY <1>1, <1>3 DEF ScopesCovered
<1>7. SwapCovered'
  <2>1. ASSUME NEW s \in UserScopes, there'[s] PROVE scopeTS'[s] <= stamp'[all'] \/ (op'[all'] = "rebuild" /\ skew'[all'])
    <3>1. s \in kept BY <1>1, <2>1 DEF UserScopes
    <3> QED BY <1>1, <1>3, <3>1 DEF UserScopes
  <2> QED BY <2>1 DEF SwapCovered
<1> QED BY <1>4, <1>5, <1>6, <1>7

\* The loop goes on.
LEMMA QuiesceLoop ==
  ASSUME QuiesceInv, FreshInv', NEW p \in Procs, Bumping(p), NEW l \in {"load", "cas"},
         pc' = [pc EXCEPT ![p] = l],
         UNCHANGED <<clock, storeTS, there, made, scopeTS, all, op, at, ref, created, stamp, stray, skew>>
  PROVE  QuiesceInv'
<1> USE DEF QuiesceInv
<1>1. OthersKeep(p) /\ pc'[p] = l BY DEF OthersKeep, FreshInv, StampTypes
<1>2. ScopeTypes' BY DEF ScopeTypes
<1>3. \A q \in Procs : /\ Bumping(q)' <=> Bumping(q)
                       /\ ~ Bumping(q) => pc'[q] = pc[q]
  BY <1>1 DEF OthersKeep, Bumping
<1>4. OpsFit'
  <2>1. \A q \in Procs : Swapping(q)' <=> Swapping(q) BY <1>3 DEF Swapping
  <2>2. all # NoProc => all \in Procs BY DEF ScopeTypes
  <2>3. \A q \in Procs : pc'[q] \in {"buffer", "now", "lock"} => pc'[q] = pc[q] BY <1>3, <1>1 DEF Bumping, OthersKeep
  <2> QED BY <1>3, <2>1, <2>2, <2>3 DEF OpsFit
<1>5. \A q \in Procs, s \in Scopes : Owes(q, s) => Owes(q, s)'
  BY <1>3 DEF Owes, Settles, Bumping
<1>6. ScopesCovered' BY <1>5 DEF ScopesCovered
<1>7. SwapCovered' BY DEF SwapCovered
<1> QED BY <1>2, <1>4, <1>6, <1>7

\* The loop ends: the store's stamp covers that of the change.
LEMMA QuiesceFinish ==
  ASSUME QuiesceInv, FreshInv', NEW p \in Procs, Bumping(p), Finish(p), clock' = clock,
         storeTS' \in Nat, storeTS' >= storeTS, storeTS' >= stamp[p]
  PROVE  QuiesceInv'
<1> USE DEF QuiesceInv
<1>1. /\ pc' = [pc EXCEPT ![p] = "idle"] /\ op' = [op EXCEPT ![p] = "none"]
      /\ at' = [at EXCEPT ![p] = AnyScope] /\ ref' = [ref EXCEPT ![p] = 0]
      /\ created' = [created EXCEPT ![p] = FALSE] /\ stamp' = [stamp EXCEPT ![p] = 0]
      /\ skew' = [skew EXCEPT ![p] = FALSE]
      /\ all' = IF all = p THEN NoProc ELSE all
  BY DEF Finish, Return, Goto
<1>2. OthersKeep(p) BY <1>1 DEF OthersKeep, ScopeTypes, FreshInv, StampTypes
<1>3. pc'[p] = "idle" /\ p # NoProc BY <1>1, FreshnessConstants DEF FreshInv, StampTypes
<1>4. clock \in Nat /\ storeTS \in Nat /\ stamp[p] \in Nat /\ \A s \in Scopes : scopeTS[s] \in Nat
  BY DEF FreshInv, StampTypes, ScopeTypes
<1>5. ASSUME there' \in [Scopes -> BOOLEAN], made' \in [Scopes -> Nat], scopeTS' \in [Scopes -> Nat]
      PROVE  ScopeTypes'
  BY <1>1, <1>3, <1>4, <1>5 DEF ScopeTypes
<1>6. OpsFit'
  <2>1. ASSUME NEW q \in Procs
        PROVE /\ pc'[q] = "buffer" => op'[q] \in {"write", "counter_add", "delete"}
              /\ pc'[q] = "now" => op'[q] = "counter_add"
              /\ pc'[q] = "lock" => op'[q] = "rebuild" /\ (skew'[q] \/ stamp'[q] <= clock')
              /\ Bumping(q)' => op'[q] \in Ops
              /\ Swapping(q)' => all' = q
    BY <1>1, <1>2, <1>3 DEF OpsFit, OthersKeep, Bumping, Swapping
  <2>2. ASSUME all' # NoProc PROVE Swapping(all)'
    <3>1. all' = all /\ all \in Procs /\ all # p BY <1>1, <2>2 DEF ScopeTypes
    <3> QED BY <1>2, <2>2, <3>1 DEF OpsFit, OthersKeep, Bumping, Swapping
  <2> QED BY <2>1, <2>2 DEF OpsFit
<1>7. PICK s : s = at[p] OBVIOUS
<1>8. op[p] \in Ops /\ (op[p] \in {"wipe", "rebuild"} <=> all = p)
  BY <1>3 DEF OpsFit, Swapping
\* The other scopes than that of p, when p is not a swap.
<1>9. ASSUME all # p, \A t \in Scopes \ {s} : there'[t] = there[t] /\ made'[t] = made[t] /\ scopeTS'[t] = scopeTS[t],
             \A t \in Scopes \ {s} : t \in stray => t \in stray',
             s \in Scopes /\ there'[s] => scopeTS'[s] <= storeTS' \/ (there[s] /\ scopeTS'[s] = scopeTS[s]),
             s \in Scopes /\ there'[s] /\ s \notin stray' =>
               \/ scopeTS'[s] <= storeTS'
               \/ made'[s] = made[s] /\ s \notin stray /\ (Owes(p, s) => scopeTS[s] <= stamp[p])
      PROVE  ScopesCovered' /\ SwapCovered'
  <2>0. all' = all BY <1>1, <1>9
  <2>1. ASSUME NEW t \in Scopes, NEW q \in Procs, Owes(q, t), made'[t] = made[t], scopeTS'[t] = scopeTS[t],
               Owes(p, t) => scopeTS[t] <= stamp[p]
        PROVE  scopeTS'[t] <= storeTS' \/ Owes(q, t)'
    <3>1. CASE q = p
      <4>1. scopeTS[t] <= stamp[p] BY <2>1, <3>1
      <4> QED BY <1>4, <2>1, <4>1
    <3>2. CASE q # p BY <1>2, <2>1, <3>2, DebtsKept
    <3> QED BY <3>1, <3>2
  <2>2. ASSUME NEW t \in Scopes, scopeTS'[t] = scopeTS[t], scopeTS[t] <= storeTS PROVE scopeTS'[t] <= storeTS'
    BY <1>4, <2>2
  <2>3. ASSUME NEW t \in Scopes \ stray', there'[t]
        PROVE  scopeTS'[t] <= storeTS' \/ all' # NoProc \/ \E q \in Procs : Owes(q, t)'
    <3>1. CASE scopeTS'[t] <= storeTS' BY <3>1
    <3>2. CASE ~ (scopeTS'[t] <= storeTS')
      <4>1. there[t] /\ made'[t] = made[t] /\ scopeTS'[t] = scopeTS[t] /\ t \notin stray
        BY <1>9, <2>3, <3>2
      <4>3. Owes(p, t) => t = s BY <1>7 DEF Owes
      <4>4. Owes(p, t) => scopeTS[t] <= stamp[p] BY <1>9, <2>3, <3>2, <4>3
      <4>2. scopeTS[t] <= storeTS \/ all # NoProc \/ \E q \in Procs : Owes(q, t)
        BY <4>1 DEF ScopesCovered
      <4> QED BY <2>0, <2>1, <2>2, <4>1, <4>2, <4>4
    <3> QED BY <3>1, <3>2
  <2>4. ASSUME NEW t \in UserScopes, there'[t], all # NoProc
        PROVE  scopeTS'[t] <= storeTS' \/ scopeTS'[t] <= stamp'[all] \/ (op'[all] = "rebuild" /\ skew'[all])
    <3>1. CASE scopeTS'[t] <= storeTS' BY <3>1
    <3>2. CASE ~ (scopeTS'[t] <= storeTS')
      <4>0. t \in Scopes BY DEF UserScopes
      <4>1. there[t] /\ scopeTS'[t] = scopeTS[t] BY <1>9, <2>4, <3>2, <4>0
      <4>2. scopeTS[t] <= storeTS \/ scopeTS[t] <= stamp[all] \/ (op[all] = "rebuild" /\ skew[all]) BY <2>4, <4>1 DEF SwapCovered
      <4>3. stamp'[all] = stamp[all] /\ op'[all] = op[all] /\ skew'[all] = skew[all] BY <1>2, <1>9, <2>4 DEF ScopeTypes, OthersKeep
      <4> QED BY <2>2, <4>0, <4>1, <4>2, <4>3
    <3> QED BY <3>1, <3>2
  <2> QED BY <2>0, <2>3, <2>4 DEF ScopesCovered, SwapCovered
<1>10. CASE op[p] \in {"write", "delete"}
  <2>1. /\ scopeTS' = [scopeTS EXCEPT ![s] = stamp[p]] /\ stray' = stray \ {s}
        /\ there' = there /\ made' = made
    BY <1>7, <1>10 DEF Finish
  <2>2. ScopeTypes' BY <1>4, <1>5, <2>1 DEF ScopeTypes
  <2>3. all # p BY <1>8, <1>10
  <2>4. s \in Scopes => scopeTS'[s] <= storeTS' BY <1>4, <2>1 DEF ScopeTypes
  <2>5. \A t \in Scopes \ {s} : scopeTS'[t] = scopeTS[t] BY <2>1 DEF ScopeTypes
  <2> QED BY <1>6, <1>9, <2>1, <2>2, <2>3, <2>4, <2>5
<1>11. CASE op[p] = "delete_scope"
  <2>1. /\ there' = [there EXCEPT ![s] = FALSE] /\ made' = [made EXCEPT ![s] = made[s] + 1]
        /\ stray' = stray \ {s} /\ scopeTS' = scopeTS
    BY <1>7, <1>11 DEF Finish
  <2>2. ScopeTypes'
    <3>1. made' \in [Scopes -> Nat]
      <4>1. CASE s \in Scopes BY <2>1, <4>1 DEF ScopeTypes
      <4>2. CASE s \notin Scopes
        <5>1. \A t \in Scopes : made'[t] = made[t] BY <2>1, <4>2 DEF ScopeTypes
        <5> QED BY <2>1, <5>1 DEF ScopeTypes
      <4> QED BY <4>1, <4>2
    <3>2. there' \in [Scopes -> BOOLEAN] BY <2>1 DEF ScopeTypes
    <3> QED BY <1>4, <1>5, <2>1, <3>1, <3>2 DEF ScopeTypes, FreshInv, StampTypes
  <2>3. all # p BY <1>8, <1>11
  <2>4. s \in Scopes => ~ there'[s] BY <2>1 DEF ScopeTypes
  <2>5. \A t \in Scopes \ {s} : there'[t] = there[t] /\ made'[t] = made[t] BY <2>1 DEF ScopeTypes
  <2> QED BY <1>6, <1>9, <2>1, <2>2, <2>3, <2>4, <2>5
<1>12. CASE op[p] = "counter_add"
  <2>1. /\ UNCHANGED <<there, made, scopeTS>>
        /\ stray' = IF skew[p] /\ Current(p) THEN stray \cup {s} ELSE stray
    BY <1>7, <1>12 DEF Finish, scopeVars
  <2>2. ScopeTypes' BY <1>4, <1>5, <2>1 DEF ScopeTypes
  <2>3. all # p BY <1>8, <1>12
  <2>4. ASSUME s \notin stray', Owes(p, s) PROVE scopeTS[s] <= stamp[p]
    <3>1. Current(p) BY <1>7, <2>4 DEF Owes, Current
    <3>2. ~ skew[p] BY <2>1, <2>4, <3>1
    <3> QED BY <1>12, <2>4, <3>2 DEF Owes, Settles, Bumping
  <2> QED BY <1>6, <1>9, <2>1, <2>2, <2>3, <2>4
<1>13. CASE op[p] \in {"wipe", "rebuild"}
  <2>1. /\ scopeTS' = [t \in Scopes |-> IF t \in Reserved THEN storeTS' ELSE scopeTS[t]]
        /\ there' = there /\ made' = made
        /\ stray' = IF op[p] = "rebuild" /\ skew[p] THEN UserScopes ELSE {}
    BY <1>13 DEF Finish
  <2>2. ScopeTypes' BY <1>4, <1>5, <2>1 DEF ScopeTypes
  <2>3. all = p /\ all' = NoProc BY <1>1, <1>8, <1>13
  <2>4. ASSUME NEW t \in Scopes \ stray', there[t] PROVE scopeTS'[t] <= storeTS'
    <3>1. CASE t \in Reserved BY <2>1, <3>1
    <3>2. CASE t \notin Reserved
      <4>0. ~ (op[p] = "rebuild" /\ skew[p]) BY <2>1, <2>4, <3>2 DEF UserScopes
      <4>1. scopeTS[t] <= storeTS \/ scopeTS[t] <= stamp[p]
        BY <1>3, <2>3, <2>4, <3>2, <4>0 DEF SwapCovered, UserScopes
      <4> QED BY <1>4, <2>1, <3>2, <4>1
    <3> QED BY <3>1, <3>2
  <2> QED BY <1>6, <2>1, <2>2, <2>3, <2>4 DEF ScopesCovered, SwapCovered
<1> QED BY <1>8, <1>10, <1>11, <1>12, <1>13 DEF Ops

LEMMA QuiesceBump ==
  ASSUME QuiesceInv, FreshInv', NEW p \in Procs, BumpLoad(p) \/ BumpCas(p)
  PROVE  QuiesceInv'
<1>0. /\ storeTS \in Nat /\ stamp[p] \in Nat /\ clock \in Nat
      /\ cur[p] \in Nat
  BY DEF QuiesceInv, FreshInv, StampTypes, ScopeTypes
<1>1. Bumping(p) /\ clock' = clock BY DEF BumpLoad, BumpCas, Bumping
<1>2. CASE BumpLoad(p)
  <2>1. storeTS' = storeTS BY <1>2 DEF BumpLoad
  <2>2. CASE stamp[p] <= storeTS
    <3>1. Finish(p) BY <1>2, <2>2 DEF BumpLoad
    <3>2. storeTS' >= storeTS /\ storeTS' >= stamp[p] BY <1>0, <2>1, <2>2
    <3> QED BY <1>0, <1>1, <2>1, <3>1, <3>2, QuiesceFinish
  <2>3. CASE ~ (stamp[p] <= storeTS)
    BY <1>1, <1>2, <2>1, <2>3, QuiesceLoop DEF BumpLoad, Goto, scopeVars, history
  <2> QED BY <2>2, <2>3
<1>3. CASE BumpCas(p)
  <2>1. CASE Swaps(p)
    <3>1. storeTS' = stamp[p] /\ Finish(p) BY <1>3, <2>1 DEF BumpCas
    <3>2. cur[p] < stamp[p] /\ storeTS = cur[p]
      BY <1>3, <2>1 DEF BumpCas, Swaps, QuiesceInv, FreshInv, SwapsRaise
    <3>3. storeTS' \in Nat /\ storeTS' >= storeTS /\ storeTS' >= stamp[p]
      BY <1>0, <3>1, <3>2
    <3> QED BY <1>1, <3>1, <3>3, QuiesceFinish
  <2>2. CASE ~ Swaps(p)
    BY <1>1, <1>3, <2>2, QuiesceLoop DEF BumpCas, Retry, Goto, scopeVars, history
  <2> QED BY <2>1, <2>2
<1> QED BY <1>2, <1>3

LEMMA QuiesceStep ==
  ASSUME QuiesceInv, [Next]_vars
  PROVE  QuiesceInv'
<1>0. FreshInv' BY FreshStep DEF QuiesceInv
<1>1. CASE Tick
  <2>1. /\ clock' \in Nat /\ UNCHANGED <<storeTS, there, made, scopeTS, all, pc, op, at, ref, created, stamp, stray>>
        /\ skew' = [p \in Procs |-> skew[p] \/ (clock' < clock /\ StampedEarly(p))]
    BY <1>1 DEF Tick, scopeVars, procVars
  <2>2. clock \in Nat /\ storeTS \in Nat /\ stamp \in [Procs -> Nat]
    BY DEF QuiesceInv, FreshInv, StampTypes
  <2>3. /\ skew' \in [Procs -> BOOLEAN]
        /\ \A p \in Procs : /\ skew[p] => skew'[p]
                            /\ StampedEarly(p) => skew'[p] \/ clock <= clock'
    <3>1. ASSUME NEW p \in Procs PROVE skew'[p] <=> skew[p] \/ (clock' < clock /\ StampedEarly(p))
      BY <2>1, Zenon
    <3>2. skew' \in [Procs -> BOOLEAN] BY <2>1, Zenon DEF QuiesceInv, ScopeTypes
    <3> QED BY <2>1, <2>2, <3>1, <3>2
  <2>4. ScopeTypes' BY <2>1, <2>3 DEF QuiesceInv, ScopeTypes
  <2>5. OpsFit'
    <3>1. ASSUME NEW p \in Procs, pc[p] = "lock" PROVE skew'[p] \/ stamp[p] <= clock'
      BY <2>1, <2>2, <2>3, <3>1 DEF QuiesceInv, OpsFit, StampedEarly
    <3> QED BY <2>1, <3>1 DEF QuiesceInv, OpsFit, Bumping, Swapping
  <2>6. ASSUME NEW p \in Procs, NEW s \in Scopes, Owes(p, s) PROVE Owes(p, s)'
    <3>1. scopeTS[s] \in Nat BY DEF QuiesceInv, ScopeTypes
    <3>2. CASE pc[p] \in {"buffer", "now"}
      <4>1. Settles(p, s, clock) /\ created[p] BY <2>6, <3>2 DEF Owes, Bumping
      <4>2. op[p] = "counter_add" => StampedEarly(p) BY <3>2, <4>1 DEF StampedEarly
      <4>3. Settles(p, s, clock)' BY <2>1, <2>2, <2>3, <3>1, <4>1, <4>2 DEF Settles
      <4> QED BY <2>1, <2>6, <3>2, <4>3 DEF Owes
    <3>3. CASE pc[p] \notin {"buffer", "now"} BY <2>1, <2>3, <2>6, <3>3 DEF Owes, Settles, Bumping
    <3> QED BY <3>2, <3>3
  <2>7. ScopesCovered' BY <2>1, <2>6 DEF QuiesceInv, ScopesCovered
  <2>8. SwapCovered' BY <2>1, <2>3 DEF QuiesceInv, SwapCovered, ScopeTypes
  <2> QED BY <1>0, <2>4, <2>5, <2>7, <2>8 DEF QuiesceInv
<1>2. ASSUME NEW p \in Procs, Step(p) PROVE QuiesceInv'
  <2>0. stamp[p] \in Nat /\ clock \in Nat /\ 0 <= clock /\ op = [op EXCEPT ![p] = op[p]]
    BY DEF QuiesceInv, FreshInv, StampTypes, ScopeTypes
  <2>1. ASSUME NEW s \in Scopes, NEW o \in Ops, Begin(p, s, o) PROVE QuiesceInv'
    BY <1>0, <2>1, QuiesceBegin
  <2>2. CASE Stamp(p) \/ CounterNow(p) BY <1>0, <2>2, QuiesceStamp
  <2>3. CASE CounterAdd(p) \/ Refuse(p) BY <1>0, <2>3, QuiesceCounterAdd
  <2>4. CASE Cleanup(p) BY <1>0, <2>4, QuiesceCleanup
  <2>5. CASE BumpLoad(p) \/ BumpCas(p) BY <1>0, <2>5, QuiesceBump
  <2>6. CASE RebuildBuild(p) \/ \E s \in Scopes : DeleteScope(p, s) BY <1>0, <2>6, QuiesceTakeLock
  <2>7. CASE Wipe(p)
    <3>1. SwapMaps(p, {}, 0) /\ op' = [op EXCEPT ![p] = "wipe"] BY <2>7 DEF Wipe
    <3>2. op'[p] = "wipe" BY <3>1 DEF QuiesceInv, ScopeTypes
    <3>3. {} \in SUBSET UserScopes OBVIOUS
    <3> QED BY <1>0, <2>0, <3>1, <3>2, <3>3, QuiesceSwap
  <2>8. CASE Rebuild(p)
    <3>1. op[p] = "rebuild" /\ (skew[p] \/ stamp[p] <= clock) BY <2>8 DEF Rebuild, QuiesceInv, OpsFit
    <3>2. PICK kept \in SUBSET UserScopes : SwapMaps(p, kept, stamp[p]) BY <2>8 DEF Rebuild
    <3>3. op' = op BY <2>8 DEF Rebuild
    <3> QED BY <1>0, <2>0, <3>1, <3>2, <3>3, QuiesceSwap
  <2> QED BY <1>2, <2>1, <2>2, <2>3, <2>4, <2>5, <2>6, <2>7, <2>8 DEF Step
<1>3. CASE UNCHANGED vars
  <2>1. UNCHANGED <<clock, storeTS, there, made, scopeTS, all, pc, op, at, ref, created, stamp, stray, skew>>
    BY <1>3 DEF vars, scopeVars, procVars, history
  <2>2. ScopeTypes' BY <2>1 DEF QuiesceInv, ScopeTypes
  <2>3. OpsFit' BY <2>1 DEF QuiesceInv, OpsFit, Bumping, Swapping
  <2>4. ScopesCovered' /\ SwapCovered' BY <2>1 DEF QuiesceInv, ScopesCovered, SwapCovered, Owes, Settles, Bumping
  <2> QED BY <1>0, <2>2, <2>3, <2>4 DEF QuiesceInv
<1> QED BY <1>1, <1>2, <1>3 DEF Next

\* When every request has returned, the store's stamp is at least that of every
\* scope, however the wall clock has jumped, but for three cases that the code
\* leaves behind and history names: a scope that a counter filled while its creator
\* failed, and the scopes that a counter or a /rebuild made before the clock
\* stepped back and announced after.
THEOREM FreshAtQuiesce == Spec => []QuiesceFresh
<1>1. QuiesceInv /\ [Next]_vars => QuiesceInv' BY QuiesceStep
<1>2. QuiesceInv => QuiesceFresh
  <2> SUFFICES ASSUME QuiesceInv, Quiesced, NEW s \in Scopes \ stray, there[s] PROVE scopeTS[s] <= storeTS
    BY DEF QuiesceFresh
  <2>1. \A p \in Procs : ~ Owes(p, s) BY DEF Quiesced, Owes, Bumping
  <2>2. all = NoProc BY DEF QuiesceInv, OpsFit, Swapping, Bumping, Quiesced, ScopeTypes
  <2> QED BY <2>1, <2>2 DEF QuiesceInv, ScopesCovered
<1> QED BY <1>1, <1>2, InitQuiesce, PTL DEF Spec

=============================================================================
