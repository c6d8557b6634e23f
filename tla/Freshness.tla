----------------------------- MODULE Freshness -----------------------------
(***************************************************************************)
(* The freshness stamps: s.lastWriteTS of the store, which clients poll on *)
(* /stats, and b.lastWriteTS of each scope (store.go, buffer.go and the    *)
(* stamping lines of the write paths).  A write takes its stamp and raises *)
(* the store's by a compare-and-swap loop while it holds the lock of its   *)
(* buffer, so that writes to different scopes interleave inside the loop;  *)
(* a counter is silent, except that the one that created its scope raises  *)
(* the store's stamp after it has released every lock.                     *)
(*                                                                         *)
(* Of a scope only its stamp and whether it has items matter here; /warm   *)
(* does to each of its scopes what a write does.  The clock is the wall    *)
(* clock: it stands still over any number of steps, and it may step back.  *)
(***************************************************************************)
EXTENDS Integers, FiniteSets

CONSTANTS
  Procs,        \* request goroutines
  NoProc,
  Scopes,
  Reserved,     \* _events and _inbox, made by newStore and again by /wipe and /rebuild
  MaxTime,      \* bound of the model on the clock,
  MaxMade       \* and on the buffers ever made for one scope

UserScopes == Scopes \ Reserved

ASSUME FreshnessConstants ==
  NoProc \notin Procs /\ Reserved \subseteq Scopes /\ MaxTime \in Nat /\ MaxMade \in Nat

VARIABLES
  clock,        \* time.Now().UnixMicro()
  storeTS,      \* s.lastWriteTS
  there,        \* [Scopes -> BOOLEAN]: the shard maps
  made,         \* [Scopes -> Nat]: which buffer the scope's is; another one is detached
  filled,       \* [Scopes -> BOOLEAN]: len(items) > 0
  scopeTS,      \* [Scopes -> Nat]: b.lastWriteTS
  mu,           \* [Scopes -> Procs or NoProc]: b.mu, held over the loop
  all,          \* Procs or NoProc: every shard lock, held by /wipe and /rebuild
  pc, op, at,   \* per goroutine: where it is, what it serves, on which scope
  ref, created, \*   the buffer it looked up, whether it made it
  stamp, cur,   \*   its nowUs, the value it loaded
  ticks,        \* history: the stamps of the changes readers can see,
  skew,         \*   per goroutine, the clock stepped back between its two stamps,
  stray         \*   scopes that nobody raised the store's stamp for

scopeVars == <<there, made, filled, scopeTS>>
procVars  == <<pc, op, at, ref, created, stamp, cur>>
history   == <<ticks, skew, stray>>
vars      == <<clock, storeTS, scopeVars, mu, all, procVars, history>>

Ops == {"write", "counter_add", "delete", "delete_scope", "wipe", "rebuild"}

Creating == {"write", "counter_add"}

AnyScope == CHOOSE s \in Scopes : TRUE

----------------------------------------------------------------------------
(* Control *)

Goto(p, l) == pc' = [pc EXCEPT ![p] = l]

Return(p) ==
  /\ Goto(p, "idle")
  /\ op' = [op EXCEPT ![p] = "none"] /\ at' = [at EXCEPT ![p] = AnyScope]
  /\ ref' = [ref EXCEPT ![p] = 0] /\ created' = [created EXCEPT ![p] = FALSE]
  /\ stamp' = [stamp EXCEPT ![p] = 0] /\ cur' = [cur EXCEPT ![p] = 0]
  /\ skew' = [skew EXCEPT ![p] = FALSE]

Free(s) == mu[s] = NoProc

Current(p) == ref[p] = made[at[p]]

\* The goroutine has put a stamp on new buffers and will take another for the store.
StampedEarly(p) ==
  pc[p] = "lock" \/ (pc[p] \in {"buffer", "now"} /\ op[p] = "counter_add" /\ created[p])

\* time.Now() goes on, or back: the clock was set.
Tick ==
  /\ \E t \in 1..MaxTime : clock' = t
  /\ skew' = [p \in Procs |-> skew[p] \/ (clock' < clock /\ StampedEarly(p))]
  /\ UNCHANGED <<storeTS, scopeVars, mu, all, procVars, ticks, stray>>

\* Mutant: the lookup that creates a scope raises the store's stamp.
TickOnCreate(t) == IF t > storeTS THEN t ELSE storeTS

\* "NO bumpLastWriteTS here": the scope is a precursor of the write.
NoTickOnCreate(t) == storeTS

\* getOrCreateScopeTrackingCreated, or getScope for a delete.
Begin(p, s, o) ==
  /\ pc[p] = "idle" /\ all = NoProc
  /\ o \in {"write", "counter_add", "delete"}
  /\ o = "counter_add" => s \in UserScopes
  /\ o = "delete" => there[s]
  /\ IF there[s] THEN UNCHANGED <<scopeVars, stray, storeTS>>
     ELSE /\ made[s] < MaxMade
          /\ there' = [there EXCEPT ![s] = TRUE] /\ made' = [made EXCEPT ![s] = made[s] + 1]
          /\ filled' = [filled EXCEPT ![s] = FALSE] /\ scopeTS' = [scopeTS EXCEPT ![s] = clock]
          /\ stray' = stray \ {s}
          /\ storeTS' = NoTickOnCreate(clock)
  /\ op' = [op EXCEPT ![p] = o] /\ at' = [at EXCEPT ![p] = s]
  /\ ref' = [ref EXCEPT ![p] = IF there[s] THEN made[s] ELSE made[s] + 1]
  /\ created' = [created EXCEPT ![p] = ~ there[s]]
  /\ Goto(p, "buffer")
  /\ UNCHANGED <<clock, mu, all, stamp, cur, ticks, skew>>

----------------------------------------------------------------------------
(* The buffer's critical section *)

\* A write or a delete that goes through: it holds b.mu from here to its last line.
Stamp(p) ==
  /\ pc[p] = "buffer" /\ op[p] \in {"write", "delete"}
  /\ Free(at[p]) /\ Current(p)
  /\ op[p] = "delete" => filled[at[p]]
  /\ mu' = [mu EXCEPT ![at[p]] = p]
  /\ stamp' = [stamp EXCEPT ![p] = clock]
  /\ Goto(p, "load")
  /\ UNCHANGED <<clock, storeTS, scopeVars, all, op, at, ref, created, cur, history>>

\* Mutant: a counter is silent always.
AnnouncesNothing(p) == FALSE

\* `if scopeCreated` of counterAddOne: scope_count has grown.
Announces(p) == created[p]

\* counterAdd succeeds, silent for both stamps; counterAddOne goes on to raise
\* the store's if it made the scope.
CounterAdd(p) ==
  /\ pc[p] = "buffer" /\ op[p] = "counter_add"
  /\ Free(at[p]) /\ Current(p)
  /\ filled' = [filled EXCEPT ![at[p]] = TRUE]
  /\ IF Announces(p) THEN Goto(p, "now") /\ UNCHANGED <<op, at, ref, created, stamp, cur, skew>> ELSE Return(p)
  /\ UNCHANGED <<clock, storeTS, there, made, scopeTS, mu, all, ticks, stray>>

\* nowUnixMicro() of counterAddOne, outside the locks.
CounterNow(p) ==
  /\ pc[p] = "now"
  /\ stamp' = [stamp EXCEPT ![p] = clock]
  /\ Goto(p, "load")
  /\ UNCHANGED <<clock, storeTS, scopeVars, mu, all, op, at, ref, created, cur, history>>

\* The buffer refuses: detached, a cap, a duplicate id, nothing to delete.
Refuse(p) ==
  /\ pc[p] = "buffer" /\ Free(at[p])
  /\ IF created[p] THEN Goto(p, "cleanup") /\ UNCHANGED <<op, at, ref, created, stamp, cur, skew>> ELSE Return(p)
  /\ UNCHANGED <<clock, storeTS, scopeVars, mu, all, ticks, stray>>

\* cleanupIfEmptyAndUnused: silent.  A scope that somebody else has filled stays.
Cleanup(p) ==
  LET s == at[p]
  IN  /\ pc[p] = "cleanup" /\ all = NoProc /\ Free(s)
      /\ IF there[s] /\ Current(p) /\ ~ filled[s]
         THEN there' = [there EXCEPT ![s] = FALSE] /\ made' = [made EXCEPT ![s] = made[s] + 1] /\ UNCHANGED stray
         ELSE stray' = (IF there[s] /\ Current(p) THEN stray \cup {s} ELSE stray) /\ UNCHANGED <<there, made>>
      /\ Return(p)
      /\ UNCHANGED <<clock, storeTS, filled, scopeTS, mu, all, ticks>>

----------------------------------------------------------------------------
(* bumpLastWriteTS *)

\* What is left to do once the stamp is in: the last lines of each caller.
Finish(p) ==
  LET s == at[p]
  IN  /\ Return(p)
      /\ ticks' = ticks \cup {stamp[p]}
      /\ mu' = [t \in Scopes |-> IF mu[t] = p THEN NoProc ELSE mu[t]]
      /\ all' = IF all = p THEN NoProc ELSE all
      /\ CASE op[p] \in {"write", "delete"} ->
                /\ scopeTS' = [scopeTS EXCEPT ![s] = stamp[p]]
                /\ \E some \in BOOLEAN : filled' = [filled EXCEPT ![s] = some]
                /\ stray' = stray \ {s}
                /\ UNCHANGED <<there, made>>
           [] op[p] = "delete_scope" ->
                /\ there' = [there EXCEPT ![s] = FALSE]
                /\ made' = [made EXCEPT ![s] = made[s] + 1]
                /\ stray' = stray \ {s}
                /\ UNCHANGED <<filled, scopeTS>>
           [] op[p] \in {"wipe", "rebuild"} ->
                /\ scopeTS' = [t \in Scopes |-> IF t \in Reserved THEN storeTS' ELSE scopeTS[t]]
                /\ stray' = IF op[p] = "rebuild" /\ skew[p] THEN UserScopes ELSE {}
                /\ UNCHANGED <<there, made, filled>>
           [] op[p] = "counter_add" ->
                /\ stray' = IF skew[p] /\ Current(p) THEN stray \cup {s} ELSE stray
                /\ UNCHANGED scopeVars

\* cur := s.lastWriteTS.Load(); a stamp that is not later ends the loop.
BumpLoad(p) ==
  /\ pc[p] = "load"
  /\ UNCHANGED <<clock, storeTS>>
  /\ IF stamp[p] <= storeTS THEN Finish(p)
     ELSE /\ cur' = [cur EXCEPT ![p] = storeTS] /\ Goto(p, "cas")
          /\ UNCHANGED <<scopeVars, mu, all, op, at, ref, created, stamp, history>>

Swaps(p) == storeTS = cur[p]

\* Mutant: one attempt.
GiveUp(p) == UNCHANGED storeTS /\ Finish(p)

\* A lost swap starts over.
Retry(p) ==
  Goto(p, "load") /\ UNCHANGED <<storeTS, scopeVars, mu, all, op, at, ref, created, stamp, cur, history>>

\* CompareAndSwap(cur, nowUs).
BumpCas(p) ==
  /\ pc[p] = "cas"
  /\ UNCHANGED clock
  /\ IF Swaps(p) THEN storeTS' = stamp[p] /\ Finish(p) ELSE Retry(p)

----------------------------------------------------------------------------
(* Whole scopes *)

\* deleteScope: shard and buffer lock, the stamp, the loop.
DeleteScope(p, s) ==
  /\ pc[p] = "idle" /\ all = NoProc
  /\ s \in UserScopes /\ there[s] /\ Free(s) /\ made[s] < MaxMade
  /\ mu' = [mu EXCEPT ![s] = p]
  /\ op' = [op EXCEPT ![p] = "delete_scope"] /\ at' = [at EXCEPT ![p] = s]
  /\ ref' = [ref EXCEPT ![p] = made[s]]
  /\ stamp' = [stamp EXCEPT ![p] = clock]
  /\ Goto(p, "load")
  /\ UNCHANGED <<clock, storeTS, scopeVars, all, created, cur, history>>

\* rebuildAll, phase 1: the new buffers are built, and stamped, before the locks.
RebuildBuild(p) ==
  /\ pc[p] = "idle"
  /\ op' = [op EXCEPT ![p] = "rebuild"]
  /\ stamp' = [stamp EXCEPT ![p] = clock]
  /\ Goto(p, "lock")
  /\ UNCHANGED <<clock, storeTS, scopeVars, mu, all, at, ref, created, cur, history>>

\* Detach everything and swap the maps.  The locks stay until the loop is over.
SwapMaps(p, kept, ts) ==
  /\ all = NoProc /\ \A s \in Scopes : Free(s) /\ made[s] < MaxMade
  /\ all' = p
  /\ there' = [s \in Scopes |-> s \in Reserved \cup kept]
  /\ made' = [s \in Scopes |-> made[s] + 1]
  /\ \E full \in SUBSET kept : filled' = [s \in Scopes |-> s \in full]
  /\ scopeTS' = [s \in Scopes |-> IF s \in kept THEN ts ELSE scopeTS[s]]
  /\ stamp' = [stamp EXCEPT ![p] = clock]
  /\ Goto(p, "load")
  /\ UNCHANGED <<clock, storeTS, mu, at, ref, created, cur, history>>

Wipe(p) ==
  pc[p] = "idle" /\ op' = [op EXCEPT ![p] = "wipe"] /\ SwapMaps(p, {}, 0)

Rebuild(p) ==
  /\ pc[p] = "lock" /\ UNCHANGED op
  /\ \E kept \in SUBSET UserScopes : SwapMaps(p, kept, stamp[p])

----------------------------------------------------------------------------
(* Specification *)

\* newStore: initReservedScopes sets the stamps of the reserved scopes to 0.
Init ==
  /\ clock = 1 /\ storeTS = 0
  /\ there = [s \in Scopes |-> s \in Reserved] /\ made = [s \in Scopes |-> 0]
  /\ filled = [s \in Scopes |-> FALSE] /\ scopeTS = [s \in Scopes |-> 0]
  /\ mu = [s \in Scopes |-> NoProc] /\ all = NoProc
  /\ pc = [p \in Procs |-> "idle"] /\ op = [p \in Procs |-> "none"]
  /\ at = [p \in Procs |-> AnyScope] /\ ref = [p \in Procs |-> 0]
  /\ created = [p \in Procs |-> FALSE]
  /\ stamp = [p \in Procs |-> 0] /\ cur = [p \in Procs |-> 0]
  /\ ticks = {} /\ skew = [p \in Procs |-> FALSE] /\ stray = {}

Step(p) ==
  \/ \E s \in Scopes, o \in Ops : Begin(p, s, o)
  \/ Stamp(p) \/ CounterAdd(p) \/ CounterNow(p) \/ Refuse(p) \/ Cleanup(p)
  \/ BumpLoad(p) \/ BumpCas(p)
  \/ \E s \in Scopes : DeleteScope(p, s)
  \/ RebuildBuild(p) \/ Rebuild(p) \/ Wipe(p)

Next == Tick \/ \E p \in Procs : Step(p)

Spec == Init /\ [][Next]_vars

----------------------------------------------------------------------------
(* Properties *)

\* A client that fetches what it can see finds nothing newer than last_write_ts:
\* a change that readers can see has a stamp that the store's has reached, however
\* the compare-and-swap loops of other scopes interleave and the clock jumps.  An
\* equal stamp does not mean that nothing changed (RFC 2.5 says it does): a change
\* with a stamp that is not later than the store's comes to light without a tick.
VisibleIsTicked == \A t \in ticks : t <= storeTS

\* No tick without a change: the store's stamp is that of a change readers can
\* see, or of one that holds its lock and will be seen; a write that fails, or
\* that created a scope and failed, leaves none ("ghost tick", store.go).
NoGhostTick ==
  storeTS # 0 => storeTS \in ticks \cup {stamp[p] : p \in {q \in Procs : pc[q] \in {"load", "cas"}}}

\* The store's stamp only ever advances (CAS-max).
NeverRewinds == [][storeTS' >= storeTS]_vars

Quiesced == \A p \in Procs : pc[p] = "idle"

\* RFC 2.5, "last_write_ts >= max(scope.lastWriteTS) ... at quiesce", as far as
\* the code keeps it: for every scope but those that the history calls stray: one
\* whose creator failed after a counter had moved in, and those that a counter or
\* a /rebuild created before the clock stepped back and announced after.
QuiesceFresh ==
  Quiesced => \A s \in Scopes \ stray : there[s] => scopeTS[s] <= storeTS

=============================================================================
