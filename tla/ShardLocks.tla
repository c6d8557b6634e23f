----------------------------- MODULE ShardLocks -----------------------------
(***************************************************************************)
(* How the goroutines of the store take its shard locks: each lock by      *)
(* itself (lockAllShards, lockShards, sh.mu), read or write, one critical  *)
(* section after the other, with everything released in between.  Store    *)
(* takes the locks of a section in one step; this module shows that it may *)
(* (it implements AtomicShards), and that nobody waits for ever.           *)
(***************************************************************************)
EXTENDS Integers, FiniteSets, Sequences

CONSTANTS
  Procs, NoProc,
  NumShards,
  EventsShard,   \* shardIdxFor("_events")
  Kinds          \* of requests that are made

Shards == 1..NumShards

ASSUME ShardConstants ==
  /\ NumShards \in Nat /\ EventsShard \in Shards
  /\ Kinds \subseteq {"write", "failed_write", "delete_scope", "warm", "wipe", "scopelist", "emit"}
  /\ NoProc \notin Procs

VARIABLES
  pc,        \* "idle", "lock", "hold", "unlock"
  section,   \* the critical section a goroutine is at,
  later,     \*   and the ones after it
  got,       \* the shards it has locked
  writer     \* per shard: the writer that holds it or that keeps new readers out

vars == <<pc, section, later, got, writer>>

\* The section a goroutine is in, if it has all the locks of it.
Inside == [p \in Procs |-> IF pc[p] = "hold" THEN section[p] ELSE [mode |-> "R", shards |-> {}]]

Atomic == INSTANCE AtomicShards WITH inside <- Inside

Section == [mode : {"R", "W"}, shards : (SUBSET Shards) \ {{}}]

RLock(sh) == [mode |-> "R", shards |-> {sh}]

LockAllOf(S) == [mode |-> "W", shards |-> S]

----------------------------------------------------------------------------
(* The requests, as the sections they go through *)

\* getOrCreateScopeTrackingCreated and ensureScope: found, or not found and created.
GetOrCreateScope == {<<RLock(sh)>> : sh \in Shards} \cup {<<RLock(sh), LockAllOf({sh})>> : sh \in Shards}

\* The creation whose write failed: cleanupIfEmptyAndUnused.
CleanupIfEmptyAndUnused == {<<RLock(sh), LockAllOf({sh}), LockAllOf({sh})>> : sh \in Shards}

DeleteScope == {<<LockAllOf({sh})>> : sh \in Shards}

\* replaceScopes: the shards of its scopes (shardsForScopes).
ReplaceScopes == {<<LockAllOf(S)>> : S \in (SUBSET Shards) \ {{}}}

\* wipe and rebuildAll.
LockAllShards == {<<LockAllOf(Shards)>>}

\* scopeList and listScopes look at one shard after the other.
ScopeList == {[sh \in Shards |-> RLock(sh)]}

\* A commit appends its event once its locks are released; _events is always found.
Emitting == {r \o <<RLock(EventsShard)>> : r \in GetOrCreateScope \cup DeleteScope \cup ReplaceScopes}

Made(kind, reqs) == IF kind \in Kinds THEN reqs ELSE {}

Requests ==
  Made("write", GetOrCreateScope) \cup Made("failed_write", CleanupIfEmptyAndUnused)
    \cup Made("delete_scope", DeleteScope) \cup Made("warm", ReplaceScopes)
    \cup Made("wipe", LockAllShards) \cup Made("scopelist", ScopeList) \cup Made("emit", Emitting)

----------------------------------------------------------------------------
(* Actions *)

Lowest(S) == CHOOSE sh \in S : \A t \in S : sh <= t

\* Mutant: the shards come out of a map, in another order for each call.
MapOrder(p, rest) ==
  IF p = (CHOOSE q \in Procs : TRUE) THEN CHOOSE sh \in rest : \A t \in rest : sh >= t ELSE Lowest(rest)

\* The loops of lockAllShards, lockShards and shardsForScopes ascend.
NextShard(p, rest) == Lowest(rest)

Wanted(p) == NextShard(p, section[p].shards \ got[p])

Writes(p) == section[p].mode = "W"

\* sync.RWMutex, Lock: writers queue, and the first in the queue stops new readers.
Announce(p) ==
  /\ pc[p] = "lock" /\ Writes(p)
  /\ writer[Wanted(p)] = NoProc
  /\ writer' = [writer EXCEPT ![Wanted(p)] = p]
  /\ UNCHANGED <<pc, section, later, got>>

\* Mutant: a writer does not wait for the readers.
NotWaiting(p, sh) == IF Writes(p) THEN writer[sh] = p ELSE writer[sh] = NoProc

\* The writer waits until the readers are gone, a reader while there is a writer.
Free(p, sh) ==
  IF Writes(p) THEN writer[sh] = p /\ \A q \in Procs : sh \notin got[q]
  ELSE writer[sh] = NoProc

Call(p) ==
  /\ pc[p] = "idle"
  /\ \E r \in Requests : /\ section' = [section EXCEPT ![p] = Head(r)]
                         /\ later' = [later EXCEPT ![p] = Tail(r)]
  /\ pc' = [pc EXCEPT ![p] = "lock"]
  /\ UNCHANGED <<got, writer>>

\* One turn of the loop: Lock, or RLock, returns.
Lock(p) ==
  /\ pc[p] = "lock"
  /\ Free(p, Wanted(p))
  /\ got' = [got EXCEPT ![p] = @ \cup {Wanted(p)}]
  /\ pc' = [pc EXCEPT ![p] = IF got[p] \cup {Wanted(p)} = section[p].shards THEN "hold" ELSE "lock"]
  /\ UNCHANGED <<section, later, writer>>

\* The critical section itself.
Work(p) ==
  /\ pc[p] = "hold"
  /\ pc' = [pc EXCEPT ![p] = "unlock"]
  /\ UNCHANGED <<section, later, got, writer>>

\* sync.RWMutex, Unlock and RUnlock.
Unlocked(p, sh) ==
  /\ got' = [got EXCEPT ![p] = @ \ {sh}]
  /\ writer' = IF Writes(p) THEN [writer EXCEPT ![sh] = NoProc] ELSE writer

\* unlockAllShards, unlockShards: one by one, in an order that does not matter.
Unlock(p, sh) ==
  /\ pc[p] = "unlock" /\ sh \in got[p] /\ got[p] # {sh}
  /\ Unlocked(p, sh)
  /\ UNCHANGED <<pc, section, later>>

\* The last one: on to the next section, or the request is done.
UnlockLast(p, sh) ==
  /\ pc[p] = "unlock" /\ got[p] = {sh}
  /\ Unlocked(p, sh)
  /\ IF later[p] = <<>>
     THEN pc' = [pc EXCEPT ![p] = "idle"] /\ UNCHANGED <<section, later>>
     ELSE /\ pc' = [pc EXCEPT ![p] = "lock"]
          /\ section' = [section EXCEPT ![p] = Head(later[p])]
          /\ later' = [later EXCEPT ![p] = Tail(later[p])]

Init ==
  /\ pc = [p \in Procs |-> "idle"]
  /\ section = [p \in Procs |-> RLock(EventsShard)]
  /\ later = [p \in Procs |-> <<>>]
  /\ got = [p \in Procs |-> {}]
  /\ writer = [sh \in Shards |-> NoProc]

Release(p) == \E sh \in Shards : Unlock(p, sh) \/ UnlockLast(p, sh)

Next == \E p \in Procs : Call(p) \/ Announce(p) \/ Lock(p) \/ Work(p) \/ Release(p)

Spec == Init /\ [][Next]_vars

\* Sections and loops run to their end.  sync.RWMutex: the queue of writers is a
\* starvation-free mutex, and the readers that wait get in at the next Unlock.
FairSpec ==
  Spec /\ \A p \in Procs : WF_vars(Work(p) \/ Release(p)) /\ SF_vars(Announce(p)) /\ SF_vars(Lock(p))

----------------------------------------------------------------------------
(* Properties *)

TypeOK ==
  /\ pc \in [Procs -> {"idle", "lock", "hold", "unlock"}]
  /\ section \in [Procs -> Section]
  /\ later \in [Procs -> Seq(Section)]
  /\ got \in [Procs -> SUBSET Shards]
  /\ writer \in [Shards -> Procs \cup {NoProc}]

\* Taking the locks one at a time is as good as taking them at once: "all
\* relevant shards held simultaneously" (shardsForScopes), by which /warm, /wipe
\* and /rebuild exclude each other and every lookup.
TakenAtOnce == Atomic!Spec

\* It can take a step whatever the others do.
CanStep(p) ==
  \/ pc[p] \in {"hold", "unlock"}
  \/ pc[p] = "lock" /\ Free(p, Wanted(p))
  \/ pc[p] = "lock" /\ Writes(p) /\ writer[Wanted(p)] = NoProc

\* The ascending order rules deadlock out: while requests are under way, one of
\* them can go on, however many lock several shards, scan them, or emit.
NoDeadlock == (\E p \in Procs : pc[p] # "idle") => \E p \in Procs : CanStep(p)

\* Every request gets its locks and returns, /wipe and /rebuild beside a stream
\* of lookups included.
EveryoneReturns == \A p \in Procs : pc[p] # "idle" ~> pc[p] = "idle"

=============================================================================
