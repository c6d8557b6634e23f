------------------------------- MODULE Store -------------------------------
(***************************************************************************)
(* The concurrent core of scopecache: the sharded scope map, the buffers   *)
(* it points to, the three store-wide counters and the request goroutines  *)
(* that move between them (store.go, bulk.go, and the critical sections of *)
(* buffer_*.go as far as they touch shared counters).                      *)
(*                                                                         *)
(* Granularity.  A critical section of a buffer lock (b.mu) is one step,   *)
(* and so is a critical section of one shard lock: each performs at most   *)
(* one compare-and-swap on totalBytes that can fail, and everything else   *)
(* in it commutes with the other goroutines.  What lies between two such   *)
(* sections is visible here: a goroutine keeps a buffer pointer in ref     *)
(* after it released the shard lock, and /wipe, /rebuild and /warm hold    *)
(* their shard locks (holder) over many steps while goroutines that looked *)
(* their buffer up earlier go on writing.                                  *)
(*                                                                         *)
(* A request the code refuses before it changed anything (validation, an   *)
(* unknown scope, no room for a new scope) leaves the state as it was, so  *)
(* it has no step of its own.                                              *)
(***************************************************************************)
EXTENDS Integers, FiniteSets, Functions

CONSTANTS
  Procs,                \* request goroutines
  NoProc,
  Scopes,               \* scope names, the reserved ones included
  Reserved,             \* _events and _inbox
  EventsScope,          \* _events
  Shards,
  ShardOf,              \* [Scopes -> Shards]: shardIdxFor, a seeded hash
  Bufs,                 \* heap addresses of scopeBuffers; unreferenced ones are reused
  NoBuf,
  Ids,                  \* client-supplied item ids
  NoId,                 \* the empty id
  Sizes,                \* approxItemSize of a written item
  CounterSize,          \* approxItemSize of a counter item
  EventSize,            \* approxItemSize of an _events entry
  Batches,              \* item lists a /warm or /rebuild request may carry
  NoBatch,
  ScopeBufferOverhead,  \* scopeBufferOverhead, charged once per scope
  MaxStoreBytes,        \* Config.MaxStoreBytes
  DefaultMaxItems,      \* Config.ScopeMaxItems
  ItemCap,              \* [Scopes -> Nat], maxItemsFor; 0 is unbounded
  EventsOn,             \* Config.Events.Mode # EventsModeOff
  Ops,                  \* the endpoints clients call
  MaxSeq,               \* bound of the model on a buffer's seqs
  MaxDrops              \* bound of the model on eventsDropsTotal

Seqs == 1..MaxSeq

Item == [id : Ids \cup {NoId}, size : Nat]

\* b.items keyed by seq; b.bySeq, b.byID and b.byUUID are views of it, see ScopeBuffer.
IsItemMap(m) == DOMAIN m \subseteq Seqs /\ m \in [DOMAIN m -> Item]

NoItems == [n \in {} |-> [id |-> NoId, size |-> 0]]

UserScopes == Scopes \ Reserved

ASSUME StoreConstants ==
  /\ IsFiniteSet(Scopes) /\ Reserved \subseteq Scopes /\ EventsScope \in Reserved
  /\ ShardOf \in [Scopes -> Shards]
  /\ NoBuf \notin Bufs /\ NoProc \notin Procs
  /\ Sizes \subseteq Nat \ {0} /\ CounterSize \in Nat /\ EventSize \in Nat
  /\ MaxSeq \in Nat /\ MaxDrops \in Nat
  /\ \A bt \in Batches : IsItemMap(bt) /\ DOMAIN bt = 1..Cardinality(DOMAIN bt)
  /\ NoBatch \notin Batches
  /\ ScopeBufferOverhead \in Nat /\ MaxStoreBytes \in Nat
  /\ DefaultMaxItems \in Nat /\ ItemCap \in [Scopes -> Nat]
  /\ EventsOn \in BOOLEAN

\* Config.WithDefaults clamps the budget so that the reserved scopes fit.
ASSUME ReservedFit ==
  Cardinality(Reserved) * ScopeBufferOverhead <= MaxStoreBytes

\* The heap holds at least the buffers newStore allocates.
ASSUME HeapRoom == ExistsInjection(Reserved, Bufs)

VARIABLES
  scopes,            \* [Scopes -> Bufs or NoBuf]: the shard maps
  holder,            \* [Shards -> Procs or NoProc]: shard locks held over several steps
  items,             \* [Bufs -> [a set of seqs -> Item]]: b.items
  bytes,             \* [Bufs -> Int]: b.bytes
  lastSeq,           \* [Bufs -> Nat]: b.lastSeq
  detached,          \* [Bufs -> BOOLEAN]: b.detached (b.store = nil is set with it)
  totalBytes, totalItems, scopeCount, eventsDropsTotal,
  pc,                \* [Procs -> Labels]
  req,               \* [Procs -> Request]: the request a goroutine serves
  ref,               \* [Procs -> Bufs or NoBuf]: the buffer pointer it holds
  created,           \* [Procs -> BOOLEAN]: its lookup allocated the scope
  load,              \* [Procs -> [Scopes -> Batches or NoBatch]]: its /warm or /rebuild input
  plan               \* [Scopes -> Plan]: the plan of the /warm that holds the scope's shard

bufVars   == <<items, bytes, lastSeq, detached>>
totals    == <<totalBytes, totalItems, scopeCount>>
procVars  == <<pc, req, ref, created, load>>
vars      == <<scopes, holder, bufVars, totals, eventsDropsTotal, procVars, plan>>

Labels == {"idle", "commit", "cleanup", "emit", "wipe", "rebuild", "warm"}

WriteOps == {"append", "upsert", "counter_add", "update", "delete", "delete_up_to"}

Request == [op : WriteOps \cup {"none"}, scope : Scopes, id : Ids \cup {NoId},
            size : Sizes \cup {0, CounterSize, EventSize}, seq : 0..MaxSeq]

Plan == [phase : {"none", "todo", "snap", "reserved", "done"}, old : Int, new : BOOLEAN]

NoPlan == [phase |-> "none", old |-> 0, new |-> FALSE]

\* emitEvent: the append into _events a committed write is followed by.
EventRequest == [op |-> "append", scope |-> EventsScope, id |-> NoId, size |-> EventSize, seq |-> 0]

NoRequest == [op |-> "none", scope |-> EventsScope, id |-> NoId, size |-> 0, seq |-> 0]

NoLoad == [s \in Scopes |-> NoBatch]

----------------------------------------------------------------------------
(* Helpers *)

ShardFree(s) == holder[ShardOf[s]] = NoProc

Found(s) == scopes[s] # NoBuf

Mapped == {s \in Scopes : scopes[s] # NoBuf}

\* Memory nobody points to: neither a shard map nor a goroutine.
FreshBufs == {b \in Bufs : (\A s \in Scopes : scopes[s] # b) /\ (\A p \in Procs : ref[p] # b)}

\* newscopeBuffer; which free address the allocator returns makes no difference.
NewBuf == CHOOSE b \in FreshBufs : TRUE

\* Mutant: the cap is compared with the delta alone.
FitsIgnoringTotal(delta) == delta <= MaxStoreBytes

\* reserveBytes: releases always succeed, a positive delta must fit under the cap.
Fits(delta) == delta <= 0 \/ delta <= MaxStoreBytes - totalBytes

\* itemCapExceeded for one more item; cap 0 is unbounded.
CapExceeded(b, s) == ItemCap[s] > 0 /\ Cardinality(DOMAIN items[b]) + 1 > ItemCap[s]

SizeOf(m) == [n \in DOMAIN m |-> m[n].size]

\* Bytes of the items of m whose seq is in S: the loops of deleteUpToSeqLocked and sumItemBytes.
BytesOf(m, S) == SumFunctionOnSet(SizeOf(m), S)

\* The seqs of buffer b a request addresses: by id, by seq, or the prefix of /delete_up_to.
Hits(b, r) ==
  {n \in DOMAIN items[b] :
     IF r.op = "delete_up_to" THEN n <= r.seq
     ELSE IF r.id # NoId THEN items[b][n].id = r.id
     ELSE n = r.seq}

----------------------------------------------------------------------------
(* Control of a request *)

Idle(p) ==
  /\ pc'      = [pc EXCEPT ![p] = "idle"]
  /\ req'     = [req EXCEPT ![p] = NoRequest]
  /\ ref'     = [ref EXCEPT ![p] = NoBuf]
  /\ created' = [created EXCEPT ![p] = FALSE]
  /\ load'    = [load EXCEPT ![p] = NoLoad]

\* eventsEnabled: a point write into _events, or a drain of it, makes no event (the
\* recursion guard).  /delete_scope and /warm name user scopes.
EventsEnabled(p) == EventsOn /\ (pc[p] = "commit" => req[p].scope # EventsScope)

\* A committed write emits its event after every lock is released.
Committed(p) ==
  IF EventsEnabled(p)
  THEN /\ pc'      = [pc EXCEPT ![p] = "emit"]
       /\ req'     = [req EXCEPT ![p] = EventRequest]
       /\ ref'     = [ref EXCEPT ![p] = NoBuf]
       /\ created' = [created EXCEPT ![p] = FALSE]
       /\ load'    = [load EXCEPT ![p] = NoLoad]
  ELSE Idle(p)

\* Bound of the model: a buffer admits no more writers than it has seqs left.
Admits(s) ==
  scopes[s] # NoBuf => lastSeq[scopes[s]] + Cardinality({p \in Procs : ref[p] = scopes[s]}) < MaxSeq

\* Bound of the model: no request starts whose event would leave the bounds.
EventRoom ==
  LET running == Cardinality({p \in Procs : pc[p] # "idle"})
  IN  EventsOn => /\ lastSeq[scopes[EventsScope]] + running < MaxSeq
                  /\ eventsDropsTotal + running < MaxDrops

\* The lookup of getOrCreateScopeTrackingCreated and getScope that finds the scope.
LookupFound(p, r) ==
  /\ ShardFree(r.scope)
  /\ Found(r.scope)
  /\ pc'      = [pc EXCEPT ![p] = "commit"]
  /\ req'     = [req EXCEPT ![p] = r]
  /\ ref'     = [ref EXCEPT ![p] = scopes[r.scope]]
  /\ created' = [created EXCEPT ![p] = FALSE]
  /\ UNCHANGED <<scopes, holder, bufVars, totals, eventsDropsTotal, load, plan>>

\* The slow path of getOrCreateScopeTrackingCreated: under the shard lock the
\* scope is still absent, its overhead is reserved and the buffer published.
LookupCreated(p, r) ==
  /\ ShardFree(r.scope)
  /\ ~ Found(r.scope)
  /\ Fits(ScopeBufferOverhead)
  /\ FreshBufs # {}
  /\ scopes'   = [scopes EXCEPT ![r.scope] = NewBuf]
  /\ items'    = [items EXCEPT ![NewBuf] = NoItems]
  /\ bytes'    = [bytes EXCEPT ![NewBuf] = 0]
  /\ lastSeq'  = [lastSeq EXCEPT ![NewBuf] = 0]
  /\ detached' = [detached EXCEPT ![NewBuf] = FALSE]
  /\ ref'      = [ref EXCEPT ![p] = NewBuf]
  /\ totalBytes' = totalBytes + ScopeBufferOverhead
  /\ scopeCount' = scopeCount + 1
  /\ pc'      = [pc EXCEPT ![p] = "commit"]
  /\ req'     = [req EXCEPT ![p] = r]
  /\ created' = [created EXCEPT ![p] = TRUE]
  /\ UNCHANGED <<holder, totalItems, eventsDropsTotal, load, plan>>

\* updateOne, deleteOne and deleteUpTo never create a scope.
CreatingOps == {"append", "upsert", "counter_add"}

\* What the validators let through: reserved scopes take no upsert, update or
\* counter_add, and only the cache itself appends to _events.
Allowed(r) ==
  /\ r.op \in Ops \cap WriteOps
  /\ r.op \in {"upsert", "update", "counter_add"} => r.scope \in UserScopes
  /\ r.op = "append" => r.scope # EventsScope
  /\ r.op \in {"upsert", "counter_add"} => r.id # NoId
  /\ r.op \in CreatingOps => r.seq = 0
  /\ r.op \in {"update", "delete"} => (r.id = NoId <=> r.seq # 0)
  /\ r.op = "delete_up_to" => r.id = NoId /\ r.seq # 0
  /\ r.size \in CASE r.op \in {"append", "upsert", "update"} -> Sizes
                   [] r.op = "counter_add" -> {CounterSize}
                   [] OTHER -> {0}

Requests == {r \in Request : Allowed(r)}

\* appendOne, upsertOne, counterAddOne, updateOne, deleteOne, deleteUpTo up to
\* the buffer call.
Begin(p) ==
  /\ pc[p] = "idle"
  /\ \E r \in Requests :
       \/ (r.op \in CreatingOps => Admits(r.scope)) /\ LookupFound(p, r)
       \/ r.op \in CreatingOps /\ LookupCreated(p, r)

\* emitEvent's own trip through appendOneTrusted.  It only looks _events up:
\* whenever its shard can be locked the scope is there (ReservedPresent).
Emit(p) ==
  /\ pc[p] = "emit"
  /\ LookupFound(p, EventRequest)

----------------------------------------------------------------------------
(* The buffer's critical section, entered with the pointer the lookup gave *)

AtBuffer(p, op) == pc[p] = "commit" /\ req[p].op = op

\* insertNewItemLocked: reserve, take the next seq, publish.
InsertNewItemLocked(b, it) ==
  /\ Fits(it.size)
  /\ lastSeq[b] < MaxSeq
  /\ items'   = [items EXCEPT ![b] = [n \in DOMAIN items[b] \cup {lastSeq[b] + 1} |->
                                        IF n = lastSeq[b] + 1 THEN it ELSE items[b][n]]]
  /\ lastSeq' = [lastSeq EXCEPT ![b] = lastSeq[b] + 1]
  /\ bytes'   = [bytes EXCEPT ![b] = bytes[b] + it.size]
  /\ totalBytes' = totalBytes + it.size
  /\ totalItems' = totalItems + 1
  /\ UNCHANGED <<detached, scopeCount>>

\* newSize - oldSize of reservePayloadDeltaLocked.
SizeDelta(b, n, size) == size - items[b][n].size

\* replaceItemAtIndexLocked after reservePayloadDeltaLocked; seq and id stay.
ReplaceItemLocked(b, n, size) ==
  LET delta == SizeDelta(b, n, size)
  IN  /\ Fits(delta)
      /\ items' = [items EXCEPT ![b] = [m \in DOMAIN items[b] |->
                       IF m = n THEN [id |-> items[b][n].id, size |-> size] ELSE items[b][m]]]
      /\ bytes' = [bytes EXCEPT ![b] = bytes[b] + delta]
      /\ totalBytes' = totalBytes + delta
      /\ UNCHANGED <<lastSeq, detached, totalItems, scopeCount>>

\* deleteIndexLocked and deleteUpToSeqLocked; lastSeq is kept.
RemoveItemsLocked(b, S) ==
  LET freed == BytesOf(items[b], S)
  IN  /\ items' = [items EXCEPT ![b] = [n \in DOMAIN items[b] \ S |-> items[b][n]]]
      /\ bytes' = [bytes EXCEPT ![b] = bytes[b] - freed]
      /\ totalBytes' = totalBytes - freed
      /\ totalItems' = totalItems - Cardinality(S)
      /\ UNCHANGED <<lastSeq, detached, scopeCount>>

AppendItem(p) ==
  /\ AtBuffer(p, "append")
  /\ ~ detached[ref[p]]
  /\ ~ CapExceeded(ref[p], req[p].scope)
  /\ Hits(ref[p], req[p]) = {}
  /\ InsertNewItemLocked(ref[p], [id |-> req[p].id, size |-> req[p].size])
  /\ Committed(p)
  /\ UNCHANGED <<scopes, holder, eventsDropsTotal, plan>>

UpsertByID(p) ==
  /\ AtBuffer(p, "upsert")
  /\ ~ detached[ref[p]]
  /\ \/ \E n \in Hits(ref[p], req[p]) : ReplaceItemLocked(ref[p], n, req[p].size)
     \/ /\ Hits(ref[p], req[p]) = {}
        /\ ~ CapExceeded(ref[p], req[p].scope)
        /\ InsertNewItemLocked(ref[p], [id |-> req[p].id, size |-> req[p].size])
  /\ Committed(p)
  /\ UNCHANGED <<scopes, holder, eventsDropsTotal, plan>>

\* counterAdd: an increment leaves the size alone, promoting a plain item and
\* creating a counter charge it (Counter models the value).
CounterAdd(p) ==
  /\ AtBuffer(p, "counter_add")
  /\ ~ detached[ref[p]]
  /\ \/ \E n \in Hits(ref[p], req[p]) : ReplaceItemLocked(ref[p], n, req[p].size)
     \/ /\ Hits(ref[p], req[p]) = {}
        /\ ~ CapExceeded(ref[p], req[p].scope)
        /\ InsertNewItemLocked(ref[p], [id |-> req[p].id, size |-> req[p].size])
  /\ Committed(p)
  /\ UNCHANGED <<scopes, holder, eventsDropsTotal, plan>>

UpdateItem(p) ==
  /\ AtBuffer(p, "update")
  /\ ~ detached[ref[p]]
  /\ \E n \in Hits(ref[p], req[p]) : ReplaceItemLocked(ref[p], n, req[p].size)
  /\ Committed(p)
  /\ UNCHANGED <<scopes, holder, eventsDropsTotal, plan>>

\* deleteByID, deleteBySeq and deleteUpToSeq.
DeleteItems(p) ==
  /\ AtBuffer(p, "delete") \/ AtBuffer(p, "delete_up_to")
  /\ ~ detached[ref[p]]
  /\ Hits(ref[p], req[p]) # {}
  /\ RemoveItemsLocked(ref[p], Hits(ref[p], req[p]))
  /\ Committed(p)
  /\ UNCHANGED <<scopes, holder, eventsDropsTotal, plan>>

\* An update or delete that addresses nothing returns 0 and emits nothing.
Miss(p) ==
  /\ pc[p] = "commit" /\ req[p].op \in {"update", "delete", "delete_up_to"}
  /\ ~ detached[ref[p]]
  /\ Hits(ref[p], req[p]) = {}
  /\ Idle(p)
  /\ UNCHANGED <<scopes, holder, bufVars, totals, eventsDropsTotal, plan>>

\* The errors of the critical section: ScopeDetachedError, ScopeFullError,
\* StoreFullError, the duplicate id of /append, CounterPayloadError.
Refused(p) ==
  LET b    == ref[p]
      r    == req[p]
      hits == Hits(b, r)
      replaces == r.op \in {"upsert", "counter_add", "update"} /\ hits # {}
      inserts  == r.op \in CreatingOps /\ hits = {}
  IN  \/ detached[b]
      \/ r.op = "append" /\ hits # {}
      \/ r.op = "counter_add" /\ hits # {}
      \/ inserts /\ (CapExceeded(b, r.scope) \/ ~ Fits(r.size))
      \/ replaces /\ \E n \in hits : ~ Fits(SizeDelta(b, n, r.size))

\* Mutant: the goroutine that allocated the scope forgets to roll it back.
NeverRollsBack(p) == FALSE

RollsBack(p) == created[p]

\* A refused write changes nothing itself; the goroutine that allocated the
\* scope goes on to roll it back, and a lost event is counted.
Fail(p) ==
  /\ pc[p] = "commit"
  /\ Refused(p)
  /\ IF req[p] = EventRequest
     THEN eventsDropsTotal' = eventsDropsTotal + 1
     ELSE UNCHANGED eventsDropsTotal
  /\ IF RollsBack(p)
     THEN pc' = [pc EXCEPT ![p] = "cleanup"] /\ UNCHANGED <<req, ref, created, load>>
     ELSE Idle(p)
  /\ UNCHANGED <<scopes, holder, bufVars, totals, plan>>

----------------------------------------------------------------------------
(* Operations on whole scopes, under one shard lock *)

\* Mutant: the buffer leaves the map but stays attached.
LeaveAttached(b) == UNCHANGED detached

\* b.detached = true, b.store = nil: later calls get ScopeDetachedError.
Detach(b) == detached' = [detached EXCEPT ![b] = TRUE]

StillUnused(s, b) == scopes[s] = b /\ DOMAIN items[b] = {}

\* cleanupIfEmptyAndUnused.
Cleanup(p) ==
  LET s == req[p].scope
      b == ref[p]
  IN  /\ pc[p] = "cleanup"
      /\ ShardFree(s)
      /\ IF StillUnused(s, b)
         THEN /\ scopes'     = [scopes EXCEPT ![s] = NoBuf]
              /\ totalBytes' = totalBytes - ScopeBufferOverhead
              /\ scopeCount' = scopeCount - 1
              /\ Detach(b)
         ELSE UNCHANGED <<scopes, totalBytes, scopeCount, detached>>
      /\ Idle(p)
      /\ UNCHANGED <<holder, items, bytes, lastSeq, totalItems, eventsDropsTotal, plan>>

\* deleteScope.
DeleteScope(p, s) ==
  /\ pc[p] = "idle" /\ "delete_scope" \in Ops
  /\ s \in UserScopes
  /\ ShardFree(s)
  /\ scopes[s] # NoBuf
  /\ scopes'     = [scopes EXCEPT ![s] = NoBuf]
  /\ totalBytes' = totalBytes - (bytes[scopes[s]] + ScopeBufferOverhead)
  /\ totalItems' = totalItems - Cardinality(DOMAIN items[scopes[s]])
  /\ scopeCount' = scopeCount - 1
  /\ Detach(scopes[s])
  /\ Committed(p)
  /\ UNCHANGED <<holder, items, bytes, lastSeq, eventsDropsTotal, plan>>

----------------------------------------------------------------------------
(* /wipe and /rebuild: every shard lock, held from the first step to the swap *)

\* Mutant: the lock loop leaves one shard out.
AllButOneShard == Shards \ {CHOOSE sh \in Shards : TRUE}

AllShards == Shards

\* lockAllShards; taking the locks one by one in ascending order is ShardLocks.
LockAll(p, label) ==
  /\ pc[p] = "idle"
  /\ \A sh \in AllShards : holder[sh] = NoProc
  /\ holder' = [sh \in Shards |-> IF sh \in AllShards THEN p ELSE holder[sh]]
  /\ pc'     = [pc EXCEPT ![p] = label]
  /\ UNCHANGED <<scopes, bufVars, totals, eventsDropsTotal, req, ref, created, plan>>

WipeLock(p) ==
  /\ "wipe" \in Ops
  /\ LockAll(p, "wipe")
  /\ UNCHANGED load

WarmScopes(ld) == {s \in Scopes : ld[s] # NoBatch}

\* buildReplacementState and the batch checks: no duplicate ids, the item cap.
ValidBatch(bt) ==
  /\ Cardinality(DOMAIN bt) <= DefaultMaxItems
  /\ \A m, n \in DOMAIN bt : bt[m].id = bt[n].id /\ m # n => bt[m].id = NoId

\* The inputs of /warm and /rebuild that pass validation: user scopes only.
Loads == {ld \in [Scopes -> {bt \in Batches : ValidBatch(bt)} \cup {NoBatch}] :
            \A s \in Reserved : ld[s] = NoBatch}

\* A scope's share of the new totals of /rebuild: its items and its overhead.
LoadBytes(ld) == [s \in Scopes |-> IF ld[s] = NoBatch THEN 0
                                   ELSE BytesOf(ld[s], DOMAIN ld[s]) + ScopeBufferOverhead]

LoadItems(ld) == [s \in Scopes |-> IF ld[s] = NoBatch THEN 0 ELSE Cardinality(DOMAIN ld[s])]

ReservedOverhead == Cardinality(Reserved) * ScopeBufferOverhead

\* rebuildAll, phase 1 (a pure function of the input) and the locks.
RebuildLock(p, ld) ==
  /\ "rebuild" \in Ops
  /\ SumFunctionOnSet(LoadBytes(ld), Scopes) + ReservedOverhead <= MaxStoreBytes
  /\ LockAll(p, "rebuild")
  /\ load' = [load EXCEPT ![p] = ld]

\* One turn of the detach loop, under that buffer's lock.
DetachBuffer(p, s) ==
  /\ pc[p] \in {"wipe", "rebuild"}
  /\ scopes[s] # NoBuf /\ ~ detached[scopes[s]]
  /\ Detach(scopes[s])
  /\ UNCHANGED <<scopes, holder, items, bytes, lastSeq, totals, eventsDropsTotal, procVars, plan>>

\* Mutant: the maps are swapped while buffers are still attached.
NoneDetached == TRUE

\* The detach loop has seen every buffer.
AllDetached == \A s \in Mapped : detached[scopes[s]]

\* Mutant: the reserved scopes are left for the first write to create.
UserScopesKept(ld) == WarmScopes(ld)

\* The scopes of the new maps: initReservedScopesLocked adds the reserved ones.
KeptScopes(ld) == Reserved \cup WarmScopes(ld)

\* The swap: fresh buffers for the reserved scopes (initReservedScopesLocked) and
\* for the scopes of the input, the counters set to match, the locks released.
Swap(p, ld) ==
  LET kept == KeptScopes(ld)
      f    == CHOOSE g \in Injection(kept, FreshBufs) : TRUE
      at(b)    == CHOOSE s \in kept : f[s] = b
      isNew(b) == \E s \in kept : f[s] = b
      batch(b) == IF ld[at(b)] = NoBatch THEN NoItems ELSE ld[at(b)]
  IN  /\ AllDetached
      /\ ExistsInjection(kept, FreshBufs)
      /\ scopes'   = [s \in Scopes |-> IF s \in kept THEN f[s] ELSE NoBuf]
      /\ items'    = [b \in Bufs |-> IF isNew(b) THEN batch(b) ELSE items[b]]
      /\ bytes'    = [b \in Bufs |-> IF isNew(b) THEN BytesOf(batch(b), DOMAIN batch(b)) ELSE bytes[b]]
      /\ lastSeq'  = [b \in Bufs |-> IF isNew(b) THEN Cardinality(DOMAIN batch(b)) ELSE lastSeq[b]]
      /\ detached' = [b \in Bufs |-> detached[b] /\ ~ isNew(b)]
      /\ totalBytes' = SumFunctionOnSet(LoadBytes(ld), Scopes) + ReservedOverhead
      /\ totalItems' = SumFunctionOnSet(LoadItems(ld), Scopes)
      /\ scopeCount' = Cardinality(kept)
      /\ holder'     = [sh \in Shards |-> NoProc]
      /\ Idle(p)
      /\ UNCHANGED <<eventsDropsTotal, plan>>

\* wipe and rebuildAll emit no event.
WipeSwap(p) == pc[p] = "wipe" /\ Swap(p, NoLoad)

RebuildSwap(p) == pc[p] = "rebuild" /\ Swap(p, load[p])

----------------------------------------------------------------------------
(* /warm: the shard locks of its scopes, held over snapshot, reserve, commit *)

\* The plans of the /warm running on p.
PlanScopes(p) == WarmScopes(load[p])

\* replaceScopes, phase 1 and lockShards.
WarmLock(p, ld) ==
  /\ pc[p] = "idle" /\ "warm" \in Ops
  /\ WarmScopes(ld) # {}
  /\ \A s \in WarmScopes(ld) : ShardFree(s)
  /\ holder' = [sh \in Shards |-> IF \E s \in WarmScopes(ld) : ShardOf[s] = sh THEN p ELSE holder[sh]]
  /\ pc'     = [pc EXCEPT ![p] = "warm"]
  /\ load'   = [load EXCEPT ![p] = ld]
  /\ plan'   = [s \in Scopes |-> IF s \in WarmScopes(ld) THEN [NoPlan EXCEPT !.phase = "todo"] ELSE plan[s]]
  /\ UNCHANGED <<scopes, bufVars, totals, eventsDropsTotal, req, ref, created>>

\* Phase 1.5, one scope: b.bytes as read under its RLock, 0 for a new scope.
WarmSnapshot(p, s) ==
  /\ pc[p] = "warm" /\ s \in PlanScopes(p) /\ plan[s].phase = "todo"
  /\ plan' = [plan EXCEPT ![s] = [phase |-> "snap",
                                  old |-> IF scopes[s] = NoBuf THEN 0 ELSE bytes[scopes[s]],
                                  new |-> FALSE]]
  /\ UNCHANGED <<scopes, holder, bufVars, totals, eventsDropsTotal, procVars>>

\* What a plan adds to totalDelta.
PlanDelta(ld, s) ==
  BytesOf(ld[s], DOMAIN ld[s]) - plan[s].old + (IF scopes[s] = NoBuf THEN ScopeBufferOverhead ELSE 0)

TotalDelta(ld) ==
  SumFunctionOnSet([s \in Scopes |-> IF s \in WarmScopes(ld) THEN PlanDelta(ld, s) ELSE 0], Scopes)

\* Mutant: a return path that keeps the locks.
KeepLocked(p) == UNCHANGED holder

\* unlockShards.
Unlock(p) == holder' = [sh \in Shards |-> IF holder[sh] = p THEN NoProc ELSE holder[sh]]

ClearPlans(p) == plan' = [s \in Scopes |-> IF s \in PlanScopes(p) THEN NoPlan ELSE plan[s]]

\* The end of phase 1.5: one compare-and-swap for the whole batch.
WarmReserve(p) ==
  /\ pc[p] = "warm"
  /\ \A s \in PlanScopes(p) : plan[s].phase = "snap"
  /\ Fits(TotalDelta(load[p]))
  /\ totalBytes' = totalBytes + TotalDelta(load[p])
  /\ plan' = [s \in Scopes |-> IF s \in PlanScopes(p) THEN [plan[s] EXCEPT !.phase = "reserved"] ELSE plan[s]]
  /\ UNCHANGED <<scopes, holder, bufVars, totalItems, scopeCount, eventsDropsTotal, procVars>>

\* The batch does not fit: StoreFullError, nothing was changed.
WarmRefused(p) ==
  /\ pc[p] = "warm"
  /\ \A s \in PlanScopes(p) : plan[s].phase = "snap"
  /\ ~ Fits(TotalDelta(load[p]))
  /\ Unlock(p)
  /\ ClearPlans(p)
  /\ Idle(p)
  /\ UNCHANGED <<scopes, bufVars, totals, eventsDropsTotal>>

\* Mutant: the bytes written since the snapshot are forgotten.
NoDrift(s) == 0

Drift(s) == bytes[scopes[s]] - plan[s].old

ItemsDelta(b, bt) == Cardinality(DOMAIN bt) - Cardinality(DOMAIN items[b])

\* commitReplacementPreReserved: release the drift since the snapshot, swap the
\* contents.  The buffer stays the one it was, attached.
CommitReplacementPreReserved(b, bt, drift) ==
  /\ totalBytes' = totalBytes - drift
  /\ totalItems' = totalItems + ItemsDelta(b, bt)
  /\ items'   = [items EXCEPT ![b] = bt]
  /\ bytes'   = [bytes EXCEPT ![b] = BytesOf(bt, DOMAIN bt)]
  /\ lastSeq' = [lastSeq EXCEPT ![b] = Cardinality(DOMAIN bt)]

\* Phase 2 for a scope that exists.
WarmCommit(p, s) ==
  /\ pc[p] = "warm" /\ s \in PlanScopes(p) /\ plan[s].phase = "reserved"
  /\ scopes[s] # NoBuf
  /\ CommitReplacementPreReserved(scopes[s], load[p][s], Drift(s))
  /\ plan' = [plan EXCEPT ![s].phase = "done"]
  /\ UNCHANGED <<scopes, holder, detached, scopeCount, eventsDropsTotal, procVars>>

\* Phase 2 for a scope the batch creates; scopeCount follows at the end.
WarmCreate(p, s) ==
  /\ pc[p] = "warm" /\ s \in PlanScopes(p) /\ plan[s].phase = "reserved"
  /\ scopes[s] = NoBuf
  /\ FreshBufs # {}
  /\ scopes'   = [scopes EXCEPT ![s] = NewBuf]
  /\ items'    = [items EXCEPT ![NewBuf] = load[p][s]]
  /\ bytes'    = [bytes EXCEPT ![NewBuf] = BytesOf(load[p][s], DOMAIN load[p][s])]
  /\ lastSeq'  = [lastSeq EXCEPT ![NewBuf] = Cardinality(DOMAIN load[p][s])]
  /\ detached' = [detached EXCEPT ![NewBuf] = FALSE]
  /\ totalItems' = totalItems + Cardinality(DOMAIN load[p][s])
  /\ plan' = [plan EXCEPT ![s].phase = "done", ![s].new = TRUE]
  /\ UNCHANGED <<holder, totalBytes, scopeCount, eventsDropsTotal, procVars>>

NewScopes(p) == {s \in PlanScopes(p) : plan[s].new}

\* The end of the locked closure, then emitWarmEvent.
WarmFinish(p) ==
  /\ pc[p] = "warm"
  /\ \A s \in PlanScopes(p) : plan[s].phase = "done"
  /\ scopeCount' = scopeCount + Cardinality(NewScopes(p))
  /\ Unlock(p)
  /\ ClearPlans(p)
  /\ Committed(p)
  /\ UNCHANGED <<scopes, bufVars, totalBytes, totalItems, eventsDropsTotal>>

----------------------------------------------------------------------------
(* Specification *)

\* newStore: initReservedScopes.
Init ==
  /\ scopes = LET f == CHOOSE g \in Injection(Reserved, Bufs) : TRUE
              IN  [s \in Scopes |-> IF s \in Reserved THEN f[s] ELSE NoBuf]
  /\ holder   = [sh \in Shards |-> NoProc]
  /\ items    = [b \in Bufs |-> NoItems]
  /\ bytes    = [b \in Bufs |-> 0]
  /\ lastSeq  = [b \in Bufs |-> 0]
  /\ detached = [b \in Bufs |-> FALSE]
  /\ totalBytes = ReservedOverhead
  /\ totalItems = 0
  /\ scopeCount = Cardinality(Reserved)
  /\ eventsDropsTotal = 0
  /\ pc      = [p \in Procs |-> "idle"]
  /\ req     = [p \in Procs |-> NoRequest]
  /\ ref     = [p \in Procs |-> NoBuf]
  /\ created = [p \in Procs |-> FALSE]
  /\ load    = [p \in Procs |-> NoLoad]
  /\ plan    = [s \in Scopes |-> NoPlan]

\* The steps a goroutine takes once its request is under way.
Proceed(p) ==
  \/ Emit(p)
  \/ AppendItem(p) \/ UpsertByID(p) \/ CounterAdd(p) \/ UpdateItem(p) \/ DeleteItems(p)
  \/ Miss(p) \/ Fail(p) \/ Cleanup(p)
  \/ \E s \in Scopes : DetachBuffer(p, s)
  \/ WipeSwap(p) \/ RebuildSwap(p)
  \/ \E s \in Scopes : WarmSnapshot(p, s) \/ WarmCommit(p, s) \/ WarmCreate(p, s)
  \/ WarmReserve(p) \/ WarmRefused(p) \/ WarmFinish(p)

\* The first step of a request.
Accept(p) ==
  \/ /\ EventRoom
     /\ \/ Begin(p)
        \/ \E s \in Scopes : DeleteScope(p, s)
        \/ \E ld \in Loads : WarmLock(p, ld)
  \/ WipeLock(p)
  \/ \E ld \in Loads : RebuildLock(p, ld)

Next == \E p \in Procs : Accept(p) \/ Proceed(p)

Spec == Init /\ [][Next]_vars

\* Fairness: the Go scheduler runs every goroutine, and sync.RWMutex lets no
\* waiter starve, so a step that is enabled again and again is taken.
FairSpec == Spec /\ \A p \in Procs : SF_vars(Proceed(p))

----------------------------------------------------------------------------
(* Properties *)

HeapTypeOK ==
  /\ scopes \in [Scopes -> Bufs \cup {NoBuf}]
  /\ items = [b \in Bufs |-> items[b]] /\ \A b \in Bufs : IsItemMap(items[b])
  /\ bytes \in [Bufs -> Int]
  /\ lastSeq \in [Bufs -> 0..MaxSeq]
  /\ detached \in [Bufs -> BOOLEAN]

CounterTypeOK ==
  /\ totalBytes \in Int /\ totalItems \in Int /\ scopeCount \in Int
  /\ eventsDropsTotal \in Nat

\* A goroutine holds a buffer pointer exactly between its lookup and its last
\* use of the buffer.
ProcTypeOK ==
  /\ pc \in [Procs -> Labels]
  /\ req \in [Procs -> Request]
  /\ ref \in [Procs -> Bufs \cup {NoBuf}]
  /\ \A p \in Procs : ref[p] # NoBuf <=> pc[p] \in {"commit", "cleanup"}
  /\ created \in [Procs -> BOOLEAN]
  /\ load \in [Procs -> [Scopes -> Batches \cup {NoBatch}]]

LockTypeOK ==
  /\ holder \in [Shards -> Procs \cup {NoProc}]
  /\ plan \in [Scopes -> Plan]

\* Every variable has the shape the code gives it: the heap, the counters, the
\* goroutines and the locks.
TypeOK == HeapTypeOK /\ CounterTypeOK /\ ProcTypeOK /\ LockTypeOK

\* Bytes a /warm has reserved for a scope it has not replaced yet.
Pending(s) ==
  IF plan[s].phase = "reserved" THEN PlanDelta(load[holder[ShardOf[s]]], s) ELSE 0

ScopeShare(s) ==
  (IF scopes[s] = NoBuf THEN 0 ELSE bytes[scopes[s]] + ScopeBufferOverhead) + Pending(s)

\* The byte counter never drifts: totalBytes (store.go) is exactly the bytes and
\* the overhead of the scopes in the map plus what running /warm batches have
\* reserved ahead, whatever deletes, rollbacks, wipes and stale writers interleave.
BytesAccounted ==
  totalBytes = SumFunctionOnSet([s \in Scopes |-> ScopeShare(s)], Scopes)

\* b.bytes of a reachable buffer is the sum of its items' sizes: no insert,
\* replace, delete or batch replacement charges something else than it stores.
BufferBytesExact ==
  \A s \in Mapped : bytes[scopes[s]] = BytesOf(items[scopes[s]], DOMAIN items[scopes[s]])

\* totalItems (store.go) counts exactly the items of the scopes in the map.
ItemsAccounted ==
  totalItems = SumFunctionOnSet([s \in Scopes |->
                  IF scopes[s] = NoBuf THEN 0 ELSE Cardinality(DOMAIN items[scopes[s]])], Scopes)

\* scopeCount (store.go) counts the scopes in the map; only the scopes a running
\* /warm inserted wait for the Add at its end.
ScopesAccounted ==
  scopeCount = Cardinality({s \in Mapped : ~ plan[s].new})

\* The counters that gate every write are exact in every state: totalBytes,
\* totalItems, scopeCount, and the bytes of each buffer they are made of.
CountersExact == BytesAccounted /\ BufferBytesExact /\ ItemsAccounted /\ ScopesAccounted

\* A goroutine whose pointer still accepts writes writes into the buffer its
\* scope name leads to: no acknowledged write lands in an orphan, and none in a
\* scope that was deleted and created again meanwhile (the detach rule of
\* deleteScope, wipe, rebuildAll and cleanupIfEmptyAndUnused).
NoOrphanWrites ==
  \A p \in Procs : pc[p] \in {"commit", "cleanup"} /\ ~ detached[ref[p]]
                      => scopes[req[p].scope] = ref[p]

\* Two scope names never share a buffer, and a mapped buffer is detached only
\* while the /wipe or /rebuild that detached it holds the shard lock: a lookup
\* that gets the lock never returns a detached buffer.
LookupsAreLive ==
  /\ \A s, t \in Mapped : scopes[s] = scopes[t] => s = t
  /\ \A s \in Mapped : detached[scopes[s]] =>
        ~ ShardFree(s) /\ pc[holder[ShardOf[s]]] \in {"wipe", "rebuild"}

\* The shard locks do what the bulk operations rely on: only a running bulk
\* operation holds one, /wipe and /rebuild hold all of them, /warm those of its
\* scopes; a plan belongs to the /warm that holds its shard, and a scope a plan
\* inserted stays until the plan is done.
LockDiscipline ==
  /\ \A sh \in Shards : holder[sh] # NoProc => pc[holder[sh]] \in {"wipe", "rebuild", "warm"}
  /\ \A p \in Procs : pc[p] \in {"wipe", "rebuild"} => \A sh \in Shards : holder[sh] = p
  /\ \A p \in Procs : pc[p] = "warm" => \A s \in PlanScopes(p) : holder[ShardOf[s]] = p
  /\ \A s \in Scopes : plan[s].phase # "none" =>
        ~ ShardFree(s) /\ pc[holder[ShardOf[s]]] = "warm" /\ s \in PlanScopes(holder[ShardOf[s]])
  /\ \A s \in Scopes : plan[s].new => plan[s].phase = "done" /\ scopes[s] # NoBuf

\* The reserved scopes are there for every lookup, over /wipe and /rebuild too
\* (initReservedScopesLocked runs before the locks are released).
ReservedPresent == \A s \in Reserved : ShardFree(s) => scopes[s] # NoBuf

\* The store never holds more than its cap (store.go: reserveBytes).
WithinCap == totalBytes <= MaxStoreBytes

\* Only the drift compensation of a /warm commit whose scope shrank after its
\* snapshot can carry totalBytes over the cap.
OverCapOnlyByWarmDrift ==
  [][totalBytes' > totalBytes /\ totalBytes' > MaxStoreBytes =>
       \E s \in Mapped : /\ plan[s].phase = "reserved" /\ plan'[s].phase = "done"
                          /\ bytes[scopes[s]] < plan[s].old]_vars

AllIdle == \A p \in Procs : pc[p] = "idle"

\* A failed write leaves no scope behind: once every request has returned, each
\* user scope has had an item (cleanupIfEmptyAndUnused ran or someone used it).
\* For clients that send no empty /warm or /rebuild list.
NoGhostScopes == AllIdle => \A s \in UserScopes \cap Mapped : lastSeq[scopes[s]] > 0

\* Every request returns: nobody waits forever for a shard lock, a bulk
\* operation included.
RequestsReturn == \A p \in Procs : pc[p] # "idle" ~> pc[p] = "idle"

=============================================================================
