# TLA+ specifications of scopecache

scopecache is an in-memory cache: scopes (named lists) of items, each item with
a seq, a uuid, an optional id and a payload or a counter. It is used over HTTP
or through the Go `Gateway`. Many request goroutines share a sharded map, a
buffer per scope with its own lock, store-wide atomic counters, a log of events
in a reserved scope, and one wake-up channel per reserved scope. Two adapters,
a standalone process and a Caddy module, bring the cache up and take it down.

## 1. Inventory

| Part | State | Operations | Hard behaviour | Correct when |
|---|---|---|---|---|
| Scope map (`store.go`) | shard maps and locks, `totalBytes`, `totalItems`, `scopeCount` | lookup, create, roll back, `/delete_scope` | a pointer outlives the lock it was found under; create and rollback race | no write is acknowledged into an unlinked buffer; counters exact |
| Bulk operations (`bulk.go`) | locks held for a whole operation, plans of `/warm` | `/warm`, `/rebuild`, `/wipe` | writers with old pointers go on while the locks are held; snapshot, reserve, commit | all or nothing; counters exact; reserved scopes never missing |
| Shard locks (`store.go`) | one `RWMutex` per shard | one, some or all, for reading or writing | loops over many locks against each other and against event emission | no deadlock, no starvation, as if taken at once |
| Scope buffer (`buffer_*.go`) | slice, three indexes, seq cursor, uuid span, byte sums | append, upsert, update, delete, drain, replace, windows | three indexes alias one item; items change form; sparse rebuild | indexes are exact inverses of the slice; sums exact; pages tile |
| Counters (`buffer_counter.go`) | `cell.value`, `cell.ts`, `b.mu` | `/counter_add`, and everything that strips the cell | lock-free increments under the read lock; a clock that steps back | linearizable; never out of range; the stamp never rewinds |
| Events (`events.go`) | appends into `_events`, `eventsDropsTotal` | emit after commit, in three modes | emitted outside the locks, into a buffer that may be replaced | every write has one fate in the log; the log respects real time; what a drainer makes of it is the scope |
| Freshness (`lastWriteTS`) | CAS-max on the store, a field per buffer | every write | raised under different locks, and for a counter after all of them; a wall clock that steps back | no visible change without a tick, no tick without a change |
| Subscribe and bridge (`subscribe.go`, `subscriber_command.go`, `scripts/drain_events.sh`) | size-1 channel, context, goroutine, the script's batch | subscribe, notify, stop, drain | dropped sends, close against send, a killed command whose request is still served | no wake-up lost, no panic, stop returns, nothing deleted unread |
| Init command (`init_command.go`) | private socket, script, timeout | run, clear `_events` | ends, or is killed, while a request of its own is still served | bridges attach to an empty `_events` |
| Standalone binary (`cmd/scopecache`) | socket file, context, stopper goroutine | boot, serve, signal, shutdown | a signal at any point; crash and restart; two ways out of `Serve` | a signal ends it; no command is left behind |
| Caddy module (`caddymodule`), registry (`gateway_registry.go`) | named slots with the live gateway | Provision, Cleanup, register, deregister | reloads that overlap or are refused | callers reach the instance that serves |
| Handlers, validation, statistics, add-ons | none, or nothing control depends on | decode, encode, wrap | - | - |

The parts meet in four places. A request looks its buffer up under a shard lock
and uses the pointer after releasing it. A commit under `b.mu` moves the
store-wide counters and stamps. A committed write appends an event, and an append
into a reserved scope sends a wake-up, both after every lock is released. The
adapters start the bridges after the init command and stop them before the
gateway goes away. `PROJECT.json` lists the parts with their status, and the
hazards line by line.

## 2. Modules

| Module | Models | State and actions |
|---|---|---|
| `Store` | `store.go`, `bulk.go`, the shared-counter side of `buffer_*.go` | `scopes` are the shard maps, `holder` the shard locks kept over several steps, `items/bytes/lastSeq/detached` the buffers by address, `ref/created` a goroutine's locals. One action per endpoint and critical section: `Begin` is the lookup, `AppendItem`, `UpsertByID`, ... the section under `b.mu`, `Fail` and `Cleanup` the error path, `WipeLock`/`DetachBuffer`/`WipeSwap` and `WarmLock`/`WarmSnapshot`/`WarmReserve`/`WarmCommit`/`WarmFinish` the bulk operations |
| `ShardLocks`, `AtomicShards` | `lockAllShards`, `lockShards`, the single-shard sections, the scans, the emission after them | `section/later` are the critical sections of a request, `got` the shards its loop has locked so far, `writer` the writer that holds a shard or keeps new readers out; `AtomicShards` is the promise: all the locks of a section at one instant |
| `ScopeBuffer` | one buffer under `b.mu` | a heap of items, the slice and the indexes as pointers into it, `capacity` as `cap(b.items)`. One action per method; `SinceSeq` and `TailOffset` are the windows |
| `Counter`, `AtomicCounter` | `buffer_counter.go` at the grain of loads and compare-and-swaps; what a counter promises | `item`, `cells`, the RWMutex with the writer that has announced itself (`waiting`), per goroutine `pc` and locals |
| `Events` | `events.go` and the order of commit and emission in `store.go`, `bulk.go` | `content` is what a scope holds, `log` the `_events` scope, `eventsBuf` its generation, per goroutine the write, what its lookup found or created (`hold`) and the buffer the emission found. `NoEffect` takes a created scope back, without an event. `replica` and `mirror` are two external drainers: one replays events, one reads the scope again at each event |
| `Freshness` | `bumpLastWriteTS`, `lastWriteTS` of the buffers, and every path that raises either | `storeTS`, `scopeTS`, `mu` and `all` the locks held around the compare-and-swap loop, `stamp/cur` a goroutine's locals; `clock` is the wall clock, which `Tick` sets to any value; `ticks` records the changes readers can see, `stray` the scopes that nobody raised the store's stamp for |
| `Subscriber` | `subscribe.go`, `subscriber_command.go`, `drain_events.sh` on one reserved scope | `sub` is the map entry, `slot/closed` the channel, `gpc` the goroutine and, while the command runs, the script; `posted` the requests on their way |
| `Lifecycle` | `init_command.go`, `StartReservedSubscribers`, `main.go`, `module.go`, `gateway_registry.go` | per instance `stage`, the script and the requests it leaves behind, the bridges, the stopper goroutine, the clients' requests; `path` the socket file, `slot` the registry slot, `current/reload` what Caddy serves and loads |
| `MC...` | instances for TLC | values of the constants, symmetry, views |
| `..._proofs` | proofs, one module per component | see section 5 |

Granularity. In `Store` a critical section of `b.mu` or of one shard lock is one
step: inside it there is at most one compare-and-swap on `totalBytes` that can
fail, and the rest is only additions that commute with the other goroutines.
`Store` takes the locks of a bulk operation in one step; that `ShardLocks` implements
`AtomicShards` is the reason why it may. In `Counter` and `Freshness`, where a loop of
load and swap is the point, every atomic operation is a step. A request that is
refused before it changed anything has no step, except where it holds something
at that moment. Payloads, names and error texts are abstracted to ids, sizes and
verdicts; items have a size, and `ScopeBuffer` computes it the way
`approxItemSize` does. `Events` keeps of a scope its items by seq, with id, uuid and
value, and the seq cursor; a write addresses them by id, seq or uuid. `Freshness` has
no `/warm` of its own: per scope it stamps as a write does. `Lifecycle` reduces the
cache to the number of entries in `_events`.

Operators marked "Mutant" in the modules are wrong versions of the definition
that follows them. No specification uses them; they are there to show, by
substitution, that each property notices the bug.

## 3. Runs

| Run | Instance | Shows |
|---|---|---|
| `store_requests` | 2 goroutines, 2 user scopes on 2 shards, every write operation, `/warm`, `/wipe`, events on, near the cap | counters and sums exact in every state, no empty scope after a failed create, only `/warm` drift passes the cap, every request returns |
| `store_bulk` | 3 goroutines, `/wipe`, `/rebuild`, `/warm`, `/delete_scope`, appends, drains | counters exact in every state, no write into an orphan, lookups live, reserved scopes present |
| `shard_locks` | 3 goroutines, 2 shards, a write that emits an event, an all-shard writer, an all-shard reader | no deadlock, everyone returns, refinement of `AtomicShards` |
| `buffer` | up to 3 items, 2 ids, 4 uuids, batches with minted, adopted and no uuids | indexes and uuid span, the windows of `/head` and of `/tail` with `hasMore`, each against a reference by counting, sums, limits, identity |
| `counter` | 3 goroutines, so that two can keep the read lock taken for ever by turns, increments, reads, replacing, deleting, detaching, 2 cells, clocks that step back, counter range -2..2 | refinement of `AtomicCounter`, stamps, range; increments are lock-free; a writer behind a stream of readers and a reader between two writers get their turn |
| `events` | 2 goroutines, 2 scopes, 3 writes by id, seq or uuid, failed creates, a `/wipe`, both drainers, the three modes | the fate of every event, order, what replaying and re-reading reconstruct |
| `freshness` | 3 goroutines, a reserved and a user scope, a clock that goes to and fro between 2 values, 2 buffers per name | the stamp covers every visible change, no tick without a change, the quiesce rule with its exceptions |
| `subscriber` | 2 writers, 2 bridges, a wipe, 2 items, batches of 1, a failing run | no lost wake-up, no panic, nothing deleted unread, stop returns, items are drained |
| `lifecycle` | 2 processes with a client and an init script of 2 requests, or 3 Provisions of the module | no orphan command, callers reach the server, init is cleared however the script ended, a signal ends the process |
| `store_warm_cap`, `subscriber_stop`, `lifecycle_shutdown` | as small as shows it | the violations of section 4 |

Bounds. Three goroutines are enough for the races in the store that matter: a
stale pointer, the operation that makes it stale, and a third party that uses
the gap (the violation in `Store` needs exactly that). Heaps hold one buffer more
than can be referenced at once where the state space allows, caps sit where one
more item fails, `MaxSeq` lets a scope fill, drain and fill again. `MaxSeq`,
`MaxDrops`, `MaxItems` of `Subscriber`, `MaxWipes`, `MaxFailures`, `MaxWrites`, `MaxTime`,
`MaxMade`, `MaxInstances`, `MaxProcesses`, `MaxPosts` and `MaxEvents` are bounds of the
models and not of the program; `Admits` and `EventRoom` refuse new requests at the
bound so that a request under way is never cut off by it. The counter's range is
tiny so that its end is reached after two increments side by side; the run adds
upwards only and puts no text, and the proofs cover both ends and every payload. Two clock values are enough in `Freshness`: a stamp is compared with one
other at a time, and the clock can return to both. In `shard_locks` the three kinds
contain the lock sections of the others (a plain write, `/delete_scope` and `/warm`) as prefixes
or subsets, and the proofs cover every mix. Three instances of the module are a
live one, one that is being retired and one that is being provisioned; two
processes are a crashed or overlapping one and its successor.

Symmetry permutes goroutines, scopes of equal standing and uuids no batch names,
which nothing distinguishes; it is not used with liveness. The views drop what nobody
can read any more (memory without a pointer to it, locals that are written before
they are read again), and the address of the cell that a counter has: no property
and no fairness condition is about addresses.

`CHECK_DEADLOCK FALSE` stands where the system may stop: writers with no more to
append and stopped bridges, a bounded number of writes or clock ticks used up,
all instances gone. `Store`, `ShardLocks`, `Counter` and `ScopeBuffer` are checked for
deadlock.

Fairness. `Store!FairSpec`, `ShardLocks!FairSpec` and `Counter!FairSpec` assume strong
fairness of the steps that wait for a lock: Go's `sync.RWMutex` blocks new readers
once a writer waits, lets the readers that waited in before the next writer, and
hands a mutex to a starving waiter. In `ShardLocks` and `Counter` the announced writer
is part of the state and keeps new readers out; in `Counter` strong fairness is left
for the readers that wait and for the turn among writers, and an announced writer has
weak fairness only, so that no reader starves it is a result and not an
assumption. Steps that wait for nobody get weak fairness, which the scheduler
gives every goroutine. `Subscriber!FairSpec` adds that the command ends and that
posted requests are served. `Lifecycle!FairSpec` assumes neither: a script that
hangs, requests that never end and a silent client are in it; it assumes that a
killed script dies and that the grace period of `Shutdown` ends. No client has to
do anything in any of them.

## 4. Disagreements between code and text

Three runs are expected to find a violation; `PROJECT.json` has the quotations.

- `store_warm_cap`: bytes freed by a delete between the snapshot and the commit
  of a `/warm` can be reserved by another write before the commit adds them back;
  `totalBytes` then exceeds the cap. `OverCapOnlyByWarmDrift` shows that this is the
  only way.
- `lifecycle_shutdown`: `Serve` returns as soon as `Shutdown` has closed the listener,
  and `main` waits for `Serve` only; the process goes away under requests that
  `Shutdown` is still waiting for.
- `subscriber_stop`: the stop function closes whoever is subscribed to the scope when
  it is called. Called a second time, as a signal handler and a deferred backstop do,
  it ends the subscription of a successor, though it is documented as idempotent.

Five more have no run of their own. The model follows the code in each, TLC refutes
the sentence as documented, and the property that is checked and proved is the part
of it that holds: the sentence with exactly that case excepted or, for polling, a
weaker one.

- Size estimate. `/rebuild` (`bulk.go`, lines 308 to 316) never assigns `idKeyBytes`,
  which `buffer_replace.go` (line 41) calls "assigned wholesale at commit time", so the
  size estimate of a rebuilt scope is too small and goes wrong further with each
  delete. `IdKeyDriftOnlyByRebuild` shows that nothing else disturbs it.
- Replay. "Events are replay-able against an empty cache to reconstruct state"
  (`events.go`, line 51), but the event of a `/counter_add` has no uuid (line 173). A
  later write that gives the uuid of the counter is logged with it and replays as a
  miss. `ReplayReconstructs` shows that, among writes that do not overlap, this is the
  only address that fails.
- Polling. The core RFC (`docs/scopecache-core-rfc.md`, lines 305 to 312) takes an equal
  `last_write_ts` for "nothing changed". A write whose stamp is not later than the
  store's (`store.go`, line 181), because another scope had the same microsecond, was
  stamped later and committed first, or the clock was set back, becomes visible without
  a tick. What holds is `VisibleIsTicked`: nothing that can be read is newer than the
  stamp.
- Quiesce. The same RFC (lines 299 to 303) says that at quiesce `last_write_ts` is not
  behind any scope. It is behind a scope whose creator failed after a counter had moved
  in: the scope was born with a stamp, the tick for it would have come with the
  creator's write, and counters make none. It is also behind the scopes that a counter
  or a `/rebuild` stamped at creation, when the clock steps back before the second
  stamp, with which they raise the store's. `QuiesceFresh` shows that these three are
  the only ways.
- Init. "Subscribers attaching after init see an empty stream" (`init_command.go`, line
  19), but `_events` is cleared when the init script itself is gone, before the private
  server is shut down. A request that the script left behind (in the background, past
  its timeout, or on its way when the script was killed) is served after the clear, and
  the bridges find its event. `AttachToEmpty` shows that nothing else is left, however
  the script ended.

Limits of the guarantees, which decide how the properties above are worded:

- The rollback of a failed create (`cleanupIfEmptyAndUnused`) removes a scope that
  is empty, also one that others have used and drained meanwhile; its seqs then
  start over. `IdentityForLife` is about one buffer, not about a scope's name.
- A `/wipe` between the script's `/head` and its `/delete_up_to` restarts the seqs,
  and the posted cursor covers items the script has not read.
  `DeletesOnlyPersisted` is for a scope nobody has wiped.
- "Events are replay-able against an empty cache" (`events.go`) holds only without
  drops and `/warm`, and for scopes that never had two writes, or a write and a
  `/wipe`, under way at once: events are emitted outside the locks.
- A scope that a request created and took back again after it failed is never in an
  event. A drainer that read it meanwhile, on the event of somebody else, goes on
  knowing an empty scope; `RefetchConverges` excepts that, and no item.
- `log.Fatal` on a listen error and a crash skip the deferred stop of the bridges;
  `NoOrphanCommand` excepts them.
- After a refused Caddy reload the slot is nil while the old instance serves, until
  the next reload. Two processes on one socket path remove each other's file.
  `CallersReachTheServer` excepts both; a stale file of a crashed process is
  replaced and is not excepted.

## 5. Proofs

All proofs hold for every value of the constants that satisfies the modules'
assumptions (`StoreConstants`, `ReservedFit`, `HeapRoom`, `ShardConstants`,
`ScopeBufferConstants`, `CounterInputs`, `PtrRoom`, `CounterConstants`,
`FreshnessConstants`, `SubscriberConstants`, `EventsConstants`,
`LifecycleConstants`), for example any number of goroutines, scopes and shards. `PtrRoom`
says that the heap of `ScopeBuffer` has a cell for every seq the model gives out. TLC
confirms every inductive invariant on the instances of the component's runs (`GhostInv`
on `store_requests`, whose batches are not empty).

Sums are defined by recursion over a finite set, and binary search and replaying are
recursive functions. What they compute is proved by induction in a first-order form: the
statement to be proved becomes a set of good values, and a least value outside it
is refuted (`NatSetInduction`, `SubsetInduction`). `Store_proofs` and
`ScopeBuffer_proofs` each begin with the facts about sums they use.

- `Store_proofs` has three parts after the sums. `TypeCorrect` comes first.
  The second part is the detach discipline. `NoOrphanWrites` is not
  inductive: to know that the buffer a lookup returns is attached one needs
  `LookupsAreLive`, which holds because whoever detaches a mapped buffer still
  holds its shard lock, which is `LockDiscipline`; and the swap needs that inputs
  name user scopes only. `LockInv` is the conjunction of these with `TypeOK`.
  It yields `WritesReachTheirScope`, `LookupsReturnLiveBuffers`,
  `LocksAreDisciplined` and `ReservedScopesSurvive`.
  The third part is the accounting. `CountersAreExact` says that `totalBytes`,
  `totalItems` and `scopeCount` equal the sums over what is there plus what a bulk
  operation has reserved, in every state. A critical section moves one buffer and
  the counters by the same amount; a `/wipe` or `/rebuild` replaces all the terms at
  once. `CountInv` adds what the steps of `/warm` rely on: a scope that was missing
  at the snapshot is charged in full (`OldOfAbsent`; the locks held keep it
  missing), seqs are issued in order, so an append adds a new item (`SeqsIssued`),
  and a `/rebuild` was found to fit before it took the locks (`LoadFits`).
  `CapPassedOnlyByDrift` follows from one step of the same invariant. `GhostInv` says
  that an empty scope has a creator who is still under way and will clean up; it gives
  `NoGhostScopeIsLeft`, under `NoEmptyBatch`: a `/warm` with an empty list does
  make an empty scope.
- `ShardLocks_proofs` proves that nobody deadlocks (`NobodyDeadlocks`): if all
  goroutines wait, nobody can have the highest shard that one of them waits for,
  as its holder would be waiting for a higher one; so that shard is free for its
  announced writer or for whoever asks. That needs `Stages` (what a loop has is
  below what it wants), `WriterWants` (the writer of a shard has it or waits for
  it) and `WritersAlone`; with
  `TypeOK` they are `ShardInv`. `LocksAreAtomic` maps the moment at which the last lock
  is taken to the one step of `AtomicShards`.
- `ScopeBuffer_proofs` proves everything the `buffer` run checks. `IndexesExact` is
  nearly inductive, but says too little of one thing: a delete or an update by id
  or uuid goes through an index to the item, from its seq by binary search to its
  place in the slice, and from there back to the item it overwrites or removes. That
  this is the same item needs the order of the slice (`Ordered`), the indexes as exact
  inverses (`Indexed`, `KeysDistinct`), and `SearchSpec`: on a predicate that is false up
  to a point and true from there on, the search returns that point. A new item keeps the
  order because no item is ahead of the cursor (`SeqsIssued`). With the uuid span these
  are `BufInv`. `LimitInv` is needed for the sums: every item is a payload or a
  counter, so its size is a natural number and a delete never takes the sum above the
  budget. `Accounted` says that `bytes` is the sum and within the budget.
  `Inv` joins the three. It gives `IndexesAlwaysExact`, `BytesAlwaysExact`,
  `ItemsAlwaysWithinLimits` and `WindowsAlwaysExact`: a page of `/head` depends on the order
  of the slice only, through `SearchSpec`, and one of `/tail` on its length; each is compared with
  a window defined by counting, `hasMore` included. `PointOutcome` says what any point write or
  delete comes to, which includes `IdentityIsForLife` and, with the case of a `/warm`,
  `DriftOnlyByRebuild`.
- `Counter_proofs` proves that `Counter` implements `AtomicCounter`
  (`CounterIsAtomic`). An increment takes effect at its successful swap, everything
  else at its critical section. The mapping is correct because a goroutine on a
  cell holds the lock that keeps the cell in the item (`CellsStayInstalled`) and
  because the sum was checked for the very value the swap compares with
  (`Places`). `CInv` adds the exclusion of readers and writer. The range
  (`CountersStayInRange`) and the stamps (`StampsSurvive`, `StampsNeverRewind`)
  come from the same invariant.
- `Freshness_proofs` proves `ChangesAreCovered`, `TicksAreChanges` and
  `StampNeverRewinds`. A change becomes visible when the loop is over; that the stamp
  then covers it needs that a swap only raises (`SwapsRaise`: a goroutine at its
  swap has loaded less than its own stamp). `StampIsAChange` follows a goroutine
  from its swap to the release of its lock. `FreshInv` joins them. `FreshAtQuiesce` is about
  the scopes' stamps: `QuiesceInv` says that a scope's stamp is covered by the store's
  unless somebody still owes the tick, which is the creator of its buffer or a bulk
  operation that holds all the locks; at quiesce nobody does. The clock is free: a
  stamp is a natural number and no order between stamps and the clock is assumed. What a creator
  owes it can pay if it is a write, which puts its own stamp on the scope, or if the
  clock has not stepped back since the creation (`Settles`); the other cases are the
  exceptions of section 4.
- `Subscriber_proofs` proves that no wake-up is lost (`NoWakeupIsLost`), that the
  drain misses nothing (`DrainMissesNothing`) and that nobody sends on a closed
  channel (`NobodyPanics`). The two wake-up invariants are proved together: what a
  failing run leaves is covered because every item it did not begin with has its
  own wake-up. `SubInv` adds that a writer about to send still has the current
  subscriber, which the read lock gives.
  `NothingIsDeletedUnwritten` needs `DrainInv`: as long as nobody has wiped the
  scope, the batch of a run is a prefix of what the scope held, so that
  the cursor, its largest seq, covers nothing else; a request on its way, also that of
  a killed command, was posted after its batch was written; and new items have
  larger seqs.
- `Lifecycle_proofs` proves `NoCommandIsOrphaned`, `ServerIsReached` and
  `BridgesAttachToEmpty` from `LifeInv`: what each stage implies for each adapter
  (`AdapterFits`, `ServerFits`), that Caddy runs one reload at a time and instances
  come in order (`OneReload`, `InOrder`), what the registry slot and the socket path may point
  to (`SlotFits`, `PathFits`), and that after the clear `_events` stays empty until a
  request of the script is served (`InitFits`).
- `Events_proofs` follows the number of each write. `EventInv` says that a number is in exactly
  one place (`RequestsDiffer`, `EntriesDiffer`, `FatesDiffer`, `FatesKnown`, `DropsCounted`),
  and that what a write has seen answered is no longer on its way (`AfterAnswered`).
  `MirrorInv` adds that a scope with neither an event nor a write under way is as the
  second drainer last read it (`MirrorFits`; or the drainer knows it as an empty scope
  that has been taken back). It gives
  `EveryEventIsAccounted`, `LogKeepsRealTime` and, with `MirrorInv`, `RefetchingConverges`.
  `ReplayGivesTheScope` needs `ReplayInv`: in a scope that never raced one write is under way at
  most (`OneAtATime`), and replaying the log gives the scope as it is, nothing while
  its creation is under way, or, while an event is on its way, what that event then
  turns into the scope (`ReplayFits`). The comparison is up to the uuids that no event has told
  (`Told`): an event that addresses by id, seq or a told uuid does to the copy what the write
  did to the scope (`EventDoesTheSame`). An append adds one turn to the replay
  (`ReplayAppended`), a drain moves its first turn into the copy (`ReplayDrained`).

Every safety invariant and action property of the runs that pass, and both
refinements, are proved. Only model-checked: liveness (`RequestsReturn`, `EveryoneReturns`,
`CallsReturn`, `StopReturns`, `ItemsDrained`, `SignalEndsProcess`), which is outside the
prover's reach, as is `ENABLED`.

## 6. Not modelled

- The HTTP handlers, JSON and the text form of uuids: stateless conversion around
  the operations of the store. The character rules of names.
- Read heat and statistics: nothing depends on them (`idKeyBytes`, which feeds the
  size estimate, is in `ScopeBuffer`).
- Parsing of the environment, the Caddyfile and the flags.
- The add-ons, except how the FrankenPHP extension loads its gateway: stateless
  wrappers over the public API.
- `ensureScope`, `getOrCreateScope`, `replaceAll` and `commitReplacement`: no callers
  outside tests.
- Drainers other than the reference script and the two in `Events`, which are taken to
  notice a `/wipe` and start over: the ABA of a cursor over a wiped
  `_events` that `events.go` warns of, and replaying a counter at the ends of its range,
  are theirs.

## 7. What is left

No safety property that a passing run checks is left unproved. The parts that are not
modelled are in section 6; of those, the statistics would be the next to add.
