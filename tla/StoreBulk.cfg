\* Three goroutines mixing appends, deletes, /delete_scope, /wipe, /rebuild and /warm on one user scope.
SPECIFICATION Spec
CONSTANTS
  Procs = {p1, p2, p3}
  NoProc = NoProc
  ev = ev
  s1 = s1
  s2 = s2
  Scopes = {ev, s1}
  Reserved = {ev}
  EventsScope = ev
  Shards = {1, 2}
  ShardOf <- MCShardOf1
  Bufs = {b1, b2, b3, b4, b5, b6}
  NoBuf = NoBuf
  Ids = {}
  NoId = NoId
  Sizes = {1, 2}
  CounterSize = 2
  EventSize = 1
  Batches <- MCBatchesEmpty
  NoBatch = NoBatch
  ScopeBufferOverhead = 2
  MaxStoreBytes = 7
  DefaultMaxItems = 2
  ItemCap <- MCItemCap1
  EventsOn = FALSE
  Ops = {"append", "delete_up_to", "delete_scope", "wipe", "rebuild", "warm"}
  MaxSeq = 3
  MaxDrops = 1
SYMMETRY Symmetry
VIEW View
INVARIANTS CountersExact NoOrphanWrites LookupsAreLive ReservedPresent
