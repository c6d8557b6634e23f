\* Two goroutines, every write beside a drifting /warm and a /wipe over two scopes, near the cap, events on.
SPECIFICATION FairSpec
CONSTANTS
  Procs = {p1, p2}
  NoProc = NoProc
  ev = ev
  s1 = s1
  s2 = s2
  Scopes = {ev, s1, s2}
  Reserved = {ev}
  EventsScope = ev
  Shards = {1, 2}
  ShardOf <- MCShardOf
  Bufs = {b1, b2, b3, b4, b5, b6}
  NoBuf = NoBuf
  Ids = {x}
  NoId = NoId
  Sizes = {1}
  CounterSize = 2
  EventSize = 2
  Batches <- MCBatches
  NoBatch = NoBatch
  ScopeBufferOverhead = 2
  MaxStoreBytes = 8
  DefaultMaxItems = 2
  ItemCap <- MCItemCap
  EventsOn = TRUE
  Ops = {"append", "upsert", "counter_add", "update", "delete", "delete_up_to", "delete_scope", "warm", "wipe"}
  MaxSeq = 3
  MaxDrops = 2
VIEW View
INVARIANTS CountersExact NoGhostScopes
PROPERTIES OverCapOnlyByWarmDrift RequestsReturn
