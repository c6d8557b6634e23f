\* The cap is not strict while /warm runs.
SPECIFICATION Spec
CONSTANTS
  Procs = {p1, p2, p3}
  NoProc = NoProc
  ev = ev
  s1 = s1
  s2 = s2
  Scopes = {ev, s1, s2}
  Reserved = {ev}
  EventsScope = ev
  Shards = {1, 2}
  ShardOf <- MCShardOf
  Bufs = {b1, b2, b3, b4, b5}
  NoBuf = NoBuf
  Ids = {}
  NoId = NoId
  Sizes = {1}
  CounterSize = 2
  EventSize = 1
  Batches <- MCBatchesEmpty
  NoBatch = NoBatch
  ScopeBufferOverhead = 2
  MaxStoreBytes = 8
  DefaultMaxItems = 2
  ItemCap <- MCItemCap
  EventsOn = FALSE
  Ops = {"append", "delete_up_to", "warm"}
  MaxSeq = 2
  MaxDrops = 1
SYMMETRY Symmetry
VIEW View
INVARIANTS
  WithinCap
