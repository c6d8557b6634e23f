\* Every method of a scope buffer, counters and batches included.
SPECIFICATION Spec
CONSTANTS
  a = a
  b = b
  num = num
  big = big
  txt = txt
  u1 = u1
  u2 = u2
  Ids = {a, b}
  NoId = NoId
  IdLen <- MCIdLen
  UUIDs = {u1, u2, u3, u4}
  NoUUID = NoUUID
  Payloads = {num, big, txt}
  NoPayload = NoPayload
  PayloadLen <- MCPayloadLen
  Number <- MCNumber
  NotANumber = NotANumber
  NoCell = NoCell
  ItemBase = 1
  CounterCellOverhead = 2
  MaxCounterValue = 2
  Increments <- MCIncrements
  MaxItems = 3
  MaxItemBytes = 5
  Budget = 9
  ShrinkMinCap = 1
  ShrinkSparseRatio = 2
  Batches <- MCBatches
  Ops = {"append", "upsert", "update", "counter_add", "delete", "delete_up_to", "warm", "rebuild"}
  Ptrs = {1, 2, 3, 4}
  MaxSeq = 3
VIEW View
SYMMETRY Symmetry
INVARIANTS IndexesExact WindowsExact BytesExact ItemsWithinLimits
PROPERTIES IdentityForLife IdKeyDriftOnlyByRebuild
