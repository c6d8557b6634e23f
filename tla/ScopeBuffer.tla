---------------------------- MODULE ScopeBuffer ----------------------------
(***************************************************************************)
(* One scopeBuffer as its methods see it under b.mu: the item slice, the   *)
(* three indexes that alias its items, the seq cursor, the uuid span and   *)
(* the two running sums (buffer_write.go, buffer_counter.go,               *)
(* buffer_delete.go, buffer_replace.go, buffer_read.go, and the buffer     *)
(* that rebuildAll fills).                                                 *)
(*                                                                         *)
(* A method call is one step: every writer holds b.mu exclusively (the     *)
(* lock-free increment of counters is Counter's subject, the detach flag   *)
(* and the store-wide counters are Store's).  A call that is refused       *)
(* leaves the buffer as it was and has no step.                            *)
(***************************************************************************)
EXTENDS Integers, FiniteSets, Sequences, SequencesExt, Functions

CONSTANTS
  Ids, NoId,          \* item ids; NoId is the empty one
  IdLen,              \* [Ids -> Nat]: len(item.ID)
  UUIDs, NoUUID,      \* uuids; NoUUID is the zero value
  Payloads, NoPayload,
  PayloadLen,         \* [Payloads -> Nat]: len(Payload) + len(renderBytes)
  Number,             \* [Payloads -> Int or NotANumber]: json.Number.Int64
  NotANumber,
  NoCell,             \* item.counter = nil
  ItemBase,           \* the fixed part of approxItemSize, scope and uuid included
  CounterCellOverhead,
  MaxCounterValue,
  Increments,         \* values of "by"
  MaxItems,           \* b.maxItems; 0 is unbounded
  MaxItemBytes,       \* b.maxItemBytes
  Budget,             \* what the store-wide cap leaves to this scope
  ShrinkMinCap, ShrinkSparseRatio,
  Batches,            \* item lists of /warm and /rebuild: sequences of BatchItem
  Ops,                \* the methods clients reach
  Ptrs,               \* addresses of *Item
  MaxSeq              \* bound of the model on lastSeq

VARIABLES
  heap,        \* [Ptrs -> Item]: what a *Item points to
  items,       \* b.items, a sequence of Ptrs
  byID, bySeq, byUUID,       \* partial functions to Ptrs
  lastSeq, firstUUID, lastUUID,
  bytes, idKeyBytes,
  capacity     \* cap(b.items)

vars == <<heap, items, byID, bySeq, byUUID, lastSeq, firstUUID, lastUUID, bytes, idKeyBytes, capacity>>

Item == [id : Ids \cup {NoId}, uuid : UUIDs, seq : 1..MaxSeq,
         payload : Payloads \cup {NoPayload}, counter : Int \cup {NoCell}]

BatchItem == [id : Ids \cup {NoId}, uuid : UUIDs \cup {NoUUID}, payload : Payloads]

ASSUME ScopeBufferConstants ==
  /\ NoId \notin Ids /\ NoUUID \notin UUIDs /\ NoPayload \notin Payloads /\ UUIDs # {}
  /\ IdLen \in [Ids -> Nat] /\ PayloadLen \in [Payloads -> Nat]
  /\ ItemBase \in Nat /\ CounterCellOverhead \in Nat
  /\ MaxCounterValue \in Nat /\ MaxItems \in Nat /\ MaxItemBytes \in Nat /\ Budget \in Nat
  /\ ShrinkMinCap \in Nat /\ ShrinkSparseRatio \in Nat \ {0} /\ MaxSeq \in Nat \ {0}
  /\ \A bt \in Batches : bt \in Seq(BatchItem) /\ Len(bt) <= MaxSeq

\* What /counter_add accepts (validation.go) and what a payload can be read as.
ASSUME CounterInputs ==
  /\ NoCell \notin Int /\ NotANumber \notin Int
  /\ Number \in [Payloads -> Int \cup {NotANumber}]
  /\ Increments \subseteq -MaxCounterValue..MaxCounterValue

\* There is memory for as many items as the model gives out seqs.
ASSUME PtrRoom == IsFiniteSet(Ptrs) /\ MaxSeq <= Cardinality(Ptrs)

----------------------------------------------------------------------------
(* Helpers *)

EmptyIndex == [k \in {} |-> NoId]

IdBytes(id) == IF id = NoId THEN 0 ELSE IdLen[id]

\* payloadAndRenderBytes: a counter is charged a fixed amount instead of its payload.
ContentBytes(payload, counter) ==
  IF counter # NoCell THEN CounterCellOverhead ELSE PayloadLen[payload]

\* approxItemSize.
ApproxItemSize(it) == ItemBase + IdBytes(it.id) + ContentBytes(it.payload, it.counter)

ItemAt(i) == heap[items[i]]

SeqAt(i) == ItemAt(i).seq

\* sort.Search (external): the binary search for the least index in lo..hi at
\* which the test, one Boolean per index, holds; hi if there is none.
Search(test) ==
  LET n == Len(test)
      f[w \in [lo : 1..(n + 1), hi : 1..(n + 1)]] ==
        LET mid == (w.lo + w.hi) \div 2
        IN  IF w.lo >= w.hi THEN w.lo
            ELSE IF test[mid] THEN f[[lo |-> w.lo, hi |-> mid]] ELSE f[[lo |-> mid + 1, hi |-> w.hi]]
  IN  f[[lo |-> 1, hi |-> n + 1]]

\* indexBySeqLocked; 0 stands for "not found".
IndexBySeq(n) ==
  LET i == Search([k \in DOMAIN items |-> SeqAt(k) >= n])
  IN  IF i > Len(items) THEN 0 ELSE IF SeqAt(i) # n THEN 0 ELSE i

\* The cut of deleteUpToSeqLocked and sinceSeq: the first item with a seq > n.
FirstAfter(n) == Search([k \in DOMAIN items |-> SeqAt(k) > n])

NewPtr == CHOOSE p \in Ptrs : p \notin Range(items)

\* newUUIDv7: a value no live item and no end of the span has.  (The code's
\* values are unique; the model reuses those of dead items to stay finite.)
FreshUUIDs == UUIDs \ (DOMAIN byUUID \cup {firstUUID, lastUUID})

Reserves(delta) == delta <= 0 \/ bytes + delta <= Budget

ItemCapExceeded(proposed) == MaxItems > 0 /\ proposed > MaxItems

\* append (external): Go doubles a full backing array.
Grown == IF Len(items) < capacity THEN capacity ELSE IF capacity = 0 THEN 1 ELSE 2 * capacity

----------------------------------------------------------------------------
(* Inserts and replacements *)

NewLast(u) == u

\* What insertNewItemLocked and the create branch of counterAddSlow share.
Insert(id, payload, counter, u) ==
  LET p  == NewPtr
      it == [id |-> id, uuid |-> u, seq |-> lastSeq + 1, payload |-> payload, counter |-> counter]
      size == ApproxItemSize(it)
  IN  /\ lastSeq < MaxSeq
      /\ ~ ItemCapExceeded(Len(items) + 1)
      /\ Reserves(size)
      /\ heap'   = [heap EXCEPT ![p] = it]
      /\ items'  = Append(items, p)
      /\ bySeq'  = [n \in DOMAIN bySeq \cup {it.seq} |-> IF n = it.seq THEN p ELSE bySeq[n]]
      /\ byID'   = IF id = NoId THEN byID
                   ELSE [k \in DOMAIN byID \cup {id} |-> IF k = id THEN p ELSE byID[k]]
      /\ byUUID' = [k \in DOMAIN byUUID \cup {u} |-> IF k = u THEN p ELSE byUUID[k]]
      /\ lastSeq'    = it.seq
      /\ firstUUID'  = IF firstUUID = NoUUID THEN u ELSE firstUUID
      /\ lastUUID'   = NewLast(u)
      /\ bytes'      = bytes + size
      /\ idKeyBytes' = idKeyBytes + IdBytes(id)
      /\ capacity'   = Grown

\* Mutant: a replaced item takes the uuid minted for it.
FreshIdentity(it) ==
  IF FreshUUIDs = {} THEN it ELSE [it EXCEPT !.uuid = CHOOSE u \in FreshUUIDs : TRUE]

\* Scope, id, uuid and seq of a replaced item stay.
Identity(it) == it

\* Mutant: the old item is charged its payload, even if it is a counter.
PayloadDelta(old, payload, counter) ==
  ContentBytes(payload, counter) - (IF old.payload = NoPayload THEN 0 ELSE PayloadLen[old.payload])

ContentDelta(old, payload, counter) ==
  ContentBytes(payload, counter) - ContentBytes(old.payload, old.counter)

\* reservePayloadDeltaLocked and replaceItemAtIndexLocked: the item found through
\* an index is located in the slice by its seq and overwritten in place.
ReplaceItem(ptr, payload, counter) ==
  LET old   == heap[ptr]
      delta == ContentDelta(old, payload, counter)
      at    == items[IndexBySeq(old.seq)]
  IN  /\ Reserves(delta)
      /\ heap'  = [heap EXCEPT ![at] = [Identity(heap[at]) EXCEPT !.payload = payload, !.counter = counter]]
      /\ bytes' = bytes + delta
      /\ UNCHANGED <<items, byID, bySeq, byUUID, lastSeq, firstUUID, lastUUID, idKeyBytes, capacity>>

\* validateWriteItem and validateUpsertItem measure the item they are sent.
Measures(id, payload) == ItemBase + IdBytes(id) + PayloadLen[payload] <= MaxItemBytes

InsertNewItemLocked(id, payload) ==
  /\ Measures(id, payload)
  /\ \E u \in FreshUUIDs : Insert(id, payload, NoCell, u)

AppendItem(id, payload) ==
  /\ "append" \in Ops
  /\ id \notin DOMAIN byID
  /\ InsertNewItemLocked(id, payload)

UpsertByID(id, payload) ==
  /\ "upsert" \in Ops /\ id # NoId
  /\ Measures(id, payload)
  /\ IF id \in DOMAIN byID
     THEN ReplaceItem(byID[id], payload, NoCell)
     ELSE InsertNewItemLocked(id, payload)

UpdateByID(id, payload) ==
  /\ "update" \in Ops /\ id \in DOMAIN byID
  /\ Measures(id, payload)
  /\ ReplaceItem(byID[id], payload, NoCell)

\* Mutant: the request, which names no id, is all that is measured.
RequestOnly(id, payload) == Measures(NoId, payload)

\* The re-check of updateBySeq and updateByUUID on the item as it will be stored.
FitsStored(id, payload) == Measures(id, payload)

UpdateBySeq(n, payload) ==
  /\ "update" \in Ops /\ n \in DOMAIN bySeq
  /\ FitsStored(heap[bySeq[n]].id, payload)
  /\ ReplaceItem(bySeq[n], payload, NoCell)

UpdateByUUID(u, payload) ==
  /\ "update" \in Ops /\ u \in DOMAIN byUUID
  /\ FitsStored(heap[byUUID[u]].id, payload)
  /\ ReplaceItem(byUUID[u], payload, NoCell)

SumInRange(v, by) == v + by \in -MaxCounterValue..MaxCounterValue

\* counterAdd on an item that has a cell.
CounterIncrement(id, by) ==
  LET p == byID[id]
  IN  /\ heap[p].counter # NoCell
      /\ SumInRange(heap[p].counter, by)
      /\ heap' = [heap EXCEPT ![p].counter = @ + by]
      /\ UNCHANGED <<items, byID, bySeq, byUUID, lastSeq, firstUUID, lastUUID, bytes, idKeyBytes, capacity>>

\* parseCounterValue.
IsCounterPayload(payload) ==
  Number[payload] # NotANumber /\ Number[payload] \in -MaxCounterValue..MaxCounterValue

\* counterAddSlow on an item without a cell: the cell takes over from the payload.
CounterPromote(id, by) ==
  LET it == heap[byID[id]]
  IN  /\ it.counter = NoCell
      /\ IsCounterPayload(it.payload)
      /\ SumInRange(Number[it.payload], by)
      /\ ReplaceItem(byID[id], NoPayload, Number[it.payload] + by)

\* counterAdd; validateCounterAddRequest measures a counter item up front.
CounterAdd(id, by) ==
  /\ "counter_add" \in Ops /\ id # NoId /\ by # 0
  /\ ItemBase + IdBytes(id) + CounterCellOverhead <= MaxItemBytes
  /\ IF id \in DOMAIN byID
     THEN CounterIncrement(id, by) \/ CounterPromote(id, by)
     ELSE \E u \in FreshUUIDs : Insert(id, NoPayload, by, u)

----------------------------------------------------------------------------
(* Deletes *)

UUIDIndex(s) == [u \in {heap[p].uuid : p \in Range(s)} |-> CHOOSE p \in Range(s) : heap[p].uuid = u]

SeqIndex(s) == [n \in {heap[p].seq : p \in Range(s)} |-> CHOOSE p \in Range(s) : heap[p].seq = n]

IdIndex(s) ==
  [k \in {heap[p].id : p \in Range(s)} \ {NoId} |-> CHOOSE p \in Range(s) : heap[p].id = k]

\* Mutant: a delete path without the uuid index.
UnindexButUUID(S) ==
  /\ bySeq'  = Restrict(bySeq, DOMAIN bySeq \ {heap[p].seq : p \in S})
  /\ byID'   = Restrict(byID, DOMAIN byID \ {heap[p].id : p \in S})
  /\ UNCHANGED byUUID

\* What is left of the indexes when the items of S are deleted from them.
Unindex(S) ==
  /\ bySeq'  = Restrict(bySeq, DOMAIN bySeq \ {heap[p].seq : p \in S})
  /\ byID'   = Restrict(byID, DOMAIN byID \ {heap[p].id : p \in S})
  /\ byUUID' = Restrict(byUUID, DOMAIN byUUID \ {heap[p].uuid : p \in S})

\* resetIfEmptyLocked when the slice is empty.
ResetIfEmptyLocked ==
  bySeq' = EmptyIndex /\ byID' = EmptyIndex /\ byUUID' = EmptyIndex /\ idKeyBytes' = 0

\* shrinkIfSparseLocked when the slice is sparse: the indexes are built anew.
Sparse(len) == capacity > ShrinkMinCap /\ len * ShrinkSparseRatio < capacity

SizesOf(S) == SumFunctionOnSet([p \in S |-> ApproxItemSize(heap[p])], S)

IdBytesOf(S) == SumFunctionOnSet([p \in S |-> IdBytes(heap[p].id)], S)

\* deleteIndexLocked.
DeleteIndexLocked(i) ==
  LET gone == {items[i]}
      rest == RemoveAt(items, i)
  IN  /\ items' = rest
      /\ bytes' = bytes - SizesOf(gone)
      /\ \/ /\ rest = <<>>
            /\ ResetIfEmptyLocked
            /\ capacity' = 0
         \/ /\ rest # <<>> /\ ~ Sparse(Len(rest))
            /\ Unindex(gone)
            /\ idKeyBytes' = idKeyBytes - IdBytes(ItemAt(i).id)
            /\ UNCHANGED capacity
         \/ /\ rest # <<>> /\ Sparse(Len(rest))
            /\ bySeq' = SeqIndex(rest) /\ byID' = IdIndex(rest) /\ byUUID' = UUIDIndex(rest)
            /\ idKeyBytes' = idKeyBytes - IdBytes(ItemAt(i).id)
            /\ capacity' = Len(rest)
      /\ UNCHANGED <<heap, lastSeq, firstUUID, lastUUID>>

DeleteByID(id) ==
  /\ "delete" \in Ops /\ id \in DOMAIN byID
  /\ DeleteIndexLocked(IndexBySeq(heap[byID[id]].seq))

DeleteBySeq(n) ==
  /\ "delete" \in Ops /\ n \in DOMAIN bySeq
  /\ DeleteIndexLocked(IndexBySeq(n))

DeleteByUUID(u) ==
  /\ "delete" \in Ops /\ u \in DOMAIN byUUID
  /\ DeleteIndexLocked(IndexBySeq(heap[byUUID[u]].seq))

\* The items a drain up to seq n keeps.
Kept(n) == SubSeq(items, FirstAfter(n), Len(items))

\* deleteUpToSeqLocked: the kept suffix moves to a backing array of its own size.
DeleteUpToSeqLocked(n) ==
  LET idx  == FirstAfter(n)
      gone == {items[i] : i \in 1..(idx - 1)}
      rest == Kept(n)
  IN  /\ idx > 1
      /\ items' = rest
      /\ bytes' = bytes - SizesOf(gone)
      /\ IF rest = <<>> THEN ResetIfEmptyLocked
         ELSE Unindex(gone) /\ idKeyBytes' = idKeyBytes - IdBytesOf(gone)
      /\ capacity' = Len(rest)
      /\ UNCHANGED <<heap, lastSeq, firstUUID, lastUUID>>

DeleteUpToSeq(n) == "delete_up_to" \in Ops /\ DeleteUpToSeqLocked(n)

DeleteUpToUUID(u) ==
  /\ "delete_up_to" \in Ops /\ u \in DOMAIN byUUID
  /\ DeleteUpToSeqLocked(heap[byUUID[u]].seq)

----------------------------------------------------------------------------
(* Replacing the whole scope *)

\* buildReplacementState: seqs from 1, uuids adopted or minted (us), no
\* duplicate id, no duplicate uuid.
BuildReplacementState(bt, us) ==
  LET ptrs == SetToSeq(Ptrs)
      its  == [i \in DOMAIN bt |-> [id |-> bt[i].id, uuid |-> us[i], seq |-> i,
                                    payload |-> bt[i].payload, counter |-> NoCell]]
      at(i) == ptrs[i]
  IN  /\ \A i \in DOMAIN bt : us[i] = bt[i].uuid \/ (bt[i].uuid = NoUUID /\ us[i] \in FreshUUIDs)
      /\ \A i, j \in DOMAIN bt : i # j => us[i] # us[j] /\ (bt[i].id # NoId => bt[i].id # bt[j].id)
      /\ ~ ItemCapExceeded(Len(bt))
      /\ \A i \in DOMAIN bt : Measures(bt[i].id, bt[i].payload)
      /\ heap'  = [p \in Ptrs |-> IF \E i \in DOMAIN bt : at(i) = p
                                  THEN its[CHOOSE i \in DOMAIN bt : at(i) = p] ELSE heap[p]]
      /\ items' = [i \in DOMAIN bt |-> at(i)]
      /\ bySeq' = [n \in DOMAIN bt |-> at(n)]
      /\ byID'  = [k \in {bt[i].id : i \in DOMAIN bt} \ {NoId} |-> at(CHOOSE i \in DOMAIN bt : bt[i].id = k)]
      /\ byUUID' = [u \in Range(us) |-> at(CHOOSE i \in DOMAIN bt : us[i] = u)]
      /\ lastSeq'   = Len(bt)
      /\ firstUUID' = IF bt = <<>> THEN NoUUID ELSE us[1]
      /\ lastUUID'  = IF bt = <<>> THEN NoUUID ELSE us[Len(bt)]
      /\ bytes'     = SumFunction([i \in DOMAIN bt |-> ApproxItemSize(its[i])])
      /\ capacity'  = Len(bt)

\* Mutant: the replacement is committed without the sum of its ids.
NoIdBytes(bt) == 0

BatchIdBytes(bt) == SumFunction([i \in DOMAIN bt |-> IdBytes(bt[i].id)])

\* commitReplacementPreReserved, the commit of /warm.
CommitReplacement(bt, us) ==
  /\ "warm" \in Ops
  /\ BuildReplacementState(bt, us)
  /\ Reserves(bytes' - bytes)
  /\ idKeyBytes' = BatchIdBytes(bt)

\* The buffer rebuildAll fills for a scope of its input: every field but
\* idKeyBytes is assigned, which stays what newscopeBuffer made it.
RebuildInto(bt, us) ==
  /\ "rebuild" \in Ops
  /\ BuildReplacementState(bt, us)
  /\ bytes' <= Budget
  /\ idKeyBytes' = 0

----------------------------------------------------------------------------
(* Reads: the windows of /head and /tail, as <<items, hasMore>> *)

\* sinceSeq.
SinceSeq(after, limit) ==
  LET idx == FirstAfter(after)
      available == Len(items) - idx + 1
      take == IF available > limit THEN limit ELSE available
  IN  IF limit <= 0 \/ idx > Len(items) THEN <<<<>>, FALSE>>
      ELSE <<SubSeq(items, idx, idx + take - 1), available > limit>>

\* Mutant: hasMore at the boundary, where the page starts with the oldest item.
OlderOrNone(start) == start >= 0

\* hasMore of tailOffset: the window, not yet clipped, leaves older items out.
OlderLeft(start) == start > 0

\* tailOffset, with the half-open bounds of the code.
TailOffset(limit, offset) ==
  LET end   == Len(items) - offset
      start == end - limit
      from  == IF start < 0 THEN 0 ELSE start
  IN  IF limit <= 0 \/ offset < 0 \/ offset >= Len(items) \/ from >= end THEN <<<<>>, FALSE>>
      ELSE <<SubSeq(items, from + 1, end), OlderLeft(start)>>

----------------------------------------------------------------------------
(* Specification *)

AnyItem == [id |-> NoId, uuid |-> CHOOSE u \in UUIDs : TRUE, seq |-> 1,
            payload |-> NoPayload, counter |-> NoCell]

\* newscopeBuffer.
Init ==
  /\ heap = [p \in Ptrs |-> AnyItem]
  /\ items = <<>> /\ byID = EmptyIndex /\ bySeq = EmptyIndex /\ byUUID = EmptyIndex
  /\ lastSeq = 0 /\ firstUUID = NoUUID /\ lastUUID = NoUUID
  /\ bytes = 0 /\ idKeyBytes = 0 /\ capacity = 0

\* The methods that touch one item, or the oldest ones.
PointStep ==
  \/ \E id \in Ids \cup {NoId}, payload \in Payloads :
       AppendItem(id, payload) \/ UpsertByID(id, payload) \/ UpdateByID(id, payload)
  \/ \E n \in 1..MaxSeq, payload \in Payloads : UpdateBySeq(n, payload)
  \/ \E u \in UUIDs, payload \in Payloads : UpdateByUUID(u, payload)
  \/ \E id \in Ids, by \in Increments : CounterAdd(id, by)
  \/ \E id \in Ids : DeleteByID(id)
  \/ \E n \in 1..MaxSeq : DeleteBySeq(n) \/ DeleteUpToSeq(n)
  \/ \E u \in UUIDs : DeleteByUUID(u) \/ DeleteUpToUUID(u)

\* The methods that replace every item.
ReplaceStep ==
  \E bt \in Batches : \E us \in [DOMAIN bt -> UUIDs] :
    CommitReplacement(bt, us) \/ RebuildInto(bt, us)

Next == PointStep \/ ReplaceStep

Spec == Init /\ [][Next]_vars

----------------------------------------------------------------------------
(* Properties *)

\* The slice and every index point into the heap and the cursors are in range.
TypeOK ==
  /\ heap \in [Ptrs -> Item]
  /\ items \in Seq(Ptrs) /\ Len(items) <= capacity
  /\ \A f \in {byID, bySeq, byUUID} : Range(f) \subseteq Ptrs
  /\ DOMAIN byID \subseteq Ids /\ DOMAIN bySeq \subseteq 1..MaxSeq /\ DOMAIN byUUID \subseteq UUIDs
  /\ lastSeq \in 0..MaxSeq /\ {firstUUID, lastUUID} \subseteq UUIDs \cup {NoUUID}
  /\ bytes \in Int /\ idKeyBytes \in Int /\ capacity \in Nat

\* The slice is in seq order and the three maps are exact inverses of it: each
\* live item is found under its seq, its uuid and its id, through the same
\* pointer, and under nothing else (invariant 4 in the header of buffer.go).
IndexesAgree ==
  /\ \A i, j \in DOMAIN items : i < j => SeqAt(i) < SeqAt(j)
  /\ IsInjective(items)
  /\ bySeq = SeqIndex(items) /\ byUUID = UUIDIndex(items) /\ byID = IdIndex(items)
  /\ \A i, j \in DOMAIN items : i # j => /\ ItemAt(i).uuid # ItemAt(j).uuid
                                          /\ ItemAt(i).id = ItemAt(j).id => ItemAt(i).id = NoId

\* b.bytes is the sum of approxItemSize over the items, over replacing, promoting
\* and demoting counters, and never more than the store admitted.
BytesExact == bytes = SizesOf(Range(items)) /\ bytes <= Budget

\* How far b.idKeyBytes is from the sum of the id lengths (buffer.go).
IdKeyDrift == idKeyBytes - IdBytesOf(Range(items))

\* Only /rebuild, which never assigns idKeyBytes (bulk.go), lets it drift from the
\* ids of the items: the point writes, the deletes and a /warm keep what difference
\* there is, or end it.
IdKeyDriftOnlyByRebuild ==
  [][IdKeyDrift' \notin {IdKeyDrift, 0} =>
       ~ (PointStep \/ \E bt \in Batches : \E us \in [DOMAIN bt -> UUIDs] : CommitReplacement(bt, us))]_vars

\* No write path stores an item above the per-item cap, an update addressed by
\* seq or uuid (whose request does not show the id) included.
ItemsWithinCap == \A i \in DOMAIN items : ApproxItemSize(ItemAt(i)) <= MaxItemBytes

\* A counter cell stays within the range it is documented for, and an item is
\* either a counter or has a payload.
CountersInRange ==
  \A i \in DOMAIN items :
    LET it == ItemAt(i)
    IN  /\ it.counter # NoCell <=> it.payload = NoPayload
        /\ it.counter # NoCell => it.counter \in -MaxCounterValue..MaxCounterValue

\* Whatever mix of requests and batches built the scope, no item is beyond the
\* limits single requests are checked against.
ItemsWithinLimits == ItemsWithinCap /\ CountersInRange

\* The span: the newest item ever inserted is lastUUID while it lives, the first
\* one firstUUID, and both ends outlive the deletes.
SpanOfUUIDs ==
  /\ lastSeq \in DOMAIN bySeq => heap[bySeq[lastSeq]].uuid = lastUUID
  /\ 1 \in DOMAIN bySeq => heap[bySeq[1]].uuid = firstUUID
  /\ lastSeq = 0 <=> lastUUID = NoUUID

\* However the scope came to be what it is, its slice, its three indexes and its
\* uuid span tell the same story.
IndexesExact == IndexesAgree /\ SpanOfUUIDs

\* /head against its reference: the page holds the items after the cursor that
\* fewer than limit others precede there, oldest first, and hasMore says exactly
\* whether that leaves some out.
HeadIsTheWindow ==
  \A after \in 0..MaxSeq, limit \in 1..(Len(items) + 1) :
    LET later == {i \in DOMAIN items : SeqAt(i) > after}
        first == {i \in later : Cardinality({j \in later : j < i}) < limit}
        page  == SinceSeq(after, limit)[1]
    IN  /\ Range(page) = {items[i] : i \in first} /\ Len(page) = Cardinality(first)
        /\ \A i, j \in DOMAIN page : i < j => heap[page[i]].seq < heap[page[j]].seq
        /\ SinceSeq(after, limit)[2] <=> Cardinality(later) > limit

\* The drain loop loses nothing: deleting up to the last seq of a /head page
\* removes the items of that page and no others.
DrainRemovesWhatItRead ==
  \A limit \in 1..(Len(items) + 1) :
    LET page == SinceSeq(0, limit)[1]
    IN  page # <<>> => page \o Kept(heap[Last(page)].seq) = items

\* How many items are newer than the one at i.
Newer(i) == Cardinality({j \in DOMAIN items : j > i})

\* /tail against its reference: the page holds the items that at least offset
\* and fewer than offset + limit newer ones follow, oldest first, and hasMore says
\* exactly whether there are items with more behind them than that.
TailIsTheWindow ==
  \A limit \in 1..(Len(items) + 1), offset \in 0..(Len(items) + 1) :
    LET inside == {i \in DOMAIN items : offset <= Newer(i) /\ Newer(i) < offset + limit}
        page   == TailOffset(limit, offset)[1]
    IN  /\ Range(page) = {items[i] : i \in inside} /\ Len(page) = Cardinality(inside)
        /\ \A i, j \in DOMAIN page : i < j => heap[page[i]].seq < heap[page[j]].seq
        /\ TailOffset(limit, offset)[2] <=> \E i \in DOMAIN items : Newer(i) >= offset + limit

\* What clients page through is the scope: the windows of /head and /tail and
\* their hasMore equal their references, and draining by them loses nothing.
WindowsExact == HeadIsTheWindow /\ DrainRemovesWhatItRead /\ TailIsTheWindow

\* A step that gives each new item the next seq and leaves every other item that
\* is still there its id and uuid.
IdentityKept ==
  /\ lastSeq' >= lastSeq
  /\ \A n \in DOMAIN bySeq' : IF n <= lastSeq
                              THEN /\ n \in DOMAIN bySeq
                                   /\ heap'[bySeq'[n]].uuid = heap[bySeq[n]].uuid
                                   /\ heap'[bySeq'[n]].id = heap[bySeq[n]].id
                              ELSE n = lastSeq'

\* An item keeps its seq, id and uuid for life, and a seq is never given out
\* again until /warm or /rebuild replaces the items: the point writes and the
\* deletes move the cursor only forward, one seq per new item, and what is still
\* there is the item that was there before.
IdentityForLife == [][~ IdentityKept => ~ PointStep]_vars

=============================================================================
