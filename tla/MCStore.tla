------------------------------ MODULE MCStore ------------------------------
(* Small instances of Store for TLC. *)
EXTENDS Store, TLC

CONSTANTS ev, s1, s2

\* One shard per user scope, _events on the shard of the first.
MCShardOf == (ev :> 1) @@ (s1 :> 1) @@ (s2 :> 2)

\* One user scope only.
MCShardOf1 == (ev :> 1) @@ (s1 :> 1)

\* Unequal item caps: the second scope is full with its first item.
MCItemCap == (ev :> 0) @@ (s1 :> 2) @@ (s2 :> 1)

MCItemCap1 == (ev :> 0) @@ (s1 :> 2)

\* A single list, not empty.
MCBatches == {<<[id |-> NoId, size |-> 2]>>}

\* The empty list as well: /warm with no items for a scope.
MCBatchesEmpty == {<<>>, <<[id |-> NoId, size |-> 2]>>}

Symmetry == Permutations(Procs)

\* What the future of a state depends on: the contents of the mapped buffers,
\* and of a goroutine's pointer only whether it is one of those or an orphan
\* that is detached.  The contents of orphans are garbage.
RefView(p) ==
  IF ref[p] = NoBuf THEN NoBuf
  ELSE IF \E s \in Scopes : scopes[s] = ref[p] THEN CHOOSE s \in Scopes : scopes[s] = ref[p]
  ELSE <<ref[p], detached[ref[p]]>>

View ==
  <<[s \in Scopes |-> IF scopes[s] = NoBuf THEN NoBuf
                      ELSE LET b == scopes[s] IN <<items[b], bytes[b], lastSeq[b], detached[b]>>],
    holder, totals, eventsDropsTotal, pc, req, [p \in Procs |-> RefView(p)], created, load, plan,
    Cardinality(FreshBufs)>>

=============================================================================
