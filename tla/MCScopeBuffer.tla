--------------------------- MODULE MCScopeBuffer ---------------------------
(* Small instances of ScopeBuffer for TLC. *)
EXTENDS ScopeBuffer, TLC

CONSTANTS a, b, num, big, txt, u1, u2

MCIdLen == (a :> 1) @@ (b :> 2)

\* num is an integer a counter can start from, big one it cannot, txt no number.
MCPayloadLen == [p \in Payloads |-> IF p = txt THEN 3 ELSE 1]

MCNumber == [p \in Payloads |-> CASE p = num -> 1 [] p = big -> 9 [] p = txt -> NotANumber]

\* A batch that lets the cache mint, one that brings its uuids, the empty one.
MCBatches == {<<[id |-> b, uuid |-> NoUUID, payload |-> num], [id |-> NoId, uuid |-> NoUUID, payload |-> txt]>>,
              <<[id |-> a, uuid |-> u2, payload |-> txt], [id |-> b, uuid |-> u1, payload |-> num]>>,
              <<>>}

MCIncrements == {-1, 1}

\* The uuids no batch names are interchangeable.
Symmetry == Permutations(UUIDs \ {u1, u2})

\* What the future depends on: of the heap, the live items.
View ==
  <<[p \in Range(items) |-> heap[p]], items, byID, bySeq, byUUID, lastSeq, firstUUID, lastUUID,
    bytes, idKeyBytes, capacity>>

=============================================================================
