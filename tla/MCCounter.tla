----------------------------- MODULE MCCounter -----------------------------
(* Small instances of Counter for TLC. *)
EXTENDS Counter, TLC

R(op, n) == [op |-> op, n |-> n]

\* Increments, reads, deletes, and a payload that an increment turns into a counter.
MCRequests == {R("add", 1), R("put", -1), R("delete", 0), R("read", 0)}

\* What the future of a state depends on.  Addresses do not matter: the cell of the
\* item is the cell of the item, any other is garbage unless a goroutine has it in
\* hand.  Nor does a local that is written before it is read again.
CellView(c) ==
  CASE c = NoCell -> "none"
    [] c # NoCell /\ c = item.cell -> "installed"
    [] OTHER -> <<c, cells[c]>>

LocalView(p) ==
  <<req[p], ans[p], CellView(at[p]),
    IF pc[p] \in {"cas", "tscas"} THEN cur[p] ELSE 0,
    IF pc[p] \in {"tsload", "tscas", "return"} /\ req[p].op = "add" THEN now[p] ELSE 0>>

View ==
  <<item.kind, item.value, IF item.cell = NoCell THEN "none" ELSE cells[item.cell],
    detached, lock, pc, [p \in Procs |-> LocalView(p)]>>

=============================================================================
