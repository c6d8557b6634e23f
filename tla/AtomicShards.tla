---------------------------- MODULE AtomicShards ----------------------------
(***************************************************************************)
(* What the rest of the store assumes of the shard locks, and what Store   *)
(* does in one step: a goroutine has all the shards of a critical section  *)
(* at once or none of them, and sections that write share no shard with    *)
(* any other.                                                              *)
(***************************************************************************)
CONSTANTS Procs, Shards

VARIABLE inside    \* [Procs -> the section each goroutine is in]

Section == [mode : {"R", "W"}, shards : SUBSET Shards]

NoSection == [mode |-> "R", shards |-> {}]

Compatible(c, d) == c.shards \cap d.shards = {} \/ (c.mode = "R" /\ d.mode = "R")

Init == inside = [p \in Procs |-> NoSection]

Enter(p, c) ==
  /\ inside[p] = NoSection
  /\ \A q \in Procs \ {p} : Compatible(inside[q], c)
  /\ inside' = [inside EXCEPT ![p] = c]

Leave(p) ==
  /\ inside[p] # NoSection
  /\ inside' = [inside EXCEPT ![p] = NoSection]

Next == \E p \in Procs : Leave(p) \/ \E c \in Section : Enter(p, c)

Spec == Init /\ [][Next]_inside

=============================================================================
