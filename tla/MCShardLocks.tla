---------------------------- MODULE MCShardLocks ----------------------------
(* Small instances of ShardLocks for TLC. *)
EXTENDS ShardLocks, TLC

\* A request that has returned leaves nothing behind.
View == <<pc, [p \in Procs |-> IF pc[p] = "idle" THEN <<>> ELSE <<section[p], later[p], got[p]>>], writer>>

=============================================================================
