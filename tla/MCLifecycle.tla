---------------------------- MODULE MCLifecycle ----------------------------
(* Small instances of Lifecycle for TLC. *)
EXTENDS Lifecycle, TLC

\* What the future of a state depends on: how init went, and the entries of
\* _events, matter until the bridges attach; the cache of an instance that is
\* gone does not matter at all.
Booting(i) == stage[i] \in {"none", "init", "drain", "subscribe"}

View ==
  <<adapter, stage, bridges, command, cancelled, listening, stopper, requests, path, caddy,
    late, ended, overlap, rolledBack,
    [i \in Instances |-> IF Booting(i) THEN <<script[i], posts[i], events[i], i \in leftover>> ELSE <<>>],
    [i \in Instances |-> IF stage[i] = "gone" THEN 0 ELSE pending[i]]>>

=============================================================================
