---------------------------- MODULE MCSubscriber ----------------------------
(* Small instances of Subscriber for TLC. *)
EXTENDS Subscriber, TLC

\* The history of items that are gone does not matter, except for the losses.
View ==
  <<scope, channel, wpc, target, [w \in Writers |-> IF wpc[w] = "idle" THEN 0 ELSE mine[w]],
    bridge, counts, lost, persisted \cap Ids(items), begun \cap Ids(items), abandoned \cap Ids(items)>>

=============================================================================
