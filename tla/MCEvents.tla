------------------------------ MODULE MCEvents ------------------------------
(* Small instances of Events for TLC. *)
EXTENDS Events, TLC

Symmetry == Permutations(Procs) \cup Permutations(Scopes)

=============================================================================
