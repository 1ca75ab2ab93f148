---------------------------- MODULE MCTaskBlocking ----------------------------
(* An instance of TaskBlocking for TLC. *)
EXTENDS TaskBlocking, TLC

Symmetry == Permutations(Tasks) \cup Permutations(Requests)

=============================================================================
