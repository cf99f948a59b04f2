--------------------------- MODULE MCManagedTurn ---------------------------
(* Small instances of ManagedTurn for TLC. *)
EXTENDS ManagedTurn
=============================================================================
