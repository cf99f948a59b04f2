-------------------------- MODULE MCSessionBinding --------------------------
(* Small instances of SessionBinding for TLC. *)
EXTENDS SessionBinding, TLC

\* Networks differ by nothing but what happens to them.
SymmetricNetworks == Permutations(Networks)
=============================================================================
