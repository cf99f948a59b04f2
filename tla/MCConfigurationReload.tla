------------------------ MODULE MCConfigurationReload ------------------------
(* Small instances of ConfigurationReload for TLC. *)
EXTENDS ConfigurationReload, TLC

\* Sessions, panels and addresses differ by nothing but what happens to them.
SymmetricReload == Permutations(Agents) \cup Permutations(Savers) \cup Permutations(Platforms)
==============================================================================
