-------------------------- MODULE MCMmdbPublisher --------------------------
(* Two lookups, four reader identities and two offered databases: enough  *)
(* for two retired snapshots, each held by a different lookup, while a     *)
(* third is current and a fourth is being verified.                        *)
EXTENDS MmdbPublisher, TLC

Symmetry == Permutations(Lookups) \cup Permutations(Snapshots)
=============================================================================
