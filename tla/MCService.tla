------------------------------ MODULE MCService ------------------------------
(* Small instances of Service for TLC. *)
EXTENDS Service, TLC

Symmetry == Permutations(Callers) \cup Permutations(Versions)
=============================================================================
