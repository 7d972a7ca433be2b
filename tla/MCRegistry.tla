----------------------------- MODULE MCRegistry -----------------------------
(* Registry on small instances: DIDs, languages and contents are names.    *)
EXTENDS Registry, TLC

Symmetry == Permutations(Dids) \cup Permutations(Languages) \cup Permutations(Contents)
=============================================================================
