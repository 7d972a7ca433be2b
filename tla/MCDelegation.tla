---------------------------- MODULE MCDelegation ----------------------------
(* Delegation on small instances: the names are interchangeable.           *)
EXTENDS Delegation, TLC

Symmetry ==
  Permutations(Corporations) \cup Permutations(Operators) \cup Permutations(Participants)
=============================================================================
