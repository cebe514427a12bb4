-------------------------- MODULE MCLocationNetwork --------------------------
(* LocationNetwork on small instances.                                     *)
EXTENDS LocationNetwork, TLC

Symmetry == Permutations(Points) \cup Permutations(Pairs) \cup Permutations(Profiles) \cup Permutations(Requests)
=============================================================================
