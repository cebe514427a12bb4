------------------------- MODULE MCLocationProcessing -------------------------
(* A small instance of LocationProcessing for TLC. *)
EXTENDS LocationProcessing, TLC

CONSTANTS w1, w2, x1, x2, q1, q2

\* Only for runs without liveness properties.
SymAll == Permutations(Workers) \cup Permutations(Requests) \cup Permutations(Runs)
=============================================================================
