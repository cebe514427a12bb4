-------------------------- MODULE MCTripEnrichment --------------------------
(***************************************************************************)
(* Small instances of TripEnrichment for TLC.                              *)
(***************************************************************************)
EXTENDS TripEnrichment, TLC

CONSTANTS t1, w1, w2

SymWorkers == Permutations(Workers)
=============================================================================
