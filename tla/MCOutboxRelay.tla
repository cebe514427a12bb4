---------------------------- MODULE MCOutboxRelay ----------------------------
(***************************************************************************)
(* Small instances of OutboxRelay for TLC.                                 *)
(***************************************************************************)
EXTENDS OutboxRelay, TLC

CONSTANTS r1, r2, r3, w1, w2

\* Two rows of one aggregate and one without a partition.
TwoAndOne == r1 :> "p" @@ r2 :> "p" @@ r3 :> NoPartition
OneAggregate == [r \in Rows |-> "p"]
InSequence == [r \in Rows |-> CASE r = r1 -> 1 [] r = r2 -> 2 [] r = r3 -> 3]
OneTick == 1 :> 1 @@ 2 :> 1

SymWorkers == Permutations(Workers)
=============================================================================
