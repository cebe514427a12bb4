---------------------------- MODULE MCFleetAssets ----------------------------
(* FleetAssets on small instances.                                         *)
EXTENDS FleetAssets, TLC

\* The kinds behave alike, so one vehicle at least is no loss.
SomeVehicle == {f \in [Assets -> Kinds] : \E a \in Assets : f[a] = "VEHICLE"}

Symmetry == Permutations(Assets) \cup Permutations(Requests) \cup Permutations(Plates)
=============================================================================
