--------------------------- MODULE MCTripBooking ---------------------------
\* TripBooking on small instances.
EXTENDS TripBooking, TLC

CONSTANTS t1, t2, p1, p2

\* A driver and a vehicle.
OneCrew == {{1, 2}}
NowOrLater == {0, 1}
SymTrips == Permutations(Trips)
SymRequests == Permutations(Requests)
SymBoth == SymTrips \cup SymRequests
=============================================================================
