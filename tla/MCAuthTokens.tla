---------------------------- MODULE MCAuthTokens -----------------------------
(* AuthTokens on small instances.                                          *)
EXTENDS AuthTokens, TLC

Symmetry == Permutations(Requests)
=============================================================================
