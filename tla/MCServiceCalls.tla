--------------------------- MODULE MCServiceCalls ---------------------------
(***************************************************************************)
(* ServiceCalls for TLC: small numbers of tasks and ticks.                 *)
(***************************************************************************)
EXTENDS ServiceCalls
=============================================================================
