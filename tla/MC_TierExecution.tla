-------------------------- MODULE MC_TierExecution --------------------------
(* Requests for a tier of two deployments and for a tier of one.            *)
EXTENDS TierExecution

CONSTANTS r1, r2, r3, d1, d2, d3

=============================================================================
