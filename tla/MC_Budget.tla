------------------------------ MODULE MC_Budget ------------------------------
(* Three calls that may or may not carry the one Idempotency-Key, with one  *)
(* of two bodies, on either repository, with and without a limit.           *)
EXTENDS Budget, TLC

CONSTANTS c1, c2, c3, k1, b1, b2

CallSymmetry == Permutations({c1, c2, c3}) \cup Permutations({b1, b2})
=============================================================================
