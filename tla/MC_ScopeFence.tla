----------------------------- MODULE MC_ScopeFence -----------------------------
(* Two requests of one task or another, of a session or of none, and one     *)
(* handler that deletes.                                                     *)
EXTENDS ScopeFence, TLC

CONSTANTS r1, r2, t1, t2, s1, d1, i1, i2

FenceSymmetry == Permutations(Request) \cup Permutations(Task) \cup Permutations(Identity)
=============================================================================
