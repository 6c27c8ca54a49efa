---------------------------- MODULE MC_RecordStore ----------------------------
(* Two records in a store that keeps one or two, the sweeper and a handler,  *)
(* a short queue, a file that rotates with every line, and one crash.        *)
EXTENDS RecordStore, TLC

CONSTANTS r1, r2, c1, c2

RecordSymmetry == Permutations(Record)
=============================================================================
