------------------------------- MODULE Totals -------------------------------
(***************************************************************************)
(* The sum of what the entries of a ledger hold, counted unit by unit: a    *)
(* ledger is a function to integers, and an entry below zero holds nothing. *)
(* Counted in this way a total is the cardinality of a set, so that proofs  *)
(* about it need only what is known of finite sets.                         *)
(***************************************************************************)
EXTENDS Integers, FiniteSets

\* One pair for each unit of each entry.
Units(f) == UNION {{k} \X (1 .. f[k]) : k \in DOMAIN f}

TotalOf(f) == Cardinality(Units(f))
=============================================================================
