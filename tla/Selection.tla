------------------------------ MODULE Selection ------------------------------
(***************************************************************************)
(* The members of a sequence that are in a set, in their order: what        *)
(* Iterator::filter and VecDeque::retain leave.  SelectSeq says the same by *)
(* recursion; this form says it by counting, so that it can be reasoned     *)
(* about with what is known of finite sets.                                 *)
(***************************************************************************)
EXTENDS Integers, Sequences, FiniteSets

Picked(s, S) == {i \in DOMAIN s : s[i] \in S}

\* The place of i among the numbers of P.
PlaceOf(P, i) == Cardinality({j \in P : j <= i})

Kept(s, S) ==
    LET picked == Picked(s, S)
    IN  [k \in 1 .. Cardinality(picked) |-> s[CHOOSE i \in picked : PlaceOf(picked, i) = k]]
=============================================================================
