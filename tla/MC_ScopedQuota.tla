---------------------------- MODULE MC_ScopedQuota ----------------------------
(* Three attempts of a gateway on deployments of one provider: the *)
(* provider's slots and tokens per minute, and for some its requests per day. *)
EXTENDS ScopedQuota, TLC

CONSTANTS g1, a1, a2, a3, slots, tokens, requests

MCWindow == slots :> "in_flight" @@ tokens :> "minute" @@ requests :> "day"
MCLimit == slots :> 1 @@ tokens :> 3 @@ requests :> 2
MCPlans == {{slots, tokens}, {slots, tokens, requests}}

AttemptSymmetry == Permutations(Attempt)
=============================================================================
