--------------------------- MODULE MC_GatewayCall ---------------------------
EXTENDS GatewayCall

MCTier == <<"a", "b", "c", "d">>

\* Tier a falls over to b and then c, or straight to c when the prompt is too long; b to c,
\* which is then in the queue twice; c to d.
MCFallbacks == [a |-> <<"b", "c">>, b |-> <<"c">>, c |-> <<"d">>, d |-> <<>>]

MCByError == [a |-> [context_window |-> <<"c">>], b |-> [x \in {} |-> <<>>],
              c |-> [x \in {} |-> <<>>], d |-> [x \in {} |-> <<>>]]

MCDeployments == [a |-> {"a1", "a2"}, b |-> {"b1"}, c |-> {"c1", "c2"}, d |-> {"d1"}]

Usual(m) == [model |-> m, enabled |-> TRUE, credential |-> TRUE, accepts |-> TRUE,
             grace |-> FALSE, policy |-> TRUE, endpoint |-> TRUE]

\* c2 is retired, and serves bound requests for the rest of its grace period.
MCFacts == [a1 |-> Usual("small"), a2 |-> Usual("small"), b1 |-> Usual("medium"),
            c1 |-> Usual("small"),
            c2 |-> [Usual("large") EXCEPT !.accepts = FALSE, !.grace = TRUE],
            d1 |-> Usual("large"), explicit |-> Usual("named")]

MCDecisions ==
    {[tier |-> "a", model |-> "small", reason |-> "rule", conversation |-> c, boundary |-> b] :
        c \in BOOLEAN, b \in {"none", "terminal_provider_failure"}}
    \cup {[tier |-> "a", model |-> "named", reason |-> "explicit_model", conversation |-> FALSE,
           boundary |-> "none"]}

MCFailures == {[kind |-> "server_error", cause |-> "server_error"],
               [kind |-> "bad_request", cause |-> "bad_request"],
               [kind |-> "bad_request", cause |-> "context_window"]}

\* Routes of four tiers, in any order, with fallbacks that end: each leads to a higher number.
Route(order, falls) == INSTANCE RoutePlan WITH
    Tier <- order,
    Fallbacks <- [t \in 1..4 |-> SetToSeq({u \in 1..4 : <<t, u>> \in falls})],
    ByError <- [t \in 1..4 |-> [c \in {} |-> <<>>]]

\* What the proof of WithinEstimate takes for granted of the plan: it holds of this route and
\* of every route of four tiers, at every depth.
ASSUME PlansSuffice ==
    /\ PlanSuffices(MaxFallbackDepth)
    /\ \A order \in SetToSeqs(1..4), falls \in SUBSET {e \in (1..4) \X (1..4) : e[1] < e[2]},
          depth \in 0..4 : Route(order, falls)!PlanSuffices(depth)
=============================================================================
