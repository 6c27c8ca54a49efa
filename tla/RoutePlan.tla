------------------------------ MODULE RoutePlan ------------------------------
(***************************************************************************)
(* The fallback graph of a route: the tiers a failure falls over to, and    *)
(* the plan of tiers a request may be executed on                           *)
(* (crates/urouter-contracts/src/tier.rs, RouteTier in urouter-core).       *)
(***************************************************************************)
EXTENDS Integers, Sequences, SequencesExt, FiniteSets

CONSTANTS
    Tier,        \* the configured tiers, in route order
    Fallbacks,   \* RouteTier.fallbacks: tier -> sequence of tiers
    ByError      \* RouteTier.fallbacks_by_error: tier -> (some causes -> sequence)

TierSet == ToSet(Tier)

\* There is a tier, and fallbacks are tiers (RouteConfig::validate).
ASSUME RouteAssumption ==
    /\ Tier \in Seq(TierSet) /\ Tier # <<>>
    /\ Fallbacks \in [TierSet -> Seq(TierSet)]
    /\ \A t \in TierSet : \A c \in DOMAIN ByError[t] : ByError[t][c] \in Seq(TierSet)

\* FallbackCause; the causes that routes tell apart are those some tier names.
Cause == {"transport", "timeout", "rate_limited", "server_error", "provider_unavailable",
          "unauthorized", "not_found", "bad_request", "quota", "context_window",
          "content_policy", "capacity"}

\* RouteTier::fallbacks_for.
FallbacksFor(t, cause) ==
    IF cause \in DOMAIN ByError[t] THEN ByError[t][cause] ELSE Fallbacks[t]

\* Where a tier may fall over to, whatever the cause.
Falls(t) == ToSet(Fallbacks[t]) \cup UNION {ToSet(ByError[t][c]) : c \in DOMAIN ByError[t]}

\* The members of s in S, in their order: SelectSeq, written without recursion.
Kept(s, S) ==
    LET kept == {i \in DOMAIN s : s[i] \in S}
        place(i) == Cardinality({j \in kept : j <= i})
    IN  [k \in 1..Cardinality(kept) |-> s[CHOOSE i \in kept : place(i) = k]]

\* The FallbackTierSpec of a tier: all its fallbacks, of any cause, in the order of
\* their names (here: of the route).
AllFallbacks(t) == Kept(Tier, Falls(t))

\* append_planned_tier: depth first, each tier once.  A tier that was reached at the
\* end of a longer path is not gone into again from a shorter one.
Append_planned_tier[planned \in Seq(TierSet), t \in TierSet, remaining \in Nat] ==
    IF Contains(planned, t) THEN planned
    ELSE IF remaining = 0 THEN Append(planned, t)
    ELSE FoldLeft(LAMBDA acc, f : Append_planned_tier[acc, f, remaining - 1],
                  Append(planned, t), AllFallbacks(t))

\* plan_fallback_tiers; RouteConfig::validate has excluded cycles.
PlanFallbackTiers(selected, maxDepth) == Append_planned_tier[<<>>, selected, maxDepth]

\* The plan from any tier is a sequence of tiers with that tier, and unless it has more
\* tiers than a walk may leave, every tier that one of it falls over to.
PlanSuffices(maxDepth) ==
    \A t \in TierSet :
        LET plan == PlanFallbackTiers(t, maxDepth)
        IN  /\ plan \in Seq(TierSet) /\ t \in ToSet(plan)
            /\ \/ Cardinality(ToSet(plan)) > maxDepth
               \/ \A u \in ToSet(plan) : Falls(u) \subseteq ToSet(plan)

\* Whether the fallback graph is free of cycles, as RouteConfig::validate demands.
Acyclic ==
    LET reach[n \in Nat] ==
            IF n = 0 THEN [t \in TierSet |-> ToSet(AllFallbacks(t))]
            ELSE [t \in TierSet |-> reach[n-1][t] \cup
                                       UNION {reach[n-1][u] : u \in reach[n-1][t]}]
    IN  \A t \in TierSet : t \notin reach[Len(Tier)][t]
=============================================================================
