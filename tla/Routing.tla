------------------------------- MODULE Routing -------------------------------
(***************************************************************************)
(* How a route decides the tier of a request (urouter-core, trajectory.rs,  *)
(* the cascade of urouter-contracts/tier.rs and the admission of            *)
(* urouter-ai).  Pure: the decision is a function of the route, the catalog *)
(* and the request.  Strengths and biases are in thousandths of a unit.     *)
(*                                                                         *)
(* A request r has the fields                                               *)
(*   model    the route's id or an explicit model                           *)
(*   feats    its canonical features (Protocols)                            *)
(*   topic    what its last user text is about; host, whether the host      *)
(*            declares the tool the topic calls for                         *)
(*   chars, maxTokens (0 when not stated)                                   *)
(*   results, calls   the severities of its tool results and the kinds of   *)
(*            its tool calls, oldest first                                  *)
(*   pin, floor       preferred tiers, or None                              *)
(*   role (None when not stated), hard, cheap, bias   its call and hints;   *)
(*            signals, a set of [kind, strength] records                    *)
(*   given, version, formed   which parts of its contract it states, the    *)
(*            contract's version (None when not stated), and whether the    *)
(*            values it states have the form they must have                 *)
(***************************************************************************)
EXTENDS Integers, Sequences, SequencesExt, FiniteSets, FiniteSetsExt

CONSTANTS
    None,
    Route,              \* the route's id
    Tier,               \* the tiers, a sequence
    ModelOf,            \* tier -> its model
    Deployed,           \* tier -> the models its effective_deployments serve
    Model, Active,      \* the catalog's models, those whose lifecycle is active
    Caps, Window,       \* model -> its capabilities; -> its context window
    OutputCap,          \* OUTPUT_RESERVE_TOKENS_CAP
    Rules, ReplaceRules,\* the configured [topic, tools, reasoning, tool] rules; whether
                        \* they replace the built-in ones
    LongContext,        \* long_context_quality_threshold_tokens, 0 when off
    DefaultBias,
    Mode,               \* the trajectory source: "off", "shadow" or "on"
    RecentWindow, StallMin

ASSUME RouteValid ==
    /\ Tier \in Seq(ToSet(Tier)) /\ Tier # <<>> /\ IsInjective(Tier)
    /\ \A t \in ToSet(Tier) :
          /\ ModelOf[t] \in Model
          /\ Deployed[t] \subseteq Model /\ Deployed[t] # {}
          /\ \A m \in Deployed[t] : Caps[m] = Caps[ModelOf[t]] /\ Window[m] = Window[ModelOf[t]]
    /\ None \notin Model \cup ToSet(Tier)
    /\ Window \in [Model -> Nat] /\ OutputCap \in Nat
    /\ DefaultBias \in -1000 .. 1000

Index(t) == CHOOSE i \in DOMAIN Tier : Tier[i] = t

\* The first of some tiers, in route order.
First(tiers) == CHOOSE t \in tiers : \A u \in tiers : Index(t) <= Index(u)

----------------------------------------------------------------------------
(* The contract. *)
Part == {"tenant",      \* the tenant's header, which is no part of the body
         "task", "harness", "profile", "toolset", "conversation", "branch", "turn",
         "trace", "data_policy"}

SessionIdentity == {"task", "harness", "profile", "toolset", "conversation", "branch", "turn"}

\* parse_contract.  A primary call of the second version states everything that
\* identifies its session.
ContractValid(r) ==
    /\ r.formed /\ r.version \in {None, 1, 2}
    /\ (r.version = 2 /\ r.role # "auxiliary") =>
          r.role = "primary" /\ SessionIdentity \cup {"data_policy"} \subseteq r.given
    /\ "conversation" \in r.given <=> "branch" \in r.given

\* A call that states less than this is served without a binding and never explored.
CompatibilityMode(r) ==
    r.role = None \/ ~({"task", "harness", "turn", "data_policy"} \subseteq r.given)

----------------------------------------------------------------------------
(* The trajectory. *)
Recent(s) == SubSeq(s, IF Len(s) > RecentWindow THEN Len(s) - RecentWindow + 1 ELSE 1, Len(s))

Count(s, kinds) == Len(SelectSeq(s, LAMBDA k : k \in kinds))

\* extract_trajectory and signal_strengths: nothing without a tool result.  The names of
\* tools are matched by substring, so a call of TodoWrite counts as a write too.
Inferred(r) ==
    LET recent == Recent(r.calls)
        produced == Count(recent, {"write", "todowrite"}) + Count(recent, {"edit"})
        read == Count(recent, {"read"})
        plan == Count(recent, {"plan", "todowrite"})
        stalled == Len(r.results) >= StallMin /\ produced = 0
        intensity == IF produced + read + plan = 0 THEN 0
                     ELSE (produced * 1000) \div (produced + read + plan)
        all == {[kind |-> "severity", millis |-> Max({0} \cup ToSet(Recent(r.results)))],
                [kind |-> "spinning", millis |-> IF stalled /\ read + plan = 0 THEN 1000 ELSE 0],
                [kind |-> "exploring", millis |-> IF stalled /\ read + plan > 0 THEN 1000 ELSE 0],
                [kind |-> "production_intensity", millis |-> intensity]}
    IN  IF r.results = <<>> THEN {} ELSE {s \in all : s.millis > 0}

Declares(r, kind) == \E s \in r.signals : s.kind = kind

\* apply_trajectory pushes the inferred millis as a number of units.
ApplyTrajectory(r) ==
    IF Mode # "on" THEN r.signals
    ELSE r.signals \cup {[kind |-> s.kind, strength |-> 1000 * s.millis] :
                            s \in {i \in Inferred(r) : ~Declares(r, i.kind)}}

Quantize(x) == IF x > 1000 THEN 1000 ELSE IF x < -1000 THEN -1000 ELSE x

SignalScore(signals, kinds) ==
    LET of == {Quantize(s.strength) : s \in {t \in signals : t.kind \in kinds}}
    IN  IF of = {} THEN 0 ELSE Max(of)

----------------------------------------------------------------------------
(* Classification and admission. *)
General == [topic |-> "general", tools |-> FALSE, reasoning |-> FALSE, tool |-> FALSE]

Builtin == {General,
            [topic |-> "greeting", tools |-> FALSE, reasoning |-> FALSE, tool |-> FALSE],
            [topic |-> "weather", tools |-> TRUE, reasoning |-> FALSE, tool |-> TRUE],
            [topic |-> "equation", tools |-> FALSE, reasoning |-> TRUE, tool |-> FALSE]}

\* classify_with_rules: the first configured rule that matches, then the built-in ones.
Classify(topic) ==
    LET mine == SelectSeq(Rules, LAMBDA rule : rule.topic = topic)
    IN  IF mine # <<>> THEN mine[1]
        ELSE IF ReplaceRules \/ ~\E b \in Builtin : b.topic = topic THEN General
        ELSE CHOOSE b \in Builtin : b.topic = topic

\* host_provides_tool: any tool turn in the history is taken for the tool.
HostProvides(r) == r.host \/ r.feats \cap {"results", "loose_results"} # {}

Tokens(r) == (r.chars + 3) \div 4

\* analyze_requirement.
Requirement(r) ==
    LET class == Classify(r.topic)
    IN  [caps |-> (r.feats \cap {"image", "audio", "tools", "schema"})
                    \cup (IF class.tools THEN {"tools"} ELSE {})
                    \cup (IF class.reasoning \/ "effort" \in r.feats THEN {"reasoning"} ELSE {}),
         window |-> Tokens(r) + IF r.maxTokens < OutputCap THEN r.maxTokens ELSE OutputCap]

Admits(m, need) == m \in Active /\ need.caps \subseteq Caps[m] /\ need.window <= Window[m]

Eligible(r) == LET need == Requirement(r) IN {m \in Model : Admits(m, need)}

\* What GET /v1/models says of the route: what any of its tiers can do for a request, and
\* what one of them can.  Neither looks at the models' lifecycle.
TierModel == {ModelOf[t] : t \in ToSet(Tier)}

\* Mutant: what the ablest tier has is taken for what all have.
CapabilitiesOfAny ==
    [caps |-> UNION {Caps[m] : m \in TierModel}, window |-> Min({Window[m] : m \in TierModel})]

Capabilities ==
    [caps |-> {c \in UNION {Caps[m] : m \in TierModel} : \A m \in TierModel : c \in Caps[m]},
     window |-> Min({Window[m] : m \in TierModel})]

RoutableCapabilities ==
    [caps |-> UNION {Caps[m] : m \in TierModel}, window |-> Max({Window[m] : m \in TierModel})]

Advertised == [all |-> Capabilities, any |-> RoutableCapabilities,
               model |-> [m \in Model |-> [caps |-> Caps[m], window |-> Window[m]]]]

Within(need, what) == need.caps \subseteq what.caps /\ need.window <= what.window

----------------------------------------------------------------------------
(* The decision: [tier, model, reason, eligible], or an error as its reason. *)
Decided(t, m, why, eligible) == [tier |-> t, model |-> m, reason |-> why, eligible |-> eligible]
RouteError(why) == Decided(None, None, why, {})
Failed(d) == d.model = None

\* What asks for a higher tier, and what for a lower.
Bias(r) == IF r.bias = None THEN DefaultBias ELSE Quantize(r.bias)

WantsHigh(r, signals) ==
    \/ r.hard \/ Bias(r) < -500
    \/ SignalScore(signals, {"severity", "spinning", "exploring"}) > 500
    \/ LongContext > 0 /\ Tokens(r) >= LongContext

WantsLow(r, signals) ==
    \/ r.role = "auxiliary" \/ r.cheap \/ Bias(r) > 500
    \/ SignalScore(signals, {"cost_sensitive", "disposable", "production_intensity"}) > 500

\* The cascade over the tiers with an admitted model, in route order: the pin looks at
\* all of them, the quality and default rules at those from the floor up (at all of them
\* when there is none).
Cascade(r, above) ==
    LET efficient == First(above)
        better == above \ {efficient}
    IN  CASE above = {} -> [tier |-> None, reason |-> "no_eligible_tier"]
          [] above # {} /\ WantsHigh(r, ApplyTrajectory(r)) /\ r.role # "auxiliary" ->
                [tier |-> IF better = {} THEN efficient ELSE First(better),
                 reason |-> "quality_guard"]
          [] OTHER -> [tier |-> efficient,
                       reason |-> IF WantsLow(r, ApplyTrajectory(r)) THEN "cost_preference"
                                  ELSE "default_efficient"]

SelectTier(r, eligibleTiers) ==
    IF r.pin = None
      THEN Cascade(r, {t \in eligibleTiers : r.floor = None \/ Index(t) >= Index(r.floor)})
    ELSE IF r.pin \in eligibleTiers
      THEN [tier |-> r.pin, reason |-> "preference_pin"]
    ELSE [tier |-> None, reason |-> "unknown_tier"]

DecideExplicit(r) ==
    IF r.model \in Eligible(r) THEN Decided("pinned", r.model, "explicit_model", Eligible(r))
    ELSE RouteError("no_eligible_tier")

\* The tiers whose model is admitted; the selected one is reported as required by the
\* capabilities when it is the first of fewer than all.
Selected(s, able, eligible) ==
    IF able = {} \/ s.tier = None
      THEN RouteError(IF able = {} THEN "no_eligible_tier" ELSE s.reason)
      ELSE Decided(s.tier, ModelOf[s.tier],
                   IF able # ToSet(Tier) /\ s.tier = First(able)
                     THEN "capability_required" ELSE s.reason,
                   eligible)

DecideAmong(r, able, eligible) == Selected(SelectTier(r, able), able, eligible)

DecideTier(r, eligible) ==
    DecideAmong(r, {t \in ToSet(Tier) : ModelOf[t] \in eligible}, eligible)

\* semantic_requirement.
LacksTool(r) == Classify(r.topic).tool /\ ~HostProvides(r)

\* RouteConfig::decide.  A floor that names no tier is an error on the way to any tier.
Decide(r) ==
    IF ~ContractValid(r) THEN RouteError("invalid_contract")
    ELSE IF LacksTool(r) THEN RouteError("required_tool_unavailable")
    ELSE IF r.model # Route THEN DecideExplicit(r)
    ELSE IF r.floor = None \/ r.floor \in ToSet(Tier) THEN DecideTier(r, Eligible(r))
    ELSE RouteError("unknown_tier")

\* route_pinned_tier: the request is decided again, with this tier pinned.
Pinned(r, t) == Decide([r EXCEPT !.pin = t])

\* The tiers that a model represents or that have a deployment of it.
Serving(m) == {t \in ToSet(Tier) : m = ModelOf[t] \/ m \in Deployed[t]}

\* Mutant: a binding is applied to a request its model was not admitted for.
BindUnadmitted(d, m) ==
    IF Serving(m) = {} THEN RouteError("unknown_model")
    ELSE Decided(First(Serving(m)), m, "task_binding", d.eligible)

\* RouteConfig::bind_decision.
BindDecision(d, m) ==
    IF m \notin d.eligible THEN RouteError("bound_model_ineligible")
    ELSE IF Serving(m) = {} THEN RouteError("unknown_model")
    ELSE Decided(First(Serving(m)), m, "task_binding", d.eligible)

\* next_eligible_model: the first admitted model of a tier after the bound one.
NextEligible(d, t) ==
    LET later == {u \in ToSet(Tier) : Index(u) > Index(t) /\ ModelOf[u] \in d.eligible}
    IN  IF t \notin ToSet(Tier) \/ later = {} THEN None ELSE ModelOf[First(later)]
=============================================================================
