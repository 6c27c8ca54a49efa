---------------------------- MODULE RouteDocument ----------------------------
(***************************************************************************)
(* The route document, its defaults, and what RouteConfig::validate asks of *)
(* it (urouter-core, with the quota limits of urouter-contracts).           *)
(* Validation runs at startup, in the dry run, on every reload and at every *)
(* decision.  A catalog is here a function from models to their             *)
(* capabilities.                                                            *)
(***************************************************************************)
EXTENDS Integers, Sequences, SequencesExt, FiniteSets, FiniteSetsExt

CONSTANT None

----------------------------------------------------------------------------
(* What a document leaves out is given its default.                        *)

\* labelled: whether its scopes, region, residency, tenants and usage are well formed.
RouteDeployment(id, model) ==
    [id |-> id, model |-> model, url |-> None, weight |-> 1, labelled |-> TRUE]

TierConfig(tier, model) ==
    [tier |-> tier, model |-> model, deployments |-> <<>>, fallbacks |-> <<>>,
     byError |-> [cause \in {} |-> <<>>]]

RouteConfig(id, tiers) ==
    [id |-> id, tiers |-> tiers, bias |-> 0, rules |-> None, quotas |-> <<>>,
     intelligence |-> None]

IntelligenceConfig(trajectory, intent) ==
    [schema |-> 1, trajectory |-> trajectory, intent |-> intent]

Produces(mode) == mode \in {"shadow", "on"}

SemanticRule(id, patterns) ==
    [id |-> id, equals |-> {}, any |-> patterns, all |-> {}, confidence |-> 900, tool |-> None]

QuotaLimit(scope, window, limit) ==
    [scope |-> scope, window |-> window, dimension |-> "requests", limit |-> limit]

\* TierConfig::effective_deployments: a tier without any is served by its own model.
EffectiveDeployments(t) ==
    IF t.deployments # <<>> THEN t.deployments
    ELSE <<RouteDeployment(t.tier \o ":primary", t.model)>>

AllDeployments(route) ==
    FlattenSeq([i \in DOMAIN route.tiers |-> EffectiveDeployments(route.tiers[i])])

AllFallbacks(t) == t.fallbacks \o FlattenSeq(SetToSeq({t.byError[e] : e \in DOMAIN t.byError}))

Names(route) == [i \in DOMAIN route.tiers |-> route.tiers[i].tier]
TierNamed(route, name) == CHOOSE i \in DOMAIN route.tiers : route.tiers[i].tier = name

----------------------------------------------------------------------------
(* Quota limits. *)
Limited(l) == <<l.scope, l.window, l.dimension>>

Duplicates(limits) ==
    {i \in DOMAIN limits : \E j \in DOMAIN limits : j < i /\ Limited(limits[j]) = Limited(limits[i])}

InconsistentWindows(limits) ==
    {d \in ToSet(limits) :
        /\ d.window = "day" /\ d.limit > 0
        /\ \E m \in ToSet(limits) : /\ m.window = "minute" /\ m.limit > d.limit
                                    /\ m.scope = d.scope /\ m.dimension = d.dimension}

----------------------------------------------------------------------------
(* validate_semantic_rules. *)
RuleValid(rule) ==
    LET patterns == rule.equals \cup rule.any \cup rule.all
    IN  /\ rule.id # "" /\ rule.tool # ""
        /\ patterns # {} /\ "" \notin patterns
        /\ rule.confidence \in 1 .. 1000

RulesValid(set) ==
    set = None \/ /\ set.schema = 1
                  /\ IsInjective([i \in DOMAIN set.rules |-> set.rules[i].id])
                  /\ \A rule \in ToSet(set.rules) : RuleValid(rule)

----------------------------------------------------------------------------
(* visit_fallback: a depth-first walk that marks a tier 1 on entry and 2 on *)
(* exit.  It fails, here with None, at a tier it meets while marked 1.      *)

Marks(route) == {None} \cup [DOMAIN route.tiers -> 0 .. 2]

\* Mutant: the walk marks a tier done before its fallbacks are.
VisitDoneEarly(route) ==
    LET visit[i \in DOMAIN route.tiers, states \in Marks(route)] ==
          IF states = None \/ states[i] = 2 THEN states
          ELSE FoldLeft(LAMBDA s, f : visit[TierNamed(route, f), s],
                        [states EXCEPT ![i] = 2], AllFallbacks(route.tiers[i]))
    IN  visit

VisitFallback(route) ==
    LET visit[i \in DOMAIN route.tiers, states \in Marks(route)] ==
          IF states = None \/ states[i] = 2 THEN states
          ELSE IF states[i] = 1 THEN None
          ELSE LET after == FoldLeft(LAMBDA s, f : visit[TierNamed(route, f), s],
                                     [states EXCEPT ![i] = 1], AllFallbacks(route.tiers[i]))
               IN  IF after = None THEN None ELSE [after EXCEPT ![i] = 2]
    IN  visit

FallbacksKnown(route) ==
    \A t \in ToSet(route.tiers) : ToSet(AllFallbacks(t)) \subseteq ToSet(Names(route))

FallbacksValid(route) ==
    /\ FallbacksKnown(route)
    /\ FoldLeft(LAMBDA s, i : VisitFallback(route)[i, s], [i \in DOMAIN route.tiers |-> 0],
                [i \in DOMAIN route.tiers |-> i]) # None

----------------------------------------------------------------------------
(* RouteConfig::validate. *)
DeploymentValid(d, t, catalog) ==
    /\ d.id # "" /\ d.weight > 0 /\ d.labelled
    /\ d.url \in {None, "http", "https"}
    /\ d.model \in DOMAIN catalog /\ catalog[d.model] = catalog[t.model]

TierValid(t, catalog) ==
    /\ t.tier # "" /\ t.model \in DOMAIN catalog
    /\ \A d \in ToSet(EffectiveDeployments(t)) : DeploymentValid(d, t, catalog)

Validate(route, catalog) ==
    /\ route.id # "" /\ route.tiers # <<>>
    /\ route.intelligence = None \/ route.intelligence.schema = 1
    /\ Duplicates(route.quotas) = {}
    /\ route.bias \in -1000 .. 1000
    /\ RulesValid(route.rules)
    /\ IsInjective(Names(route))
    /\ IsInjective([i \in DOMAIN AllDeployments(route) |-> AllDeployments(route)[i].id])
    /\ \A t \in ToSet(route.tiers) : TierValid(t, catalog)
    /\ FallbacksValid(route)
=============================================================================
