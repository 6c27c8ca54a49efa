----------------------------- MODULE MC_Service -----------------------------
(* Configurations a step or two from one that starts, every fallback graph over three
   tiers, and feedback on two turns with two records. *)
EXTENDS Service, TLC

MCCatalog == [s |-> {"tools"}, m |-> {"tools"}, l |-> {"tools", "image"}]

MCTiers == <<TierConfig("small", "s"), TierConfig("middle", "m"), TierConfig("large", "l")>>
MCRoute == RouteConfig("auto", MCTiers)

MCWorld == [catalog |-> MCCatalog, route |-> MCRoute, pinned |-> TRUE, reasoned |-> TRUE,
            credentials |-> {"s", "m", "l"},
            manifest |-> [schema |-> 1, hashes |-> TRUE, revision |-> TRUE, signature |-> "good"],
            artifacts |-> [good |-> [schema |-> 1, features |-> TRUE, bound |-> TRUE, gates |-> TRUE,
                                     hash |-> TRUE, signature |-> "good", tiers |-> {"small"}],
                           stale |-> [schema |-> 1, features |-> TRUE, bound |-> FALSE, gates |-> TRUE,
                                      hash |-> TRUE, signature |-> "good", tiers |-> {"small"}],
                           other |-> [schema |-> 1, features |-> TRUE, bound |-> TRUE, gates |-> TRUE,
                                      hash |-> TRUE, signature |-> None, tiers |-> {"small", "huge"}]],
            redis |-> TRUE, stores |-> TRUE, keyring |-> TRUE, port |-> TRUE]

\* Command lines a gateway may be given, several of them refused.
MCArgs == {Args,
    [Args EXCEPT !.least = 0], [Args EXCEPT !.vectors = 3], [Args EXCEPT !.vectors = 4, !.records = TRUE],
    [Args EXCEPT !.noProxy = TRUE], [Args EXCEPT !.proxy = "malformed"],
    [Args EXCEPT !.sync = [url |-> "u", key |-> "short", hours |-> 12]],
    [Args EXCEPT !.hard = 5], [Args EXCEPT !.hard = 5, !.soft = 4],
    [Args EXCEPT !.manifest = TRUE, !.controlKey = "set"], [Args EXCEPT !.manifest = TRUE, !.controlKey = "unset"],
    [Args EXCEPT !.controlKey = "set"],
    [Args EXCEPT !.active = "good", !.artifactKey = "set"], [Args EXCEPT !.active = "good"],
    [Args EXCEPT !.active = "good", !.candidate = "stale", !.artifactKey = "set"],
    [Args EXCEPT !.candidate = "other", !.artifactKey = "set"], [Args EXCEPT !.candidate = "good", !.artifactKey = "unset"],
    [Args EXCEPT !.epsilon = 1, !.exploreBudget = 1], [Args EXCEPT !.epsilon = 1, !.exploreBudget = 1, !.records = TRUE],
    [Args EXCEPT !.redis = "single"], [Args EXCEPT !.redis = "single", !.onUnavailable = "fail_closed"],
    [Args EXCEPT !.redis = "cluster", !.onUnavailable = "fail_closed"],
    [Args EXCEPT !.keyring = TRUE], [Args EXCEPT !.keyring = TRUE, !.audit = TRUE],
    [Args EXCEPT !.policy = "open"], [Args EXCEPT !.picker = "any"], [Args EXCEPT !.feedback = TRUE]}

Own(t, ds) == [MCTiers[t] EXCEPT !.deployments = ds]
MCRoutes == {MCRoute, [MCRoute EXCEPT !.tiers = <<>>], [MCRoute EXCEPT !.bias = 1001],
    [MCRoute EXCEPT !.tiers = <<MCTiers[1], MCTiers[1]>>],
    [MCRoute EXCEPT !.tiers = <<Own(1, <<RouteDeployment("middle:primary", "m")>>), MCTiers[2]>>],
    [MCRoute EXCEPT !.tiers = <<Own(1, <<RouteDeployment("a", "m"), RouteDeployment("b", "l")>>)>>],
    [MCRoute EXCEPT !.tiers = <<Own(1, <<[RouteDeployment("a", "m") EXCEPT !.url = "ftp"]>>)>>],
    [MCRoute EXCEPT !.tiers = <<[MCTiers[1] EXCEPT !.fallbacks = <<"none">>]>>],
    [MCRoute EXCEPT !.rules = [schema |-> 1, rules |-> <<SemanticRule("r", {"search"})>>]],
    [MCRoute EXCEPT !.rules = [schema |-> 1, rules |-> <<SemanticRule("r", {})>>]],
    [MCRoute EXCEPT !.quotas = <<QuotaLimit("provider", "day", 5), QuotaLimit("provider", "minute", 9)>>],
    [MCRoute EXCEPT !.quotas = <<QuotaLimit("tenant", "day", 5), QuotaLimit("tenant", "day", 9)>>],
    [MCRoute EXCEPT !.intelligence = IntelligenceConfig("shadow", "on")]}

MCWorlds == {[MCWorld EXCEPT !.route = r] : r \in MCRoutes} \cup
    {[MCWorld EXCEPT !.catalog = None], [MCWorld EXCEPT !.route = None], [MCWorld EXCEPT !.pinned = FALSE],
     [MCWorld EXCEPT !.reasoned = FALSE], [MCWorld EXCEPT !.credentials = {"s", "m"}],
     [MCWorld EXCEPT !.manifest.hashes = FALSE], [MCWorld EXCEPT !.redis = FALSE],
     [MCWorld EXCEPT !.stores = FALSE], [MCWorld EXCEPT !.keyring = FALSE], [MCWorld EXCEPT !.port = FALSE]}

\* Every fallback graph, the edges to "large" being those of one cause alone.
MCGraphs == {[MCRoute EXCEPT !.tiers = [i \in 1 .. 3 |->
                [MCTiers[i] EXCEPT !.fallbacks = SetToSeq(g[i] \ {"large"}),
                                   !.byError = [cause \in {"timeout"} |-> SetToSeq(g[i] \cap {"large"})]]]] :
             g \in [1 .. 3 -> SUBSET {"small", "middle", "large"}]}

MCLaunches == {[args |-> a, world |-> w] : a \in MCArgs, w \in MCWorlds}
    \cup {[args |-> Args, world |-> [MCWorld EXCEPT !.route = r]] : r \in MCGraphs}

Sym == Permutations(Client)

MCTurnOf == [r1 |-> "t1", r2 |-> "t1"]
Signal(t, k, n) == [turn |-> t, signals |-> [kind \in {k} |-> n]]
MCPosts == {<<[turn |-> "t1", signals |-> [accepted |-> None, endorsed |-> 6]]>>,
            <<Signal("t2", "disputed", None), Signal("t1", "accepted", 7), Signal("t1", "liked", 3)>>}
MCErasures == {[records |-> {"r1"}, whole |-> FALSE], [records |-> {"r1", "r2"}, whole |-> TRUE]}
=============================================================================
