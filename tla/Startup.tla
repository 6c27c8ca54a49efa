------------------------------- MODULE Startup -------------------------------
(***************************************************************************)
(* What decides whether the gateway starts (main.rs) and what its dry run   *)
(* reports beforehand (dry_run.rs), as functions of the command line a and  *)
(* of the world w it is started in: the files it names, the environment,    *)
(* the state backend.  An unset option is None.                             *)
(*                                                                         *)
(*   w.catalog, w.route    the documents, None when they do not parse       *)
(*   w.pinned, w.reasoned  manifest.json next to the catalog matches it;    *)
(*                         every cost override in the catalog has a reason  *)
(*   w.credentials         the models whose provider's key is in the        *)
(*                         environment                                      *)
(*   w.manifest            the control manifest: schema, hashes, revision   *)
(*                         and signature as they compare with the files     *)
(*   w.artifacts           the decision artifacts, by file                  *)
(*   w.redis, w.stores, w.keyring, w.port   what can be reached, opened,    *)
(*                         parsed and bound                                 *)
(***************************************************************************)
EXTENDS RouteDocument

\* The options and their defaults.  least is the least of the capacities, intervals and
\* lifetimes that must not be zero; the files of records and the keyring are told apart
\* only by being given.
Args == [least |-> 1, vectors |-> None, level |-> TRUE, proxy |-> None, noProxy |-> FALSE,
         threshold |-> 500, sync |-> None, hard |-> 0, soft |-> 0,
         manifest |-> FALSE, controlKey |-> None, reload |-> 5, policy |-> "last_good",
         active |-> None, candidate |-> None, artifactKey |-> None, canary |-> 0,
         operations |-> 6, epsilon |-> 0, exploreBudget |-> 0,
         records |-> FALSE, feedback |-> FALSE, redis |-> None, onUnavailable |-> None,
         picker |-> "weighted", keyring |-> FALSE, audit |-> FALSE]

----------------------------------------------------------------------------
(* validate_args. *)
SyncValid(sync) ==
    sync = None \/ (sync.url # None /\ sync.key = "hex32" /\ sync.hours > 0)

BudgetBoundary(a) == \/ a.hard = 0 /\ a.soft = 0
                     \/ 0 < a.soft /\ a.soft < a.hard

HasArtifact(a) == a.active # None \/ a.candidate # None

ExplorationValid(a) ==
    /\ a.epsilon <= 1000000
    /\ a.epsilon > 0 => a.exploreBudget > 0 /\ (a.records \/ a.redis # None)

Pickers == {"weighted", "least_loaded", "lowest_latency", "lowest_quota_usage"}

ValidateArgs(a) ==
    /\ a.least > 0 /\ a.level /\ a.threshold <= 1000
    /\ a.vectors = None \/ a.vectors >= 4
    /\ a.noProxy => a.proxy # None
    /\ a.proxy # "malformed"
    /\ SyncValid(a.sync)
    /\ BudgetBoundary(a)
    /\ a.manifest => a.reload > 0
    /\ a.controlKey # None => a.manifest
    /\ a.canary <= 10000 /\ a.operations >= 6
    /\ ExplorationValid(a)
    /\ HasArtifact(a) <=> a.artifactKey # None
    /\ a.policy \in {"last_good", "fail_closed"} /\ a.picker \in Pickers
    /\ a.redis # None => ~a.records /\ ~a.feedback /\ a.onUnavailable = "fail_closed"

----------------------------------------------------------------------------
(* load_control. *)
KeyReadable(key) == key \in {None, "set"}

ManifestVerifies(a, m) ==
    /\ m.schema = 1 /\ m.hashes /\ m.revision
    /\ a.controlKey # None => m.signature = "good"

ControlLoads(a, w) ==
    /\ KeyReadable(a.controlKey)
    /\ a.manifest => ManifestVerifies(a, w.manifest)
    /\ w.catalog # None /\ w.route # None
    /\ Validate(w.route, w.catalog)

----------------------------------------------------------------------------
(* load_artifact_runtime: an artifact is bound to this catalog and route,   *)
(* has passed its export gates, is what was signed, and names tiers of the  *)
(* route only.                                                              *)
ArtifactVerifies(f, w) ==
    /\ f.schema = 1 /\ f.features /\ f.bound /\ f.gates /\ f.hash
    /\ f.signature = "good"

ArtifactLoads(file, w) ==
    /\ ArtifactVerifies(w.artifacts[file], w)
    /\ w.artifacts[file].tiers \subseteq ToSet(Names(w.route))

ArtifactsLoad(a, w) ==
    HasArtifact(a) => /\ a.artifactKey = "set"
                      /\ \A file \in {a.active, a.candidate} \ {None} : ArtifactLoads(file, w)

----------------------------------------------------------------------------
(* main: what stops the start, or None; in this order. *)
ManagementOpens(a, w) == a.keyring => a.audit /\ w.keyring

StateOpens(a, w) == a.redis # None => w.redis

Stopped(a, w) ==
    CASE ~ValidateArgs(a) -> "arguments"
      [] ValidateArgs(a) /\ ~ControlLoads(a, w) -> "control"
      [] ValidateArgs(a) /\ ControlLoads(a, w) /\ ~ArtifactsLoad(a, w) -> "artifact"
      [] OTHER -> IF ~StateOpens(a, w) THEN "state"
                  ELSE IF ~ManagementOpens(a, w) THEN "management"
                  ELSE IF ~w.stores THEN "stores"
                  ELSE IF ~w.port THEN "port" ELSE None

\* Where feedback is kept: --feedback-records, or next to --records.
Backend(a) == IF a.redis # None THEN "redis"
              ELSE IF a.records \/ a.feedback THEN "file" ELSE "memory"

----------------------------------------------------------------------------
(* The dry run: the checks that fail and those that warn.  Failing before   *)
(* the documents are read blocks them all.                                  *)
MissingAuth(w) ==
    {d.model : d \in {x \in ToSet(AllDeployments(w.route)) :
                        x.model \in DOMAIN w.catalog /\ x.model \notin w.credentials}}

SharedScopes(route) == \E l \in ToSet(route.quotas) : l.scope \in {"provider", "credential"}

\* Mutant: the candidate is not looked at.
ActiveChecks(a, w) ==
    IF ArtifactsLoad([a EXCEPT !.candidate = None], w) THEN {} ELSE {"artifact_feature_schema"}

ArtifactChecks(a, w) ==
    IF ArtifactsLoad(a, w) THEN {} ELSE {"artifact_feature_schema", "artifact_tier_subset"}

RouteChecks(a, w) ==
    (IF Validate(w.route, w.catalog) THEN {}
     ELSE {"target_catalog_and_cost", "tier_targets_and_fallbacks", "tier_capability_equivalence"})
    \cup {c \in {"exploration_requires_recording"} :
              a.epsilon > 0 /\ ~a.records /\ a.redis = None}
    \cup {c \in {"budget_soft_below_hard"} : ~BudgetBoundary(a)}
    \cup {c \in {"multi_instance_state_policy"} : a.redis # None /\ a.onUnavailable # "fail_closed"}

CatalogChecks(w) ==
    {c \in {"catalog_manifest"} : ~w.pinned} \cup {c \in {"cost_override_reason"} : ~w.reasoned}

Failures(a, w) ==
    ArtifactChecks(a, w) \cup RouteChecks(a, w) \cup CatalogChecks(w)
    \cup {c \in {"referenced_provider_auth"} : MissingAuth(w) # {}}
    \cup {c \in {"quota_limit_consistency"} : Duplicates(w.route.quotas) # {}}
    \cup {c \in {"quota_scope_topology"} : SharedScopes(w.route) /\ a.redis = "cluster"}

ExpectsTools(w) ==
    \E t \in ToSet(w.route.tiers) : t.model \in DOMAIN w.catalog /\ "tools" \in w.catalog[t.model]

Warnings(a, w) ==
    {c \in {"tool_route_model_decider"} : ExpectsTools(w) /\ ~HasArtifact(a)}
    \cup {c \in {"quota_limit_consistency"} :
            Duplicates(w.route.quotas) = {} /\ InconsistentWindows(w.route.quotas) # {}}
    \cup {c \in {"intelligence_signal_sources"} :
            w.route.intelligence # None /\ Produces(w.route.intelligence.intent)}

DryRun(a, w) ==
    IF ~ValidateArgs(a) \/ w.catalog = None \/ w.route = None
      THEN [valid |-> FALSE, failed |-> {"blocked"}, warned |-> {}]
      ELSE [valid |-> Failures(a, w) = {}, failed |-> Failures(a, w), warned |-> Warnings(a, w)]
=============================================================================
