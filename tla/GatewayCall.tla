----------------------------- MODULE GatewayCall -----------------------------
(***************************************************************************)
(* One call through the gateway (crates/urouter-gateway/src/main.rs): the   *)
(* front ends, chat_completions_inner with its admission, the walk over     *)
(* tiers and attempts of execute_routed_upstream and execute_tier, and the  *)
(* two response paths.  The call holds up to four reservations: the budget, *)
(* the tenant quota, and for each attempt a capacity lease and the scoped   *)
(* quota.  The ledgers behind them have modules of their own (Budget,       *)
(* TenantQuota, TierExecution, ScopedQuota); here their answers are open.   *)
(*                                                                         *)
(* Every await is the end of a step: the client may go away there, and the  *)
(* handler's future, with the leases it holds, is dropped.                  *)
(***************************************************************************)
EXTENDS RoutePlan

CONSTANTS
    Deployments,      \* tier -> its effective_deployments
    Facts,            \* deployment -> what deployment_filter_reasons looks at
    Explicit,         \* the deployment made up for an explicit model
    Apis,             \* front ends
    Decisions,        \* what RouteConfig::decide may answer
    Eligible,         \* decision.admission.eligible
    Failures,         \* how an attempt may fail: kind and cause
    MaxFallbackDepth, MaxRetries

None == "none"

ASSUME ConstantsAssumption ==
    /\ Acyclic
    /\ Apis \subseteq {"chat", "adapter", "responses", "anthropic", "gemini", "ollama"}
    /\ \A t \in TierSet : Deployments[t] # {} /\ Deployments[t] \subseteq DOMAIN Facts
    /\ Explicit \in DOMAIN Facts /\ None \notin DOMAIN Facts
    /\ \A d \in Decisions : d \in [tier : TierSet, model : {d.model}, reason : {d.reason},
                                  conversation : BOOLEAN, boundary : {d.boundary}]
    /\ MaxFallbackDepth \in Nat /\ MaxRetries \in Nat

VARIABLES
    phase,      \* where the handler is
    front,      \* the front end the call came through, and whether it streams
    decision,   \* the RouteDecision
    budget, quota,          \* "none", "held", "released", "settled", "dropped"
    estimate,   \* what the budget was reserved for
    pending, visited, tier, \* execute_routed_upstream: queue, set, current tier
    excluded, retries,      \* execute_tier
    error,      \* last_error of the tier: "none", or where it came from
    cause,      \* last_cause of the tier
    lease, scoped,          \* the deployment leased, and the scoped quota held on it
    attempts,   \* the AttemptRecords
    record,     \* the DecisionRecord that was stored
    binding,    \* the tier that commit_task_binding wrote
    reply,      \* what the client gets: "none", "ok", "error"
    sends,      \* history: every request sent upstream
    lost        \* history: how the attempts that are in no list were lost

admission == <<front, decision, budget, quota, estimate>>
walk == <<pending, visited, tier, excluded, retries, error, cause>>
history == <<sends, lost>>
outcome == <<attempts, record, binding, reply, history>>
vars == <<phase, admission, walk, lease, scoped, outcome>>

-----------------------------------------------------------------------------
(* Which tiers and deployments a decision may use.                           *)

ExplicitModel == decision.reason = "explicit_model"

\* A conversation stays on its model, unless its provider failed for good.
SessionBound == decision.conversation /\ decision.boundary # "terminal_provider_failure"

\* BUG (for a mutant): a conversation may go to any deployment of a tier.
DeploymentsOfTier(t) == IF ExplicitModel THEN {Explicit} ELSE Deployments[t]

\* effective_deployments, of a conversation those of its model.
DeploymentsOf(t) ==
    IF ExplicitModel THEN {Explicit}
    ELSE {d \in Deployments[t] : SessionBound => Facts[d].model = decision.model}

ModelOf(d) == IF d = Explicit THEN decision.model ELSE Facts[d].model

BoundRequest == decision.reason \in {"task_binding", "session_binding"}

\* deployment_filter_reasons: enabled, credential, retirement (a bound request is
\* let in for the grace period), eligibility, region, residency, tenant, endpoint.
FilterReasons(d) ==
    LET f == Facts[d]
        eligible == ModelOf(d) \in Eligible
    IN  {r \in {"deployment_disabled", "credential_unavailable", "deployment_retired",
                "model_ineligible", "policy_mismatch", "endpoint_unavailable"} :
            CASE r = "deployment_disabled"    -> ~f.enabled
              [] r = "credential_unavailable" -> ~f.credential
              [] r = "deployment_retired"     -> ~f.accepts /\ ~(BoundRequest /\ f.grace)
              [] r = "model_ineligible"       -> ~eligible
              [] r = "policy_mismatch"        -> ~f.policy
              [] r = "endpoint_unavailable"   -> ~f.endpoint}

\* filter_deployments; cache affinity only orders what is left.
Candidates(t) == {d \in DeploymentsOf(t) : FilterReasons(d) = {}}

\* execution_tiers: the plan, without the tiers a session's model is not on.
ExecutionTiers ==
    IF ExplicitModel THEN <<decision.tier>>
    ELSE Kept(PlanFallbackTiers(decision.tier, MaxFallbackDepth),
              {t \in TierSet : DeploymentsOf(t) # {}})

\* BUG (for a mutant): the estimate counts one attempt for each tier.
EstimateWithoutRetries ==
    [attempts |-> Len(ExecutionTiers),
     tiers |-> ToSet(ExecutionTiers),
     models |-> {ModelOf(d) : d \in UNION {DeploymentsOf(t) : t \in ToSet(ExecutionTiers)}}]

\* estimate_request_cost: all attempts of all tiers, at the price of the dearest model
\* of a deployment that is only out for want of a credential or an endpoint, or not.
Estimate ==
    LET tiers == ToSet(ExecutionTiers)
        counted(d) == FilterReasons(d) \subseteq {"credential_unavailable", "endpoint_unavailable"}
    IN  [attempts |-> Len(ExecutionTiers) * (MaxRetries + 1),
         tiers |-> tiers,
         models |-> {ModelOf(d) : d \in {d \in UNION {DeploymentsOf(t) : t \in tiers} : counted(d)}}]

NoEstimate == [attempts |-> 0, tiers |-> {}, models |-> {}]

-----------------------------------------------------------------------------
(* Ending.  Leases that are still held are dropped: the quota, the scoped    *)
(* quota and the capacity lease are given back by their Drop, the budget's   *)
(* reservation stays charged.                                                *)

Dropped(b) == IF b = "held" THEN "dropped" ELSE b

Returned(q) == IF q = "held" THEN "released" ELSE q

End(r) ==
    /\ phase' = "ended"
    /\ reply' = r
    /\ lease' = None /\ scoped' = FALSE
    /\ quota' = Returned(quota)

EndDropping(r) == End(r) /\ budget' = Dropped(budget)

\* An attempt that was completed.
Attempt(d, ok) == [tier |-> tier, model |-> ModelOf(d), ok |-> ok]

\* How the call went, and the record that is stored of it.
Execution(ok) == [ok |-> ok, attempts |-> Len(attempts)]
NoRecord == [stored |-> FALSE, tier |-> None, execution |-> [ok |-> FALSE, attempts |-> 0]]
BuildRecord(t, execution) == [stored |-> TRUE, tier |-> t, execution |-> execution]

NoDecision == [tier |-> Tier[1], model |-> None, reason |-> "none", conversation |-> FALSE,
               boundary |-> "none"]

Init ==
    /\ phase = "arrived"
    /\ front = [api |-> "chat", stream |-> FALSE]
    /\ decision = NoDecision
    /\ budget = "none" /\ quota = "none"
    /\ estimate = NoEstimate
    /\ pending = <<>> /\ visited = {} /\ tier = None
    /\ excluded = {} /\ retries = 0 /\ error = "none" /\ cause = "none"
    /\ lease = None /\ scoped = FALSE
    /\ attempts = <<>> /\ record = NoRecord /\ binding = None /\ reply = "none"
    /\ sends = <<>> /\ lost = {}

-----------------------------------------------------------------------------
(* The front ends and the admission.                                         *)

\* Front ends that have no encoder for a stream refuse one.
Refused(api, stream) == stream /\ api \in {"gemini", "ollama"}

\* chat_completions, the agent adapter, openai_responses, anthropic_messages,
\* gemini_generate and ollama_chat up to the routing.
Enter(api, stream) ==
    /\ phase = "arrived"
    /\ front' = [api |-> api, stream |-> stream]
    /\ ~Refused(api, stream)
    /\ phase' = "entered"
    /\ UNCHANGED <<decision, budget, quota, estimate, walk, lease, scoped, outcome>>

\* A stream that is refused, a conversion that would lose something, no tenant, a
\* conflicting Idempotency-Key.
EnterRefused(api, stream) ==
    /\ phase = "arrived"
    /\ front' = [api |-> api, stream |-> stream]
    /\ EndDropping("error")
    /\ UNCHANGED <<decision, estimate, walk, attempts, record, binding, history>>

\* route_request: the decision (rules, artifact, exploration), or an error.
Decide(d) ==
    /\ phase = "entered"
    /\ decision' = d
    /\ phase' = "decided"
    /\ UNCHANGED <<front, budget, quota, estimate, walk, lease, scoped, outcome>>

\* acquire_request_budget grants.
AcquireBudget ==
    /\ phase = "decided"
    /\ ExecutionTiers # <<>>
    /\ budget' = "held"
    /\ estimate' = Estimate
    /\ phase' = "budgeted"
    /\ UNCHANGED <<front, decision, quota, walk, lease, scoped, outcome>>

\* acquire_request_quota grants.
AcquireQuota ==
    /\ phase = "budgeted"
    /\ quota' = "held"
    /\ phase' = "admitted"
    /\ UNCHANGED <<front, decision, budget, estimate, walk, lease, scoped, outcome>>

\* The tenant quota refuses or cannot be reached: the budget is given back.
RefuseQuota ==
    /\ phase = "budgeted"
    /\ End("error")
    /\ budget' = "released"
    /\ UNCHANGED <<front, decision, estimate, walk, attempts, record, binding, history>>

\* Under which reason a decision is moved to a binding: past it, on a retry or a provider's
\* failure, as a migration; to it, with a boundary or without, as what it is bound by.
MovedAs ==
    (IF decision.boundary # "none" THEN {"migration"} ELSE {})
        \cup {IF decision.conversation THEN "session_binding" ELSE "task_binding"}

\* apply_task_binding: the decision stays, is migrated where it is, or is moved to the
\* tier and model of the binding, or past it.
ApplyTaskBinding ==
    /\ phase = "admitted"
    /\ \/ decision' = decision
       \/ /\ ~ExplicitModel
          /\ \/ decision' = [decision EXCEPT !.reason = "migration"]
             \/ \E t \in TierSet, d \in UNION {Deployments[u] : u \in TierSet}, why \in MovedAs :
                   /\ d \in Deployments[t]
                   /\ Facts[d].model \in Eligible
                   /\ decision' = [decision EXCEPT !.tier = t, !.model = Facts[d].model,
                                                   !.reason = why]
    /\ phase' = "bound"
    /\ UNCHANGED <<front, budget, quota, estimate, walk, lease, scoped, outcome>>

\* The piggybacked signals, the hash and the vector are stored; the walk starts.
Prepare ==
    /\ phase = "bound"
    /\ phase' = "routing"
    /\ pending' = <<decision.tier>>
    /\ UNCHANGED <<admission, visited, tier, excluded, retries, error, cause, lease, scoped, outcome>>

\* Every error before the first tier but the quota's: no route, the governance or the
\* budget refuse, an unsafe migration, an invalid vector.
Abort ==
    /\ phase \in {"entered", "decided", "admitted", "bound"}
    /\ EndDropping("error")
    /\ UNCHANGED <<front, decision, estimate, walk, attempts, record, binding, history>>

-----------------------------------------------------------------------------
(* execute_routed_upstream.                                                  *)

StartTier ==
    LET t == Head(pending)
    IN  /\ phase = "routing" /\ pending # <<>>
        /\ t \notin visited
        /\ Cardinality(visited) <= MaxFallbackDepth
        /\ ExplicitModel \/ DeploymentsOf(t) # {}
        /\ pending' = Tail(pending)
        /\ visited' = visited \cup {t}
        /\ tier' = t
        /\ excluded' = {} /\ retries' = 0 /\ error' = "none" /\ cause' = "none"
        /\ phase' = "tier"
        /\ UNCHANGED <<admission, lease, scoped, outcome>>

SkipTier ==
    /\ phase = "routing" /\ pending # <<>>
    /\ Head(pending) \in visited
    /\ pending' = Tail(pending)
    /\ UNCHANGED <<phase, admission, visited, tier, excluded, retries, error, cause,
                   lease, scoped, outcome>>

\* routed_setup_failure: a session's conversation has fallen over to a tier that its
\* model is not on.  The failure lists no attempts, whatever was sent before.
SetupFails ==
    LET t == Head(pending)
    IN  /\ phase = "routing" /\ pending # <<>>
        /\ t \notin visited
        /\ Cardinality(visited) <= MaxFallbackDepth
        /\ ~ExplicitModel /\ DeploymentsOf(t) = {}
        /\ attempts' = <<>>
        /\ lost' = IF attempts = <<>> THEN lost ELSE lost \cup {"setup"}
        /\ error' = "setup"
        /\ tier' = decision.tier
        /\ phase' = "failed"
        /\ UNCHANGED <<admission, pending, visited, excluded, retries, cause, lease, scoped,
                       record, binding, reply, sends>>

\* The queue is empty, or its next tier is past the depth: the routed failure.
Exhausted ==
    /\ phase = "routing"
    /\ \/ pending = <<>>
       \/ /\ pending # <<>> /\ Head(pending) \notin visited
          /\ Cardinality(visited) > MaxFallbackDepth
    /\ phase' = "failed"
    /\ UNCHANGED <<admission, walk, lease, scoped, outcome>>

\* A tier is left without an answer.  A bad request ends the call; any other cause
\* queues the fallbacks that the route has for it, none for an explicit model.
LeaveTier(why, from) ==
    LET fell == IF why = "none" THEN "capacity" ELSE why
    IN  /\ error' = from
        /\ cause' = fell
        /\ IF fell = "bad_request" /\ from = "upstream"
           THEN phase' = "failed" /\ UNCHANGED pending
           ELSE /\ phase' = "routing"
                /\ pending' = pending \o
                     (IF ExplicitModel THEN <<>>
                      ELSE Kept(FallbacksFor(tier, fell), TierSet \ visited))

-----------------------------------------------------------------------------
(* execute_tier.                                                             *)

\* next_lease: a deployment is leased.
Lease(d) ==
    /\ phase = "tier"
    /\ d \in Candidates(tier) \ excluded
    /\ lease' = d
    /\ phase' = "leased"
    /\ UNCHANGED <<admission, walk, scoped, outcome>>

\* No deployment is left or available, or the circuits cannot be read: the tier is
\* left with the error of its last attempt, or with the backend's.
NoLease ==
    /\ phase = "tier"
    /\ \/ LeaveTier(cause, error)
       \/ LeaveTier("none", "internal")
    /\ UNCHANGED <<admission, visited, tier, excluded, retries, lease, scoped, outcome>>

\* BUG (for a mutant): the deployment that was refused may be leased again.
ScopedRefusesForgotten ==
    /\ phase = "leased"
    /\ lease' = None
    /\ phase' = "tier"
    /\ UNCHANGED <<admission, walk, scoped, outcome>>

\* The scoped quota refuses: the lease is dropped and the deployment excluded.
ScopedRefuses ==
    /\ phase = "leased"
    /\ excluded' = excluded \cup {lease}
    /\ lease' = None
    /\ phase' = "tier"
    /\ UNCHANGED <<admission, pending, visited, tier, retries, error, cause, scoped, outcome>>

\* prepare_deployment_request fails (provider, endpoint, credential, conversion).
PrepareFails ==
    /\ phase = "leased"
    /\ LeaveTier("none", "internal")
    /\ lease' = None
    /\ UNCHANGED <<admission, visited, tier, excluded, retries, scoped, outcome>>

\* send_deployment_request.
Send ==
    /\ phase = "leased"
    /\ scoped' = TRUE
    /\ sends' = Append(sends, [tier |-> tier, deployment |-> lease, model |-> ModelOf(lease)])
    /\ phase' = "sent"
    /\ UNCHANGED <<admission, walk, lease, attempts, record, binding, reply, lost>>

\* The upstream answers; adopt_served_tier.
Serve ==
    /\ phase = "sent"
    /\ attempts' = Append(attempts, Attempt(lease, TRUE))
    /\ decision' = IF tier = decision.tier THEN decision
                   ELSE [decision EXCEPT !.tier = tier, !.model = ModelOf(lease),
                                         !.reason = "fallback_degraded"]
    /\ phase' = "served"
    /\ UNCHANGED <<front, budget, quota, estimate, walk, lease, scoped, record, binding, reply, history>>

Retryable == {"transport", "timeout", "rate_limited", "server_error", "provider_unavailable"}

\* The attempt fails, the lease is completed, and plan_retry stops or goes on: on
\* another deployment if the tier has one, else on the same.
AttemptFails(f) ==
    LET stops == f.kind \notin Retryable \/ retries = MaxRetries
    IN  /\ phase = "sent"
        /\ attempts' = Append(attempts, Attempt(lease, FALSE))
        /\ IF stops THEN LeaveTier(f.cause, "upstream") /\ UNCHANGED <<excluded, retries>>
           ELSE /\ error' = "upstream" /\ cause' = f.cause
                /\ retries' = retries + 1
                /\ excluded' = IF Cardinality(Candidates(tier)) > 1 THEN excluded \cup {lease} ELSE {}
                /\ phase' = "tier"
                /\ UNCHANGED pending
        /\ lease' = None /\ scoped' = FALSE
        /\ UNCHANGED <<admission, visited, tier, record, binding, reply, history>>

\* The attempt fails and so does the completion of its lease: the tier is left, and
\* the attempt is in no list.
CompletionFails(f) ==
    /\ phase = "sent"
    /\ LeaveTier(f.cause, "internal")
    /\ lost' = lost \cup {"completion"}
    /\ lease' = None /\ scoped' = FALSE
    /\ UNCHANGED <<admission, visited, tier, excluded, retries, attempts, record, binding,
                   reply, sends>>

-----------------------------------------------------------------------------
(* The end of the call.                                                      *)

\* BUG (for a mutant): a call that failed is given its budget back.
FailureBudgetReleased == "released"

\* record_routed_failure gives the budget back if there is no attempt.
FailureBudget == IF attempts = <<>> THEN "released" ELSE "dropped"

\* record_routed_failure; the record may not be stored.
RecordFailure ==
    /\ phase = "failed"
    /\ End("error")
    /\ budget' = FailureBudget
    /\ \/ record' = BuildRecord(tier, Execution(FALSE))
       \/ UNCHANGED record
    /\ UNCHANGED <<front, decision, estimate, walk, attempts, binding, history>>

\* The body of an answer cannot be read or converted, or a stream breaks: the lease is
\* completed with an error; nothing is recorded or settled.
AnswerBreaks ==
    /\ phase = "served"
    /\ EndDropping("error")
    /\ UNCHANGED <<front, decision, estimate, walk, attempts, record, binding, history>>

\* settle_budget_usage: what has no usage, or no price, stays as it was reserved.
SettledBudget(usage) == IF usage THEN "settled" ELSE "held"

\* The answer is complete: the lease is completed, the quotas settled and, if there
\* is a usage with a price, the budget.
Complete(usage) ==
    /\ phase = "served"
    /\ lease' = None
    /\ budget' = SettledBudget(usage)
    /\ phase' = "settled"
    /\ UNCHANGED <<front, decision, quota, estimate, walk, scoped, outcome>>

\* BUG (for a mutant): the binding is committed to the tier the call was queued for first.
CommitFirst ==
    /\ phase = "settled"
    /\ \/ binding' = attempts[1].tier
       \/ UNCHANGED binding
    /\ phase' = "committed"
    /\ UNCHANGED <<admission, walk, lease, scoped, attempts, record, reply, history>>

\* commit_task_binding: the tier that served, or nothing (compatibility mode, an
\* auxiliary call, an explicit model, a binding that stays).
Commit ==
    /\ phase = "settled"
    /\ \/ binding' = decision.tier /\ ~ExplicitModel
       \/ UNCHANGED binding
    /\ phase' = "committed"
    /\ UNCHANGED <<admission, walk, lease, scoped, attempts, record, reply, history>>

\* The record is stored, the quota released and the answer (or a stream's end) sent;
\* the front end may fail to translate it.
Reply ==
    /\ phase = "committed"
    /\ record' = BuildRecord(decision.tier, Execution(TRUE))
    /\ \E r \in {"ok"} \cup (IF front.api = "chat" THEN {} ELSE {"error"}) : EndDropping(r)
    /\ UNCHANGED <<front, decision, estimate, walk, attempts, binding, history>>

\* Completion, price, binding or record fail: an error, after the call was served.
ServedFails ==
    /\ phase \in {"served", "settled", "committed"}
    /\ EndDropping("error")
    /\ UNCHANGED <<front, decision, estimate, walk, attempts, record, binding, history>>

\* The client goes away: the handler is dropped where it awaits.
Disconnect ==
    /\ phase \notin {"arrived", "ended"}
    /\ EndDropping("none")
    /\ UNCHANGED <<front, decision, estimate, walk, attempts, record, binding, history>>

Next ==
    \/ \E api \in Apis, stream \in BOOLEAN : Enter(api, stream) \/ EnterRefused(api, stream)
    \/ \E d \in Decisions : Decide(d)
    \/ AcquireBudget \/ AcquireQuota \/ RefuseQuota \/ ApplyTaskBinding \/ Prepare \/ Abort
    \/ StartTier \/ SkipTier \/ SetupFails \/ Exhausted
    \/ \E d \in DOMAIN Facts : Lease(d)
    \/ NoLease \/ ScopedRefuses \/ PrepareFails \/ Send \/ Serve
    \/ \E f \in Failures : AttemptFails(f) \/ CompletionFails(f)
    \/ RecordFailure \/ AnswerBreaks
    \/ \E usage \in BOOLEAN : Complete(usage)
    \/ Commit \/ Reply \/ ServedFails \/ Disconnect

\* The runtime polls a handler as long as it can go on; upstream calls time out.
Spec == Init /\ [][Next]_vars /\ WF_vars(Next)

-----------------------------------------------------------------------------
(* Properties.                                                               *)

\* Every variable has its type.
TypeOK ==
    /\ budget \in {"none", "held", "released", "settled", "dropped"}
    /\ quota \in {"none", "held", "released"}
    /\ visited \subseteq TierSet /\ ToSet(pending) \subseteq TierSet
    /\ retries \in 0..MaxRetries
    /\ lease \in DOMAIN Facts \cup {None}
    /\ scoped => lease # None \/ phase \in {"settled", "committed"}
    /\ (phase = "ended") => /\ lease = None /\ ~scoped
                            /\ quota # "held" /\ budget # "held"

\* The budget is given back only to a call that sent nothing upstream, unless every
\* attempt it made was left out of the list: by a completion that failed, or by the
\* setup failure of a conversation that fell over to a tier without its model.
SpendIsKept ==
    budget = "released" /\ sends # <<>> =>
        "completion" \in lost \/ ("setup" \in lost /\ SessionBound)

\* A call that binding left where it was, and that is no conversation's, makes no more
\* attempts than its budget was reserved for, whatever the failures were, and no tier
\* is tried twice; what it sends to a tier of the plan is of a model with a price in
\* the estimate.
WithinEstimate ==
    /\ decision.reason = "rule" /\ ~SessionBound =>
          /\ Len(sends) <= estimate.attempts
          /\ \A i \in DOMAIN sends : sends[i].tier \in estimate.tiers =>
                                        sends[i].model \in estimate.models
    /\ Cardinality(visited) <= MaxFallbackDepth + 1
    /\ \A i, j \in DOMAIN sends : i < j /\ sends[i].tier = sends[j].tier =>
          \A k \in i..j : sends[k].tier = sends[i].tier

\* Nobody is answered by another model than the one he asked for by name, nor, in a
\* conversation, than the one the decision is bound to.
NoSubstitution ==
    phase = "sent" /\ (ExplicitModel \/ SessionBound) => sends[Len(sends)].model = decision.model

\* What is recorded and bound of a call that was served is the tier of its last, only
\* successful attempt, with every attempt that was completed before it.
RecordTellsServed ==
    /\ record.execution.ok =>
          /\ sends # <<>> /\ record.tier = sends[Len(sends)].tier
          /\ record.execution.attempts = Len(attempts) /\ attempts[Len(attempts)].ok
          /\ lost = {} => Len(attempts) = Len(sends)
          /\ \A i \in 1..(Len(attempts) - 1) : ~attempts[i].ok
    /\ binding # None => binding = sends[Len(sends)].tier /\ budget \in {"held", "settled", "dropped"}

\* "the budget reserves in full" (main.rs:4592): every attempt is one the budget was
\* reserved for, on a model whose price is in the reservation.
ReservedInFull ==
    /\ Len(sends) <= estimate.attempts
    /\ \A i \in DOMAIN sends : sends[i].model \in estimate.models

\* Every call ends.
CallEnds == <>(phase = "ended")
=============================================================================
