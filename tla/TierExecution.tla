---------------------------- MODULE TierExecution ----------------------------
(***************************************************************************)
(* One gateway process's CapacityManager (crates/urouter-gateway/src/       *)
(* capacity.rs) and the requests that run attempts under its leases:        *)
(* execute_tier's retry loop, and acquire_execution_lease's loop inside it  *)
(* (main.rs).  A request reads a snapshot of its candidates' health, awaits *)
(* the shared circuits, and only then selects: the lock is released in      *)
(* between, and the selection is planned on the snapshot.                   *)
(*                                                                         *)
(* Instants are modelled by the time left until them, as in SharedCircuit.  *)
(* The shared circuits are left open here: with a Redis repository their    *)
(* snapshots and refusals are arbitrary, with LocalCircuitRepository there  *)
(* are none.  Which of the two a process runs with is fixed when it starts. *)
(***************************************************************************)
EXTENDS Integers, FiniteSets

CONSTANTS
    Request,     \* requests, each executing one tier
    Deployment,
    Candidates,  \* the candidate sets filter_deployments may leave a request
    MaxRetries,  \* RetryPolicy.max_retries
    Cooldown, Window, Threshold,   \* CooldownPolicy
    SharedGates, \* what shared_gate may be
    NoDeployment

ASSUME ConstantsAssumption ==
    /\ Candidates \subseteq (SUBSET Deployment) \ {{}}
    /\ MaxRetries \in Nat
    /\ Cooldown \in Nat \ {0}
    /\ Window \in Nat
    /\ Threshold \in Nat
    /\ SharedGates \subseteq BOOLEAN
    /\ NoDeployment \notin Deployment

VARIABLES
    shared_gate, \* TRUE: RedisCircuitRepository, FALSE: LocalCircuitRepository
    health,      \* CapacityManager.health
    request      \* where each request is in execute_tier and after it

vars == <<shared_gate, health, request>>

-----------------------------------------------------------------------------
(* DeploymentHealth.  events: the rolling window, each event with the time   *)
(* it stays in it; cooldown: -1 for None, else the time left, 0 once it is   *)
(* over; the metrics of the other pickers do not matter here.                *)

Event == [by : Request, attempt : 0..MaxRetries, left : 0..Window, ok : BOOLEAN]

Health == [events : SUBSET Event, cooldown : -1..Cooldown,
           half_open_probe : BOOLEAN, in_flight : Nat]

NewHealth == [events |-> {}, cooldown |-> -1, half_open_probe |-> FALSE, in_flight |-> 0]

Kind == {"transport", "timeout", "rate_limited", "server_error",
         "provider_unavailable", "unauthorized", "not_found", "bad_request"}

\* UpstreamErrorKind::retryable.
Retryable == {"transport", "timeout", "rate_limited", "server_error", "provider_unavailable"}

Availability == {"closed", "open", "half_open", "probe_in_flight"}

\* local_circuit_availability.
CircuitOf(h) ==
    CASE h.cooldown = -1                      -> "closed"
      [] h.cooldown > 0                       -> "open"
      [] h.cooldown = 0 /\ h.half_open_probe  -> "probe_in_flight"
      [] OTHER                                -> "half_open"

\* combined_capacity_snapshot: what the shared circuits turn a candidate into.
Overlay(local, shared) ==
    CASE shared = "open"                             -> "open"
      [] shared = "half_open" /\ local = "closed"    -> "half_open"
      [] OTHER                                       -> local

SharedStates == IF shared_gate THEN {"closed", "open", "half_open"} ELSE {"closed"}

-----------------------------------------------------------------------------
(* plan_capacity_lease_with_picker and cooldown_directive.                   *)

\* The candidates a selection may land on.  Which one is for order, cache
\* affinity, picker, weights and ticket to decide.
Available(r) == {d \in r.tier \ r.excluded : r.snapshot[d] \in {"closed", "half_open"}}

Successes(h) == Cardinality({e \in h.events : e.ok})
Failures(h) == Cardinality({e \in h.events : ~e.ok})

\* BUG (for a mutant): a tier of one candidate is opened like any other.
OpensAnyTier(h, kind, tierSize) ==
    LET failures == Failures(h) + 1
        ratio == (failures * 1000) \div (Successes(h) + failures)
    IN  kind = "rate_limited" \/ ratio >= Threshold

\* cooldown_directive answers OpenCircuit.
Opens(h, kind, tierSize) ==
    LET failures == Failures(h) + 1
        ratio == (failures * 1000) \div (Successes(h) + failures)
    IN  tierSize > 1 /\ (kind = "rate_limited" \/ ratio >= Threshold)

Less(n) == IF n = 0 THEN 0 ELSE n - 1     \* saturating_sub(1)

\* BUG (for a mutant): a lease that is dropped is not counted back.
GivenUpNotCounted(h) == [h EXCEPT !.half_open_probe = FALSE]

\* BUG (for a mutant): a lease that is dropped keeps the probe it reserved.
GivenUpKeepingProbe(h) == [h EXCEPT !.in_flight = Less(@)]

\* CapacityManager::abandon.
GivenUp(h) == [h EXCEPT !.in_flight = Less(@), !.half_open_probe = FALSE]

Outcome(r, ok) == [by |-> r, attempt |-> request[r].retries, left |-> Window, ok |-> ok]

\* CapacityManager::finish with Ok.
Succeeded(h, r) ==
    [h EXCEPT !.in_flight = Less(@), !.half_open_probe = FALSE, !.cooldown = -1,
              !.events = @ \cup {Outcome(r, TRUE)}]

\* BUG (for a mutant): the half-open circuit is not cleared of its probe on failure.
FailedKeepingProbe(h, r, kind, tierSize) ==
    [h EXCEPT !.in_flight = Less(@),
              !.cooldown = IF Opens(h, kind, tierSize) THEN Cooldown ELSE @,
              !.events = @ \cup {Outcome(r, FALSE)}]

\* CapacityManager::finish with Err(kind); BadRequest says nothing of health.
Failed(h, r, kind, tierSize) ==
    LET e == [h EXCEPT !.in_flight = Less(@), !.half_open_probe = FALSE]
    IN  IF kind = "bad_request" THEN e
        ELSE [e EXCEPT !.cooldown = IF Opens(h, kind, tierSize) THEN Cooldown ELSE @,
                       !.events = @ \cup {Outcome(r, FALSE)}]

-----------------------------------------------------------------------------
(* A request: before its snapshot, between snapshot and selection, selected  *)
(* but not yet through the shared gate, executing under the lease, or ended. *)

Phase == {"start", "snapped", "selected", "executing", "exhausted", "done"}

Snapshots == UNION {[c -> Availability] : c \in Candidates \cup {{}}}

RequestState ==
    [phase : Phase, tier : Candidates, excluded : SUBSET Deployment,
     snapshot : Snapshots, deployment : Deployment \cup {NoDeployment},
     probe : BOOLEAN,      \* the plan reserved the half-open probe
     retries : 0..MaxRetries]

EmptySnapshot == [d \in {} |-> "closed"]

Holds(r) == request[r].phase \in {"selected", "executing"}

LeasesOn(d) == {r \in Request : Holds(r) /\ request[r].deployment = d}

\* The state of a request that no longer holds a lease.
Released(r, phase, excluded) ==
    [request[r] EXCEPT !.phase = phase, !.excluded = excluded, !.snapshot = EmptySnapshot,
                       !.deployment = NoDeployment, !.probe = FALSE]

\* What the loops exclude from then on.
Without(r, d) == request[r].excluded \cup {d}

\* plan_retry and apply_retry_directive: the same deployment again if there is
\* no other and the provider did not ask for a longer wait than the policy's.
AfterFailure(r, kind, longHint) ==
    LET d == request[r].deployment
        lone == Cardinality(request[r].tier) = 1
        stops == \/ kind \notin Retryable
                 \/ request[r].retries = MaxRetries
                 \/ lone /\ longHint
    IN  IF stops THEN Released(r, "done", {})
        ELSE [Released(r, "start", IF lone THEN {} ELSE Without(r, d))
                 EXCEPT !.retries = @ + 1]

Init ==
    /\ shared_gate \in SharedGates
    /\ health = [d \in Deployment |-> NewHealth]
    /\ request \in [Request -> [phase : {"start"}, tier : Candidates, excluded : {{}},
                                snapshot : {EmptySnapshot}, deployment : {NoDeployment},
                                probe : {FALSE}, retries : {0}]]

\* combined_capacity_snapshot: the local health, under the lock, then the
\* shared circuits, each awaited.
Snapshot(r) ==
    /\ request[r].phase = "start"
    /\ \E shared \in [request[r].tier -> SharedStates] :
         request' = [request EXCEPT
             ![r].phase = "snapped",
             ![r].snapshot = [d \in request[r].tier |->
                                 Overlay(CircuitOf(health[d]), shared[d])]]
    /\ UNCHANGED <<shared_gate, health>>

\* select_from_snapshot: the plan comes from the snapshot, the reservation and
\* the count go into the health as it is now.
Select(r) ==
    /\ request[r].phase = "snapped"
    /\ \E d \in Available(request[r]) :
         LET probe == request[r].snapshot[d] = "half_open"
         IN  /\ health' = [health EXCEPT ![d].in_flight = @ + 1,
                                         ![d].half_open_probe = @ \/ probe]
             /\ request' = [request EXCEPT ![r].phase = "selected", ![r].deployment = d,
                                           ![r].probe = probe,
                                           ![r].snapshot = EmptySnapshot]
    /\ UNCHANGED shared_gate

\* CapacityError::Exhausted: the tier has no candidate left for this request.
Exhaust(r) ==
    /\ request[r].phase = "snapped"
    /\ Available(request[r]) = {}
    /\ request' = [request EXCEPT ![r] = Released(r, "exhausted", request[r].excluded)]
    /\ UNCHANGED <<shared_gate, health>>

\* The shared gate grants the permit: the request executes under the lease.
Admit(r) ==
    /\ request[r].phase = "selected"
    /\ request' = [request EXCEPT ![r].phase = "executing"]
    /\ UNCHANGED <<shared_gate, health>>

\* The shared gate, or the scoped quota after it, refuses: the lease is dropped,
\* the deployment excluded, and the loop takes a new snapshot.
Refuse(r) ==
    /\ request[r].phase = "selected"
    /\ LET d == request[r].deployment
       IN  /\ health' = [health EXCEPT ![d] = GivenUp(@)]
           /\ request' = [request EXCEPT ![r] = Released(r, "start", Without(r, d))]
    /\ UNCHANGED shared_gate

\* CapacityLease::complete with Ok: the response body was read to its end.
Succeed(r) ==
    /\ request[r].phase = "executing"
    /\ health' = [health EXCEPT ![request[r].deployment] = Succeeded(@, r)]
    /\ request' = [request EXCEPT ![r] = Released(r, "done", {})]
    /\ UNCHANGED shared_gate

\* The request to the upstream fails: complete with Err(kind), then the retry
\* directive.  tier_size is the number of candidates.
Fail(r, kind, longHint) ==
    /\ request[r].phase = "executing"
    /\ health' = [health EXCEPT ![request[r].deployment] =
                     Failed(@, r, kind, Cardinality(request[r].tier))]
    /\ request' = [request EXCEPT ![r] = AfterFailure(r, kind, longHint)]
    /\ UNCHANGED shared_gate

\* The upstream answers, and its body breaks off or cannot be read: complete
\* with Err, and no retry.
Break(r, kind) ==
    /\ request[r].phase = "executing"
    /\ health' = [health EXCEPT ![request[r].deployment] =
                     Failed(@, r, kind, Cardinality(request[r].tier))]
    /\ request' = [request EXCEPT ![r] = Released(r, "done", {})]
    /\ UNCHANGED shared_gate

\* CapacityLease::drop: the client went away, or an error path returned early,
\* on either side of the shared gate.
Drop(r) ==
    /\ Holds(r)
    /\ health' = [health EXCEPT ![request[r].deployment] = GivenUp(@)]
    /\ request' = [request EXCEPT ![r] = Released(r, "done", {})]
    /\ UNCHANGED shared_gate

\* The clock advances: cooldowns run down, events leave the window.
Tick ==
    /\ health' = [d \in Deployment |->
         [health[d] EXCEPT
             !.cooldown = IF @ > 0 THEN @ - 1 ELSE @,
             !.events = {[e EXCEPT !.left = @ - 1] : e \in {f \in @ : f.left > 0}}]]
    /\ UNCHANGED <<shared_gate, request>>

Next ==
    \/ \E r \in Request : \/ Snapshot(r) \/ Select(r) \/ Exhaust(r) \/ Admit(r) \/ Refuse(r)
                          \/ Succeed(r) \/ Drop(r)
    \/ \E r \in Request, kind \in Kind, longHint \in BOOLEAN : Fail(r, kind, longHint)
    \/ \E r \in Request, kind \in {"transport", "server_error"} : Break(r, kind)
    \/ Tick

\* Every attempt ends: reqwest's per-request timeout bounds it, headers and body
\* (main.rs:6340), and a lease that is not completed is dropped.
Ends(r) == \/ Succeed(r)
           \/ Drop(r)
           \/ \E kind \in Kind, longHint \in BOOLEAN : Fail(r, kind, longHint)

Fairness ==
    /\ WF_vars(Tick)
    /\ \A r \in Request : WF_vars(Ends(r)) /\ WF_vars(Snapshot(r))
                          /\ WF_vars(Select(r) \/ Exhaust(r)) /\ WF_vars(Admit(r) \/ Refuse(r))

Spec == Init /\ [][Next]_vars /\ Fairness

-----------------------------------------------------------------------------
(* Properties.                                                               *)

\* Every variable has its type.
TypeOK ==
    /\ shared_gate \in BOOLEAN
    /\ health \in [Deployment -> Health]
    /\ request \in [Request -> RequestState]

\* in_flight is the number of leases out on the deployment: no path through the
\* lease's life (complete, drop, refusal by the shared gate) counts one twice or
\* forgets one, so the least-loaded picker and GET /v1/tiers see the real load.
InFlightExact ==
    \A d \in Deployment : health[d].in_flight = Cardinality(LeasesOn(d))

\* A deployment is kept out as "probe in flight" only while some request holds a
\* lease on it, so that the end of that lease can let it back in.
ProbeFlagHasLease ==
    \A d \in Deployment : health[d].half_open_probe => LeasesOn(d) # {}

\* A deployment whose circuit tripped becomes selectable again, whatever the
\* requests that were on it do.
TrippedRecovers ==
    \A d \in Deployment :
        health[d].cooldown >= 0 ~> CircuitOf(health[d]) \in {"closed", "half_open"}

\* "A single-deployment tier is not opened by the circuit breaker, so a transient
\* failure cannot permanently remove its only route" (docs/gateway-m0.md:222): on
\* local circuits, a request that was refused nothing is exhausted only if its
\* candidates also serve in a larger set, from which they can be opened.
LoneDeploymentStaysRoutable ==
    \A r \in Request :
        (/\ request[r].phase = "exhausted"
         /\ request[r].excluded = {}
         /\ ~shared_gate)
          => \E c \in Candidates : c \cap request[r].tier # {} /\ Cardinality(c) > 1

\* "After cooldown, one request probes the deployment; concurrent requests use
\* another eligible deployment" (docs/gateway-m0.md:226): at most one of the
\* leases out on a deployment reserved its half-open probe.
SingleHalfOpenProbe ==
    \A d \in Deployment : Cardinality({r \in LeasesOn(d) : request[r].probe}) <= 1
=============================================================================
