----------------------------- MODULE TenantQuota -----------------------------
(***************************************************************************)
(* The tenant quota ledger (crates/urouter-gateway/src/quota.rs) in its two *)
(* repositories, MemoryQuotaRepository and RedisQuotaRepository, and the    *)
(* QuotaLease through which a call uses it (acquire_tenant_quota and        *)
(* settle_quota_usage in main.rs).  A reservation, a settlement and a       *)
(* release are one step each, under the mutex or as one Redis command.      *)
(* Running counts and totals are kept next to the entries they count, as in *)
(* the code; that they agree is what the refinement of QuotaPromise checks. *)
(***************************************************************************)
EXTENDS Totals, Functions

CONSTANTS
    Tenant, Call, TenantOf,
    Backends,    \* "memory", "redis"
    LimitSets,   \* the limits a gateway may be configured with
    Estimates,   \* tokens a call may be reserved for
    Actual,      \* tokens it may turn out to use
    Minute,      \* REQUEST_WINDOW_MS
    Lease,       \* lease_ttl
    MaxTime      \* bound: the clock

ASSUME ConstantsAssumption ==
    /\ TenantOf \in [Call -> Tenant]
    /\ Backends \subseteq {"memory", "redis"}
    /\ LimitSets \subseteq [in_flight : Nat, requests : Nat, tokens : Nat]
    /\ Estimates \subseteq Nat \ {0} /\ Actual \subseteq Nat
    /\ Minute \in Nat \ {0} /\ Lease \in Nat \ {0} /\ MaxTime \in Nat

VARIABLES
    backend, limits, now,
    ticket,    \* the last token given out: of the process, or KEYS[3] of a tenant
    permits,   \* per tenant: token -> when its slot is given up (memory: never)
    requests,  \* per tenant: token -> when it was granted
    count,     \* per tenant: MemoryQuotaState.request_counts
    charges,   \* per tenant: token -> tokens and their date
    total,     \* per tenant: token_totals, KEYS[6]
    live,      \* per tenant: until when Redis keeps each key
    call,      \* the calls and their permits
    grants, refused, unique   \* history: what QuotaPromise is about

ledger == <<permits, requests, count, charges, total, live>>
history == <<grants, refused, unique>>
vars == <<backend, limits, now, ticket, ledger, call, history>>

Never == MaxTime + Lease + 1

Empty == [t \in {} |-> 0]

MaxOf(a, b) == IF a > b THEN a ELSE b

Unlimited == limits.in_flight = 0 /\ limits.requests = 0 /\ limits.tokens = 0

\* QuotaPermit; token 0 is the empty token of a gateway without limits.
NewCall == [phase |-> "new", token |-> 0, counted |-> FALSE]

Ended == [NewCall EXCEPT !.phase = "ended"]

NewGrant == [granted |-> FALSE, at |-> 0, dated |-> 0, tokens |-> 0, open |-> FALSE]

Add(f, x, v) == [y \in DOMAIN f \cup {x} |-> IF y = x THEN v ELSE f[y]]

Amounts(t, tokens) == TotalOf([k \in tokens |-> charges[t][k].amount])

-----------------------------------------------------------------------------
(* Pruning.  Memory prunes the requests and tokens of every tenant, the      *)
(* script those of the tenant it is called for, and its slots.               *)

StaleSlots(t) == {k \in DOMAIN permits[t] : permits[t][k] <= now}

StaleRequests(t) == {k \in DOMAIN requests[t] : requests[t][k] + Minute <= now}

\* BUG (for a mutant): a charge counts one instant longer than its minute.
StaleChargesLate(t) == {k \in DOMAIN charges[t] : charges[t][k].at + Minute < now}

StaleCharges(t) == {k \in DOMAIN charges[t] : charges[t][k].at + Minute <= now}

Pruned(t, u) == backend = "memory" \/ t = u

\* The state of the ledger once a reservation for tenant u has pruned it.
PrunedPermits(t, u) ==
    IF t = u THEN Restrict(permits[t], DOMAIN permits[t] \ StaleSlots(t)) ELSE permits[t]

\* prune_requests.
PrunedRequests(t, u) ==
    IF Pruned(t, u) THEN Restrict(requests[t], DOMAIN requests[t] \ StaleRequests(t))
    ELSE requests[t]

PrunedCount(t, u) ==
    IF Pruned(t, u) THEN MaxOf(0, count[t] - Cardinality(StaleRequests(t))) ELSE count[t]

\* prune_tokens.
PrunedCharges(t, u) ==
    IF Pruned(t, u) THEN Restrict(charges[t], DOMAIN charges[t] \ StaleCharges(t)) ELSE charges[t]

PrunedTotal(t, u) ==
    IF Pruned(t, u) THEN MaxOf(0, total[t] - Amounts(t, StaleCharges(t))) ELSE total[t]

Prune(u) ==
    /\ permits' = [t \in Tenant |-> PrunedPermits(t, u)]
    /\ requests' = [t \in Tenant |-> PrunedRequests(t, u)]
    /\ count' = [t \in Tenant |-> PrunedCount(t, u)]
    /\ charges' = [t \in Tenant |-> PrunedCharges(t, u)]
    /\ total' = [t \in Tenant |-> PrunedTotal(t, u)]

\* What a reservation reads: the count of requests kept by the process, or ZCARD.
RequestCount(t) ==
    IF backend = "memory" THEN PrunedCount(t, t) ELSE Cardinality(DOMAIN PrunedRequests(t, t))

\* BUG (for a mutant): the last request of the minute is not counted.
RejectionOneMore(t, estimate) ==
    CASE limits.in_flight > 0 /\ Cardinality(DOMAIN PrunedPermits(t, t)) >= limits.in_flight
            -> "in_flight"
      [] limits.requests > 0 /\ RequestCount(t) > limits.requests -> "requests_per_minute"
      [] limits.tokens > 0 /\ PrunedTotal(t, t) + estimate > limits.tokens -> "tokens_per_minute"
      [] OTHER -> "none"

\* The first limit the reservation breaks.
Rejection(t, estimate) ==
    CASE limits.in_flight > 0 /\ Cardinality(DOMAIN PrunedPermits(t, t)) >= limits.in_flight
            -> "in_flight"
      [] limits.requests > 0 /\ RequestCount(t) >= limits.requests -> "requests_per_minute"
      [] limits.tokens > 0 /\ PrunedTotal(t, t) + estimate > limits.tokens -> "tokens_per_minute"
      [] OTHER -> "none"

-----------------------------------------------------------------------------

Init ==
    /\ backend \in Backends
    /\ limits \in LimitSets
    /\ now = 0
    /\ ticket = [t \in Tenant |-> 0]
    /\ permits = [t \in Tenant |-> Empty]
    /\ requests = [t \in Tenant |-> Empty]
    /\ count = [t \in Tenant |-> 0]
    /\ charges = [t \in Tenant |-> Empty]
    /\ total = [t \in Tenant |-> 0]
    /\ live = [t \in Tenant |-> [slots |-> 0, requests |-> 0, charges |-> 0, sequence |-> 0]]
    /\ call = [c \in Call |-> NewCall]
    /\ grants = [c \in Call |-> NewGrant]
    /\ refused = [c \in Call |-> "none"]
    /\ unique = TRUE

\* BUG (for a mutant): the ticket is read and not advanced.
NextTicketsStuck(t) == [u \in Tenant |-> 1]

\* The process's ticket is one for all tenants, the script's is the tenant's.
NextTickets(t) ==
    IF backend = "memory" THEN [u \in Tenant |-> ticket[u] + 1] ELSE [ticket EXCEPT ![t] = @ + 1]

\* PEXPIRE of the keys a reservation writes.
Kept(t) ==
    IF backend = "memory" THEN live
    ELSE [live EXCEPT ![t] =
            [slots |-> IF limits.in_flight > 0 THEN now + 2 * Lease ELSE @.slots,
             requests |-> IF limits.requests > 0 THEN now + 2 * Minute ELSE @.requests,
             charges |-> IF limits.tokens > 0 THEN now + 2 * Minute ELSE @.charges,
             sequence |-> now + 2 * MaxOf(Lease, Minute)]]

\* The rest of reserve, for a permit with this token.
Write(t, token, estimate) ==
    /\ permits' = [u \in Tenant |->
           IF u = t /\ limits.in_flight > 0
           THEN Add(PrunedPermits(t, t), token, IF backend = "redis" THEN now + Lease ELSE Never)
           ELSE PrunedPermits(u, t)]
    /\ requests' = [u \in Tenant |->
           IF u = t /\ limits.requests > 0 THEN Add(PrunedRequests(t, t), token, now)
           ELSE PrunedRequests(u, t)]
    /\ count' = [u \in Tenant |->
           IF u = t /\ limits.requests > 0 /\ backend = "memory" THEN PrunedCount(t, t) + 1
           ELSE PrunedCount(u, t)]
    /\ charges' = [u \in Tenant |->
           IF u = t /\ limits.tokens > 0
           THEN Add(PrunedCharges(t, t), token, [at |-> now, amount |-> estimate])
           ELSE PrunedCharges(u, t)]
    /\ total' = [u \in Tenant |->
           IF u = t /\ limits.tokens > 0 THEN PrunedTotal(t, t) + estimate ELSE PrunedTotal(u, t)]

\* The tokens of a tenant that a new one must differ from.
Borne(t) ==
    {call[c].token : c \in {c \in Call : TenantOf[c] = t /\ call[c].phase \in {"held", "settled"}}}
    \cup DOMAIN permits[t] \cup DOMAIN requests[t] \cup DOMAIN charges[t]

\* QuotaRepository::reserve grants; the call holds its QuotaLease, or Redis' answer
\* is lost: the call fails and nobody holds the permit.
Grant(c, estimate) ==
    LET t == TenantOf[c]
        token == NextTickets(t)[t]
    IN  /\ call[c].phase = "new" /\ ~Unlimited
        /\ Rejection(t, estimate) = "none"
        /\ Write(t, token, estimate)
        /\ ticket' = NextTickets(t)
        /\ live' = Kept(t)
        /\ \E phase \in {"held"} \cup (IF backend = "redis" THEN {"ended"} ELSE {}) :
             call' = [call EXCEPT ![c] = IF phase = "ended" THEN Ended
                  ELSE [phase |-> phase, token |-> token, counted |-> limits.in_flight > 0]]
        /\ grants' = [grants EXCEPT ![c] = [granted |-> TRUE, at |-> now, dated |-> now,
                                            tokens |-> estimate, open |-> TRUE]]
        /\ unique' = (unique /\ token \notin Borne(t))
        /\ UNCHANGED <<backend, limits, now, refused>>

\* A gateway without limits grants every call the empty permit.
GrantUnlimited(c, estimate) ==
    /\ call[c].phase = "new" /\ Unlimited
    /\ call' = [call EXCEPT ![c].phase = "held"]
    /\ grants' = [grants EXCEPT ![c] = [granted |-> TRUE, at |-> now, dated |-> now,
                                        tokens |-> estimate, open |-> TRUE]]
    /\ UNCHANGED <<backend, limits, now, ticket, ledger, refused, unique>>

\* reserve rejects: acquire_tenant_quota answers 429.  What was stale is pruned.
Reject(c, estimate) ==
    LET t == TenantOf[c]
    IN  /\ call[c].phase = "new" /\ ~Unlimited
        /\ Rejection(t, estimate) # "none"
        /\ Prune(t)
        /\ call' = [call EXCEPT ![c] = Ended]
        /\ refused' = [refused EXCEPT ![c] = Rejection(t, estimate)]
        /\ UNCHANGED <<backend, limits, now, ticket, live, grants, unique>>

\* The charge of a settled permit: the amount replaced while its minute lasts, else
\* a charge of this minute.
Resettled(t, token, actual) ==
    IF token \in DOMAIN charges[t] \ StaleCharges(t)
    THEN Add(charges[t], token, [charges[t][token] EXCEPT !.amount = actual])
    ELSE Add(charges[t], token, [at |-> now, amount |-> actual])

\* QuotaRepository::settle.  Memory prunes first; SETTLE_TOKENS prunes nothing, and
\* moves a stale charge to the present.  Without a usage, or when the call is lost, it
\* is skipped and the estimate stays.
Settle(c, actual) ==
    LET t == TenantOf[c]
        token == call[c].token
        kept(u) == IF backend = "memory" THEN DOMAIN charges[u] \ StaleCharges(u) ELSE DOMAIN charges[u]
        dropped(u) == DOMAIN charges[u] \ kept(u)
        prior == IF token \in kept(t) THEN charges[t][token].amount ELSE 0
        new == Resettled(t, token, actual)
    IN  /\ call[c].phase = "held"
        /\ call' = [call EXCEPT ![c].phase = "settled"]
        /\ grants' = [grants EXCEPT ![c].tokens = actual,
                                    ![c].dated = IF @ + Minute > now THEN @ ELSE now]
        /\ IF limits.tokens = 0
           THEN UNCHANGED <<charges, total, live>>
           ELSE /\ charges' = [u \in Tenant |->
                       IF u = t THEN Restrict(new, (kept(t) \cup {token}) \cap DOMAIN new)
                       ELSE Restrict(charges[u], kept(u))]
                /\ total' = [u \in Tenant |->
                       MaxOf(0, total[u] - Amounts(u, dropped(u)) - (IF u = t THEN prior ELSE 0))
                       + (IF u = t THEN actual ELSE 0)]
                /\ live' = IF backend = "redis" THEN [live EXCEPT ![t].charges = now + 2 * Minute]
                           ELSE live
        /\ UNCHANGED <<backend, limits, now, ticket, permits, requests, count, refused, unique>>

\* QuotaRepository::release, called by QuotaLease::release or spawned by its drop.
Release(c) ==
    /\ call[c].phase \in {"held", "settled"}
    /\ call' = [call EXCEPT ![c] = Ended]
    /\ permits' = IF call[c].counted
                  THEN [permits EXCEPT ![TenantOf[c]] = Restrict(@, DOMAIN @ \ {call[c].token})]
                  ELSE permits
    /\ grants' = [grants EXCEPT ![c].open = FALSE]
    /\ UNCHANGED <<backend, limits, now, ticket, requests, count, charges, total, live, refused, unique>>

\* The release does not reach Redis, or the gateway is gone: the slot ages out.
ReleaseLost(c) ==
    /\ backend = "redis" /\ call[c].phase \in {"held", "settled"}
    /\ call' = [call EXCEPT ![c] = Ended]
    /\ UNCHANGED <<backend, limits, now, ticket, ledger, history>>

\* Time passes; Redis drops the keys whose time has come, the sequence too.
Tick ==
    LET gone(t, key) == backend = "redis" /\ live[t][key] = now + 1
    IN  /\ now < MaxTime
        /\ now' = now + 1
        /\ permits' = [t \in Tenant |-> IF gone(t, "slots") THEN Empty ELSE permits[t]]
        /\ requests' = [t \in Tenant |-> IF gone(t, "requests") THEN Empty ELSE requests[t]]
        /\ charges' = [t \in Tenant |-> IF gone(t, "charges") THEN Empty ELSE charges[t]]
        /\ total' = [t \in Tenant |-> IF gone(t, "charges") THEN 0 ELSE total[t]]
        /\ ticket' = [t \in Tenant |-> IF gone(t, "sequence") THEN 0 ELSE ticket[t]]
        /\ UNCHANGED <<backend, limits, count, live, call, history>>

Next ==
    \/ \E c \in Call, estimate \in Estimates :
          Grant(c, estimate) \/ GrantUnlimited(c, estimate) \/ Reject(c, estimate)
    \/ \E c \in Call, actual \in Actual : Settle(c, actual)
    \/ \E c \in Call : Release(c) \/ ReleaseLost(c)
    \/ Tick

Spec == Init /\ [][Next]_vars

-----------------------------------------------------------------------------
(* Properties.                                                               *)

Promise == INSTANCE QuotaPromise WITH expiring <- backend = "redis"

\* Both repositories keep the promise: a call is admitted, or refused and for which
\* limit, exactly as the calls in flight, the calls of the last minute and their
\* tokens have it, whatever was pruned, settled late, released late or never; as
\* long as no call bears the token of another.
KeepsPromise == Promise!Spec

\* With the memory repository tokens are told apart for ever; with Redis until the
\* sequence of a tenant expires under a call that outlives it (twice the longer of
\* lease and minute after the tenant's last reservation).
TokensToldApart ==
    unique \/ /\ backend = "redis"
              /\ now >= 2 * MaxOf(Lease, Minute)

\* The calls of a tenant are over, and so are this time since its last charge and
\* the leases of its slots.
Quiet(t, wait) ==
    \A c \in Call : TenantOf[c] = t =>
        /\ call[c].phase \in {"new", "ended"}
        /\ grants[c].granted => /\ now >= grants[c].dated + wait
                                /\ now >= grants[c].at + MaxOf(Lease, Minute)

\* No call, nor its loss, leaves its tenant charged for good: once a minute has
\* passed since the last charge, and the lease of a lost slot is over, a call with
\* an estimate within the limit is not refused.  Where two calls have shared a token
\* the total counts both their charges, and is only right again when Redis gives up
\* the keys.
QuotaRecovers ==
    \A t \in Tenant : Quiet(t, IF unique THEN Minute ELSE 3 * Minute) =>
       \A estimate \in Estimates :
          ~Unlimited /\ (limits.tokens > 0 => estimate <= limits.tokens)
             => Rejection(t, estimate) = "none"
=============================================================================
