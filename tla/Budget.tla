-------------------------------- MODULE Budget --------------------------------
(***************************************************************************)
(* One tenant's hard budget (crates/urouter-gateway/src/budget.rs), the     *)
(* request identities it is keyed by (idempotency.rs, resolve_request_id)   *)
(* and the chat completion calls that reserve, settle and release it        *)
(* (admit_request, record_routed_failure, settle_budget_usage in main.rs).  *)
(* The Redis repository's scripts and the memory repository's methods, each *)
(* under its lock, are one atomic step; a call's steps interleave with      *)
(* those of other calls, and nothing stops two calls with the same          *)
(* Idempotency-Key from running at once under the same request id.          *)
(* Amounts are small numbers: u64 saturation is not modelled.               *)
(***************************************************************************)
EXTENDS Totals

CONSTANTS
    Call,        \* client calls; a call's own candidate request id is the call
    Key,         \* Idempotency-Key values
    Body,        \* request bodies, as far as their canonical hash tells them apart
    NoClaim,     \* a key without a live claim
    NoId,
    Backends,    \* which repositories the gateway may run on
    Limits,      \* what limit_nano_usd may be; 0 is unlimited
    Cost,        \* worst-case cost of one attempt, as estimated
    MaxAttempts, \* attempts the routing plan allows
    FinalCosts,  \* what a successful attempt may be billed
    MaxPeriod    \* bound: the last budget period

ASSUME ConstantsAssumption ==
    /\ NoId \notin Call
    /\ NoClaim \notin [id : Call, body : Body]
    /\ Backends \subseteq {"memory", "redis"}
    /\ Limits \subseteq Nat
    /\ Cost \in Nat
    /\ MaxAttempts \in Nat \ {0}
    /\ FinalCosts \subseteq 0..Cost
    /\ MaxPeriod \in Nat

VARIABLES
    backend,     \* the repository behind the gateway's budget
    limit,       \* limit_nano_usd
    claims,      \* the request id and the body each idempotency key is claimed with
    period,      \* current_period
    ledger,      \* totals and reservations of each period
    call         \* where each call is, and the permit it holds

vars == <<backend, limit, claims, period, ledger, call>>

Period == 0..MaxPeriod

-----------------------------------------------------------------------------
(* The ledger of one period: the total, and each request id's entry, -1 when *)
(* it has none.                                                              *)

Ledger == [total : Nat, entry : [Call -> Nat \cup {-1}]]

EmptyLedger == [total |-> 0, entry |-> [id \in Call |-> -1]]

Holds(l, id) == l.entry[id] >= 0

\* saturating_sub of the memory repository, INCRBY/DECRBY of the Redis one.
Minus(a, b) == IF backend = "memory" /\ b > a THEN 0 ELSE a - b

\* estimate_request_cost: every attempt of the plan at its worst.
Estimate == Cost * MaxAttempts

\* BUG (for a mutant): the estimate is not counted against the limit.
FitsTotalOnly(l) == l.total <= limit

\* The limit leaves room for the estimate.
Fits(l) == l.total + Estimate <= limit

\* reserve, for a request id that has no entry yet.
Reserved(l, id) == [l EXCEPT !.total = @ + Estimate, !.entry[id] = Estimate]

\* BUG (for a mutant): the actual cost is added to the reservation.
SettledOnTop(l, id, actual) ==
    IF Holds(l, id) THEN [l EXCEPT !.total = @ + actual, !.entry[id] = actual] ELSE l

\* settle.  Without an entry the memory repository leaves one all the same,
\* which no total counts.
Settled(l, id, actual) ==
    CASE Holds(l, id) -> [l EXCEPT !.total = Minus(@, l.entry[id]) + actual,
                                   !.entry[id] = actual]
      [] ~Holds(l, id) /\ backend = "memory" -> [l EXCEPT !.entry[id] = actual]
      [] OTHER -> l

\* release.
Released(l, id) ==
    IF Holds(l, id)
    THEN [l EXCEPT !.total = Minus(@, l.entry[id]), !.entry[id] = -1]
    ELSE l

-----------------------------------------------------------------------------
(* A call: its request id, the permit's period, the attempts it has made and *)
(* a bound on what the providers bill for them.                              *)

Phase == {"new", "identified", "executing", "rejected", "settled", "released", "ended"}

CallState == [phase : Phase, id : Call \cup {NoId}, period : Period,
              attempts : 0..MaxAttempts, spent : Nat]

Init ==
    /\ backend \in Backends
    /\ limit \in Limits
    /\ claims = [k \in Key |-> NoClaim]
    /\ period = 0
    /\ ledger = [p \in Period |-> EmptyLedger]
    /\ call = [c \in Call |-> [phase |-> "new", id |-> NoId, period |-> 0,
                               attempts |-> 0, spent |-> 0]]

\* resolve_request_id without an Idempotency-Key: the call's own id.
Identify(c) ==
    /\ call[c].phase = "new"
    /\ call' = [call EXCEPT ![c].phase = "identified", ![c].id = c]
    /\ UNCHANGED <<backend, limit, claims, period, ledger>>

\* resolve_request_id with one: the id its key was first claimed with, unless
\* that was for another body.
Claim(c, k, body) ==
    /\ call[c].phase = "new"
    /\ \/ /\ claims[k] = NoClaim
          /\ claims' = [claims EXCEPT ![k] = [id |-> c, body |-> body]]
          /\ call' = [call EXCEPT ![c].phase = "identified", ![c].id = c]
       \/ /\ claims[k] # NoClaim /\ claims[k].body = body
          /\ call' = [call EXCEPT ![c].phase = "identified", ![c].id = claims[k].id]
          /\ UNCHANGED claims
       \/ /\ claims[k] # NoClaim /\ claims[k].body # body
          /\ call' = [call EXCEPT ![c].phase = "rejected"]
          /\ UNCHANGED claims
    /\ UNCHANGED <<backend, limit, period, ledger>>

\* A claim expires, or the memory repository evicts it at its capacity.
Forget(k) ==
    /\ claims[k] # NoClaim
    /\ claims' = [claims EXCEPT ![k] = NoClaim]
    /\ UNCHANGED <<backend, limit, period, ledger, call>>

\* reserve: an existing entry of the request id is granted as it is.
Reserve(c) ==
    /\ call[c].phase = "identified"
    /\ LET l == ledger[period]
           id == call[c].id
       IN  \/ /\ limit = 0 \/ Holds(l, id)
              /\ call' = [call EXCEPT ![c].phase = "executing", ![c].period = period]
              /\ UNCHANGED ledger
           \/ /\ limit > 0 /\ ~Holds(l, id) /\ Fits(l)
              /\ call' = [call EXCEPT ![c].phase = "executing", ![c].period = period]
              /\ ledger' = [ledger EXCEPT ![period] = Reserved(@, id)]
           \/ /\ limit > 0 /\ ~Holds(l, id) /\ ~Fits(l)
              /\ call' = [call EXCEPT ![c].phase = "rejected"]
              /\ UNCHANGED ledger
    /\ UNCHANGED <<backend, limit, claims, period>>

\* The next attempt is sent to a provider.
Attempt(c) ==
    /\ call[c].phase = "executing"
    /\ call[c].attempts < MaxAttempts
    /\ call' = [call EXCEPT ![c].attempts = @ + 1, ![c].spent = @ + Cost]
    /\ UNCHANGED <<backend, limit, claims, period, ledger>>

\* settle_budget_usage: the last attempt's cost, and every failed one's at its worst.
Succeed(c, cost) ==
    LET actual == cost + Cost * (call[c].attempts - 1)
        p == call[c].period
    IN  /\ call[c].phase = "executing"
        /\ call[c].attempts > 0
        /\ call' = [call EXCEPT ![c].phase = "settled", ![c].spent = actual]
        /\ ledger' = IF limit = 0 THEN ledger
                     ELSE [ledger EXCEPT ![p] = Settled(@, call[c].id, actual)]
        /\ UNCHANGED <<backend, limit, claims, period>>

\* record_routed_failure's condition on releasing.
NeverSent(c) == call[c].attempts = 0

\* The quota refuses the call, or its plan fails before any attempt: release.
GiveBack(c) ==
    LET p == call[c].period
    IN  /\ call[c].phase = "executing"
        /\ NeverSent(c)
        /\ call' = [call EXCEPT ![c].phase = "released"]
        /\ ledger' = IF limit = 0 THEN ledger
                     ELSE [ledger EXCEPT ![p] = Released(@, call[c].id)]
        /\ UNCHANGED <<backend, limit, claims, period>>

\* The call ends with its reservation in place: attempts failed, the response
\* has no usage, the stream broke, the client or the process went away, or the
\* repository failed to settle.  A BudgetLease has no Drop.
End(c) ==
    /\ call[c].phase = "executing"
    /\ call' = [call EXCEPT ![c].phase = "ended"]
    /\ UNCHANGED <<backend, limit, claims, period, ledger>>

NextPeriod ==
    /\ period < MaxPeriod
    /\ period' = period + 1
    /\ UNCHANGED <<backend, limit, claims, ledger, call>>

\* Redis expires the keys of a period two periods after their last reservation.
Expire(p) ==
    /\ backend = "redis"
    /\ p + 2 <= period
    /\ ledger' = [ledger EXCEPT ![p] = EmptyLedger]
    /\ UNCHANGED <<backend, limit, claims, period, call>>

Next ==
    \/ \E c \in Call : Identify(c) \/ Reserve(c) \/ Attempt(c) \/ GiveBack(c) \/ End(c)
    \/ \E c \in Call, cost \in FinalCosts : Succeed(c, cost)
    \/ \E c \in Call, k \in Key, body \in Body : Claim(c, k, body)
    \/ \E k \in Key : Forget(k)
    \/ NextPeriod
    \/ \E p \in Period : Expire(p)

Spec == Init /\ [][Next]_vars

-----------------------------------------------------------------------------
(* Properties.                                                               *)

Granted(c) == call[c].phase \in {"executing", "settled", "released", "ended"}

\* The calls that were granted the entry of request id in period p.
Holders(p, id) == {c \in Call : Granted(c) /\ call[c].id = id /\ call[c].period = p}

Alone(p, id) == Cardinality(Holders(p, id)) <= 1

Live(p) == period < p + 2 \/ backend = "memory"

\* Every variable has its type; in particular no sequence of settlements and
\* releases takes a total below zero.
TypeOK ==
    /\ backend \in {"memory", "redis"}
    /\ limit \in Nat
    /\ claims \in [Key -> [id : Call, body : Body] \cup {NoClaim}]
    /\ period \in Period
    /\ ledger \in [Period -> Ledger]
    /\ call \in [Call -> CallState]

\* The total a tenant is admitted against is the sum of the entries that make it
\* up: on Redis whatever calls do, in memory as long as no two calls share a
\* request id.
LedgerBalanced ==
    \A p \in Period :
        (backend = "redis" \/ \A id \in Call : Alone(p, id)) =>
            ledger[p].total = TotalOf(ledger[p].entry)

\* "never bypass the hard budget" (docs/redis-consistency-matrix.md:9): with no
\* attempt billed above its estimate and no request id shared, what a period is
\* charged never exceeds the limit, at any interleaving of the calls.
HardBudget ==
    \A p \in Period :
        (limit > 0 /\ \A id \in Call : Alone(p, id)) => ledger[p].total <= limit

\* "Conservative reservation remains charged until settlement or period expiry"
\* (docs/redis-consistency-matrix.md:9): a call that has been sent upstream and is
\* not settled is still charged.  The code differs when two calls share an id.
ChargedUntilSettled ==
    \A c \in Call :
        (limit > 0 /\ call[c].phase = "executing" /\ call[c].attempts > 0 /\ Live(call[c].period))
            => Holds(ledger[call[c].period], call[c].id)
=============================================================================
