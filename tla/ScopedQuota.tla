------------------------------ MODULE ScopedQuota ------------------------------
(***************************************************************************)
(* The multi-scope quota ledger (scoped_quota.rs, and plan_quota_charges    *)
(* and evaluate_quota_plan of urouter-contracts/quota.rs), as the tier loop *)
(* uses it for each attempt: reserve_scoped_quota, the settlement and the   *)
(* release or drop of ScopedQuotaLease in main.rs.                          *)
(*                                                                         *)
(* A counter is one configured limit of one scope; an attempt's plan is the *)
(* set of counters its deployment occupies.  A reservation is one step of   *)
(* the ledger, under the mutex or as a Redis script.                        *)
(***************************************************************************)
EXTENDS Integers, FiniteSets, Functions, Totals

CONSTANTS
    Gateway,
    Local,        \* the gateway whose ledger is modelled, in memory mode
    Attempt,
    Counter,
    Window,       \* the counters' windows
    Tokens,       \* the counters of dimension tokens; the others count attempts
    Limit,
    Plans,        \* what deployments occupy
    Backends,
    Estimate,     \* tokens a request is reserved for
    Actual,       \* tokens it may turn out to use
    Lease, Minute, Day,  \* the lease's time to live and the windows' lengths
    MaxTime,      \* bound: the clock
    MaxRestarts   \* bound: restarts of gateways

ASSUME ConstantsAssumption ==
    /\ Local \in Gateway
    /\ Window \in [Counter -> {"in_flight", "minute", "day"}]
    /\ Tokens \subseteq {c \in Counter : Window[c] # "in_flight"}
    /\ Limit \in [Counter -> Nat \ {0}]
    /\ Plans \subseteq (SUBSET Counter) \ {{}} /\ \A plan \in Plans : IsFiniteSet(plan)
    /\ Backends \subseteq {"memory", "redis"}
    /\ Estimate \in Nat \ {0}
    /\ Actual \subseteq Nat
    /\ {Lease, Minute, Day} \subseteq Nat \ {0}
    /\ MaxTime \in Nat /\ MaxRestarts \in Nat

VARIABLES
    backend,
    now,
    restarts,
    ticket,    \* the next ticket of each process
    entries,   \* per key: token -> what was reserved under it, and until when
    total,     \* per key: the running total
    ttl,       \* per key: when Redis drops it, 0 without one
    attempt,
    collided   \* history: a token was granted that another reservation, or permit, bore

vars == <<backend, now, restarts, ticket, entries, total, ttl, attempt, collided>>
ledger == <<entries, total, ttl>>

-----------------------------------------------------------------------------

\* counter_key: a daily counter has a key for each day.
Key == Counter \X (0..(MaxTime \div Day))

KeyOf(c, day) == <<c, IF Window[c] = "day" THEN day ELSE 0>>

Token == [ticket : Nat, charges : Nat]

NoToken == [ticket |-> 0, charges |-> 0]

Entry == [until : Nat, amount : Nat]

\* planned: the charges and the token are made, the ledger is called; held and
\* settled: the attempt has its permit.
AttemptState ==
    [phase : {"new", "planned", "held", "settled", "refused", "ended"},
     gateway : Gateway, plan : SUBSET Counter, day : Nat, token : Token,
     charged : BOOLEAN,    \* history: the ledger granted it,
     at : Nat,             \* at that time,
     spent : Nat,          \* with these tokens,
     released : BOOLEAN]   \* and took its slots back

NewAttempt == [phase |-> "new", gateway |-> Local, plan |-> {}, day |-> 0, token |-> NoToken,
               charged |-> FALSE, at |-> 0, spent |-> 0, released |-> FALSE]

\* An attempt the ledger knows nothing of, and will hear nothing of any more.
Uncharged == [NewAttempt EXCEPT !.phase = "ended"]

Amount(c) == IF c \in Tokens THEN Estimate ELSE 1

Length(c) == CASE Window[c] = "in_flight" -> Lease
               [] Window[c] = "minute"    -> Minute
               [] Window[c] = "day"       -> Day

\* BUG (for a mutant): a sliding window is two windows long.
UntilItsKeyGoes(c) == now + 2 * Length(c)

\* When a reservation made now stops counting; of a day's, when its key goes.
Until(c) == IF Window[c] = "day" THEN now + 2 * Day ELSE now + Length(c)

EmptyEntries == [t \in {} |-> 0]

AmountsOf(e, tokens) == TotalOf([t \in tokens |-> e[t].amount])

\* What pruning removes from a key: the members of a sliding window and of a set
\* of slots whose time has come.
Stale(k) ==
    {t \in DOMAIN entries[k] : Window[k[1]] # "day" /\ entries[k][t].until <= now}

\* The total of a key once it is pruned; slots have none.
PrunedTotal(k) ==
    IF Window[k[1]] = "minute" THEN total[k] - AmountsOf(entries[k], Stale(k)) ELSE total[k]

\* What a reservation reads of a key.
Used(k) == IF Window[k[1]] = "in_flight" THEN Cardinality(DOMAIN entries[k] \ Stale(k))
           ELSE PrunedTotal(k)

PlanKeys(a) == {KeyOf(c, attempt[a].day) : c \in attempt[a].plan}

\* BUG (for a mutant): one over the limit is let in.
FitsOneMore(a) == \A k \in PlanKeys(a) : Used(k) + Amount(k[1]) <= Limit[k[1]] + 1

\* evaluate_quota_plan and pass 2 of RESERVE_PLAN: every charge, before any write.
Fits(a) == \A k \in PlanKeys(a) : Used(k) + Amount(k[1]) <= Limit[k[1]]

-----------------------------------------------------------------------------

Init ==
    /\ backend \in Backends
    /\ now = 0
    /\ restarts = 0
    /\ ticket = [g \in Gateway |-> 0]
    /\ entries = [k \in Key |-> EmptyEntries]
    /\ total = [k \in Key |-> 0]
    /\ ttl = [k \in Key |-> 0]
    /\ attempt = [a \in Attempt |-> NewAttempt]
    /\ collided = FALSE

\* plan_quota_charges, which names the day, and the token: a ticket of the process,
\* in Redis with the number of charges.
Plan(a, g, plan) ==
    /\ attempt[a].phase = "new"
    /\ backend = "memory" => g = Local
    /\ ticket' = [ticket EXCEPT ![g] = @ + 1]
    /\ attempt' = [attempt EXCEPT ![a] = [NewAttempt EXCEPT
           !.phase = "planned", !.gateway = g, !.plan = plan, !.day = now \div Day,
           !.token = [ticket |-> ticket[g],
                      charges |-> IF backend = "redis" THEN Cardinality(plan) ELSE 0]]]
    /\ UNCHANGED <<backend, now, restarts, ledger, collided>>

\* Memory prunes every counter, the script those it was called for.
PrunedKeys(a) == IF backend = "memory" THEN Key ELSE PlanKeys(a)

Remaining(a, k) ==
    IF k \in PrunedKeys(a) THEN Restrict(entries[k], DOMAIN entries[k] \ Stale(k)) ELSE entries[k]

RemainingTotal(a, k) == IF k \in PrunedKeys(a) THEN PrunedTotal(k) ELSE total[k]

HeldTokens(k) ==
    {attempt[b].token : b \in {b \in Attempt : /\ attempt[b].phase \in {"held", "settled"}
                                               /\ k \in PlanKeys(b)}}

\* Passes 1 and 3 of RESERVE_PLAN; a token that is there already is overwritten,
\* the total grows all the same.
Charge(a) ==
    LET token == attempt[a].token
        new(k) == [until |-> Until(k[1]), amount |-> Amount(k[1])]
    IN  /\ entries' = [k \in Key |->
              IF k \in PlanKeys(a)
              THEN [t \in DOMAIN Remaining(a, k) \cup {token} |->
                       IF t = token THEN new(k) ELSE entries[k][t]]
              ELSE Remaining(a, k)]
        /\ total' = [k \in Key |->
              IF k \in PlanKeys(a) /\ Window[k[1]] # "in_flight"
              THEN RemainingTotal(a, k) + Amount(k[1]) ELSE RemainingTotal(a, k)]
        /\ ttl' = [k \in Key |-> IF backend = "redis" /\ k \in PlanKeys(a)
                                 THEN now + 2 * Length(k[1]) ELSE ttl[k]]
        /\ collided' = (collided \/ \E k \in PlanKeys(a) :
                            token \in DOMAIN Remaining(a, k) \cup HeldTokens(k))

\* The reservation fits: the lease holds its permit, or, when the reply is lost,
\* the attempt goes on without one (reserve_scoped_quota fails open).
Grant(a) ==
    /\ attempt[a].phase = "planned"
    /\ Fits(a)
    /\ Charge(a)
    /\ \E phase \in {"held"} \cup (IF backend = "redis" THEN {"ended"} ELSE {}) :
         attempt' = [attempt EXCEPT ![a].phase = phase, ![a].charged = TRUE,
                                    ![a].at = now, ![a].spent = Estimate]
    /\ UNCHANGED <<backend, now, restarts, ticket>>

\* A breach: nothing is charged, what was stale is pruned all the same.
Refuse(a) ==
    /\ attempt[a].phase = "planned"
    /\ ~Fits(a)
    /\ entries' = [k \in Key |-> Remaining(a, k)]
    /\ total' = [k \in Key |-> RemainingTotal(a, k)]
    /\ attempt' = [attempt EXCEPT ![a] = [NewAttempt EXCEPT !.phase = "refused"]]
    /\ UNCHANGED <<backend, now, restarts, ticket, ttl, collided>>

\* The ledger was not reached: the attempt goes on, uncharged.
FailOpen(a) ==
    /\ attempt[a].phase = "planned"
    /\ backend = "redis"
    /\ attempt' = [attempt EXCEPT ![a] = Uncharged]
    /\ UNCHANGED <<backend, now, restarts, ticket, ledger, collided>>

\* A reservation that is there still has its amount replaced.
Adjusts(a, k) == k[1] \in Tokens /\ attempt[a].token \in DOMAIN entries[k]

\* settle_scoped_quota_usage; without a usage, or when the call fails, it is skipped.
Settle(a, actual) ==
    LET token == attempt[a].token
        keys == {k \in PlanKeys(a) : Adjusts(a, k)}
        before(k) == IF token \in DOMAIN entries[k] THEN entries[k][token].amount ELSE Estimate
    IN  /\ attempt[a].phase = "held"
        /\ entries' = [k \in Key |-> IF k \in keys /\ token \in DOMAIN entries[k]
                                     THEN [entries[k] EXCEPT ![token].amount = actual]
                                     ELSE entries[k]]
        /\ total' = [k \in Key |-> IF k \in keys THEN total[k] - before(k) + actual ELSE total[k]]
        /\ attempt' = [attempt EXCEPT ![a].phase = "settled", ![a].spent = actual]
        /\ UNCHANGED <<backend, now, restarts, ticket, ttl, collided>>

\* What a release gives back: slots, and no charge.
GivenBack(a) == {k \in PlanKeys(a) : Window[k[1]] = "in_flight"}

\* ScopedQuotaLease::release and drop, by which every holder ends.
Release(a) ==
    /\ attempt[a].phase \in {"held", "settled"}
    /\ entries' = [k \in Key |-> IF k \in GivenBack(a)
                                 THEN Restrict(entries[k], DOMAIN entries[k] \ {attempt[a].token})
                                 ELSE entries[k]]
    /\ attempt' = [attempt EXCEPT ![a].phase = "ended", ![a].released = TRUE]
    /\ UNCHANGED <<backend, now, restarts, ticket, total, ttl, collided>>

\* The release does not reach Redis: the slots age out.
ReleaseLost(a) ==
    /\ backend = "redis"
    /\ attempt[a].phase \in {"held", "settled"}
    /\ attempt' = [attempt EXCEPT ![a].phase = "ended"]
    /\ UNCHANGED <<backend, now, restarts, ticket, ledger, collided>>

\* A gateway restarts, and counts its tickets from 0; a ledger in memory is gone,
\* and with it what history says was charged to it.
Restart(g) ==
    /\ restarts < MaxRestarts
    /\ backend = "memory" => g = Local
    /\ restarts' = restarts + 1
    /\ ticket' = [ticket EXCEPT ![g] = 0]
    /\ attempt' = [a \in Attempt |->
           IF attempt[a].phase \in {"new", "refused"} \/ attempt[a].gateway # g THEN attempt[a]
           ELSE IF attempt[a].charged /\ backend = "redis"
           THEN [attempt[a] EXCEPT !.phase = "ended"] ELSE Uncharged]
    /\ IF backend = "memory"
       THEN /\ entries' = [k \in Key |-> EmptyEntries]
            /\ total' = [k \in Key |-> 0]
            /\ UNCHANGED ttl
       ELSE UNCHANGED ledger
    /\ UNCHANGED <<backend, now, collided>>

\* Time passes; Redis drops the keys whose time to live is over.
Tick ==
    LET dropped == {k \in Key : ttl[k] = now + 1}
    IN  /\ now < MaxTime
        /\ now' = now + 1
        /\ entries' = [k \in Key |-> IF k \in dropped THEN EmptyEntries ELSE entries[k]]
        /\ total' = [k \in Key |-> IF k \in dropped THEN 0 ELSE total[k]]
        /\ ttl' = [k \in Key |-> IF k \in dropped THEN 0 ELSE ttl[k]]
        /\ UNCHANGED <<backend, restarts, ticket, attempt, collided>>

Next ==
    \/ \E a \in Attempt, g \in Gateway, plan \in Plans : Plan(a, g, plan)
    \/ \E a \in Attempt : Grant(a) \/ Refuse(a) \/ FailOpen(a)
                              \/ Release(a) \/ ReleaseLost(a)
    \/ \E a \in Attempt, actual \in Actual : Settle(a, actual)
    \/ \E g \in Gateway : Restart(g)
    \/ Tick

Spec == Init /\ [][Next]_vars

-----------------------------------------------------------------------------
(* Properties.                                                               *)

\* Every variable has its type; in particular no total is below zero.
TypeOK ==
    /\ backend \in {"memory", "redis"}
    /\ now \in 0..MaxTime
    /\ restarts \in 0..MaxRestarts
    /\ ticket \in [Gateway -> Nat]
    /\ \A k \in Key : /\ DOMAIN entries[k] \subseteq Token
                      /\ \A t \in DOMAIN entries[k] : entries[k][t] \in Entry
    /\ total \in [Key -> Nat]
    /\ ttl \in [Key -> Nat]
    /\ attempt \in [Attempt -> AttemptState]
    /\ collided \in BOOLEAN

\* Whether an attempt that was granted its reservation counts in a key now: a slot
\* until it is given back or its lease is over, a charge for its window.
Counts(a, k) ==
    /\ attempt[a].charged
    /\ k \in PlanKeys(a)
    /\ CASE Window[k[1]] = "in_flight" -> ~attempt[a].released /\ attempt[a].at + Lease > now
         [] Window[k[1]] = "minute"    -> attempt[a].at + Minute > now
         [] Window[k[1]] = "day"       -> TRUE

Charged(k) ==
    TotalOf([a \in {b \in Attempt : Counts(b, k)} |->
                IF k[1] \in Tokens THEN attempt[a].spent ELSE 1])

\* The keys of days that attempts can still be charged to.
Current(k) == Window[k[1]] = "day" => k[2] + 1 >= now \div Day

\* What a reservation reads of a counter is exactly what the attempts of its window
\* were charged, through pruning, settlement before and after the window rolled
\* ("re-subtracting it would corrupt the counter", scoped_quota.rs:409), release,
\* lost calls, restarts and the expiry of Redis keys; unless tokens collided.
UsedIsCharged == ~collided => \A k \in Key : Current(k) => Used(k) = Charged(k)

\* An attempt is granted its reservation only if every counter of its plan has room
\* for it by what was really charged, and refused only if one has not; provided that it
\* asks while the day it was planned for is kept.
GrantsExactly ==
    [][\A a \in Attempt :
         (~collided /\ attempt[a].phase = "planned" /\ \A k \in PlanKeys(a) : Current(k)) =>
         LET room == \A k \in PlanKeys(a) : Charged(k) + Amount(k[1]) <= Limit[k[1]]
         IN  /\ attempt'[a].charged => room
             /\ attempt'[a].phase = "refused" => ~room]_vars

\* The over-limit burst is "the thing this ledger exists to avoid"
\* (scoped_quota.rs:28): a grant never takes a counter past its limit, by what
\* the attempts of its window were really charged.
GrantsWithinLimit ==
    [][\A a \in Attempt : ~attempt[a].charged /\ attempt'[a].charged =>
         \A k \in PlanKeys(a) : Charged(k) + Amount(k[1]) <= Limit[k[1]]]_vars
=============================================================================
