---------------------------- MODULE QuotaPromise ----------------------------
(***************************************************************************)
(* What the tenant quota promises, whichever repository keeps it: limits on *)
(* the calls in flight, on the calls of the last minute and on their tokens *)
(* (crates/urouter-gateway/src/quota.rs).  Nothing is counted here: every   *)
(* limit is read off the calls themselves.  TenantQuota implements it.      *)
(***************************************************************************)
EXTENDS Totals

CONSTANTS Call, Tenant, TenantOf, Estimates, Minute, Lease

VARIABLES
    now,
    limits,    \* the configured limits, 0 for none
    expiring,  \* whether a slot is given up when its lease is over
    grants,    \* what every call was granted
    refused,   \* call -> the reason it was refused for, or "none"
    unique     \* no two calls of a tenant bear the same token

vars == <<now, limits, expiring, grants, refused, unique>>

\* open: the call's slot has not been given back; dated: the instant from which
\* its tokens count for a minute.
Grant == [granted : BOOLEAN, at : Nat, dated : Nat, tokens : Nat, open : BOOLEAN]

NoGrant == [granted |-> FALSE, at |-> 0, dated |-> 0, tokens |-> 0, open |-> FALSE]

Granted(t) == {c \in Call : TenantOf[c] = t /\ grants[c].granted}

InFlight(t) == {c \in Granted(t) : grants[c].open /\ (expiring => grants[c].at + Lease > now)}

Requests(t) == {c \in Granted(t) : grants[c].at + Minute > now}

TokensUsed(t) ==
    TotalOf([c \in {c \in Granted(t) : grants[c].dated + Minute > now} |-> grants[c].tokens])

\* The first limit that a call of tenant t breaks, in the order they are looked at.
Breach(t, estimate) ==
    CASE limits.in_flight > 0 /\ Cardinality(InFlight(t)) >= limits.in_flight -> "in_flight"
      [] limits.requests > 0 /\ Cardinality(Requests(t)) >= limits.requests   -> "requests_per_minute"
      [] limits.tokens > 0 /\ TokensUsed(t) + estimate > limits.tokens        -> "tokens_per_minute"
      [] OTHER                                                                -> "none"

Admit(c) ==
    /\ ~grants[c].granted /\ refused[c] = "none"
    /\ grants'[c].granted /\ Breach(TenantOf[c], grants'[c].tokens) = "none"
    /\ grants'[c] = [granted |-> TRUE, at |-> now, dated |-> now,
                     tokens |-> grants'[c].tokens, open |-> TRUE]
    /\ UNCHANGED <<now, refused>>

Refuse(c) ==
    /\ ~grants[c].granted /\ refused[c] = "none"
    /\ \E estimate \in Estimates : refused'[c] = Breach(TenantOf[c], estimate)
    /\ refused'[c] # "none"
    /\ UNCHANGED <<now, grants>>

\* The tokens really used replace the estimate; they are charged to the present
\* minute when the minute of the estimate is over.
Settle(c) ==
    /\ grants[c].granted
    /\ grants'[c] = [grants[c] EXCEPT
           !.tokens = grants'[c].tokens,
           !.dated = IF @ + Minute > now THEN @ ELSE now]
    /\ UNCHANGED <<now, refused>>

Release(c) ==
    /\ grants[c].open
    /\ grants'[c] = [grants[c] EXCEPT !.open = FALSE]
    /\ UNCHANGED <<now, refused>>

Pass == now' = now + 1 /\ UNCHANGED <<grants, refused>>

Others(c) == \A d \in Call \ {c} : grants'[d] = grants[d] /\ refused'[d] = refused[d]

Init ==
    /\ now = 0
    /\ grants = [c \in Call |-> NoGrant]
    /\ refused = [c \in Call |-> "none"]
    /\ unique = TRUE

Step == Pass \/ \E c \in Call : Others(c) /\ (Admit(c) \/ Refuse(c) \/ Settle(c) \/ Release(c))

\* The promise is kept as long as the tokens of calls are told apart.
Spec == Init /\ [][unique' => Step]_vars /\ [][UNCHANGED <<limits, expiring>>]_vars
=============================================================================
