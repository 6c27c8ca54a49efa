---------------------------- MODULE SharedCircuit ----------------------------
(***************************************************************************)
(* The circuit breaker that gateway processes share through Redis          *)
(* (crates/urouter-gateway/src/circuit.rs).  A deployment is gated by      *)
(* three circuits at once: its own, its credential's and its provider's.   *)
(* Each circuit is one Redis hash; ACQUIRE, FINISH and ABANDON are Lua     *)
(* scripts, so each is one atomic step here.                               *)
(*                                                                         *)
(* The scripts store absolute deadlines and compare them with Redis TIME.  *)
(* Here a deadline is the time left until it, counted down by Tick, so     *)
(* that time is unbounded and the state space is not.                      *)
(***************************************************************************)
EXTENDS Integers, FiniteSets

CONSTANTS
    Process,     \* gateway processes; a restarted gateway is a new process
    Pid,         \* Pid[g]: what std::process::id() returns in g
    Deployment,
    Target,      \* Target[d][s]: the circuit of d at scope s (circuit_targets)
    Cooldown,    \* CooldownPolicy.cooldown
    Window,      \* CooldownPolicy.window
    Threshold,   \* CooldownPolicy.failure_threshold_millis
    TierSize,    \* the candidate counts of the tiers that use these deployments
    NoToken,     \* HGET probe_token of a hash without that field
    MaxTicket    \* bound: acquisitions per process

Scope == {"deployment", "credential", "provider"}

Token == Nat \X Nat

ASSUME ConstantsAssumption ==
    /\ Pid \in [Process -> Nat]
    /\ \A d \in Deployment : DOMAIN Target[d] = Scope
    /\ Cooldown \in Nat \ {0}
    /\ Window \in Nat
    /\ Threshold \in Nat
    /\ TierSize \subseteq Nat
    /\ NoToken \notin Token
    /\ MaxTicket \in Nat

VARIABLES
    circuit,     \* the Redis hash of each key
    ticket,      \* RedisCircuitRepository.ticket of each process
    permits,     \* CircuitPermits held by requests in flight
    alive,       \* processes that have not stopped
    granted      \* history: probe slots granted, neither given back nor expired

vars == <<circuit, ticket, permits, alive, granted>>

-----------------------------------------------------------------------------
(* Keys, upstream failures and the scope each failure is charged to.        *)

\* KEYS of the scripts for deployment d.
Keys(d) == {Target[d][s] : s \in Scope}

Key == UNION {Keys(d) : d \in Deployment}

Kind == {"transport", "timeout", "rate_limited", "server_error",
         "provider_unavailable", "unauthorized", "not_found", "bad_request"}

FailureScope(kind) ==
    CASE kind \in {"unauthorized", "rate_limited"} -> "credential"
      [] kind = "provider_unavailable"             -> "provider"
      [] OTHER                                     -> "deployment"

ForceOpen(kind) == kind \in {"rate_limited", "unauthorized"}

\* state_ttl_millis: what PEXPIRE sets on a hash.
StateTtl == IF Window > 4 * Cooldown THEN Window ELSE 4 * Cooldown

-----------------------------------------------------------------------------
(* One circuit.  open: -1 when open_until is 0, else the cooldown left, 0    *)
(* being half-open.  probe: time left until probe_until.  window: time left  *)
(* until the failure window is stale, 0 if it is or never started.  ttl:     *)
(* time left until Redis deletes the hash, 0 when there is none.             *)

Circuit == [open : -1..Cooldown, token : Token \cup {NoToken},
            probe : 0..Cooldown, window : 0..(Window + 1),
            successes : Nat, failures : Nat, ttl : Nat]

Absent == [open |-> -1, token |-> NoToken, probe |-> 0, window |-> 0,
           successes |-> 0, failures |-> 0, ttl |-> 0]

\* BUG (for a mutant): a half-open circuit admits whatever its probe does.
AdmitsHalfOpen(c) == c.open \in {-1, 0}

\* The first loop of ACQUIRE lets this circuit pass.
Admits(c) == c.open = -1 \/ (c.open = 0 /\ c.probe = 0)

\* The second loop of ACQUIRE: a half-open circuit takes the probe token.
Probed(c, token) ==
    IF c.open >= 0
    THEN [c EXCEPT !.token = token, !.probe = Cooldown, !.ttl = StateTtl]
    ELSE c

\* BUG (for a mutant): the token is deleted and its deadline is not.
UnprobedTokenOnly(c, token) ==
    IF c.token = token THEN [c EXCEPT !.token = NoToken] ELSE c

\* HDEL probe_token, probe_until if the token is the caller's.
Unprobed(c, token) ==
    IF c.token = token THEN [c EXCEPT !.token = NoToken, !.probe = 0] ELSE c

\* FINISH starts a new failure window when the old one is stale.
Rolled(c) ==
    IF c.window = 0
    THEN [c EXCEPT !.window = Window + 1, !.successes = 0, !.failures = 0]
    ELSE c

\* FINISH, the branch of a failure charged to this circuit.
Charged(c, kind, tierSize) ==
    LET failures == c.failures + 1
        ratio == (failures * 1000) \div (c.successes + failures)
        opens == tierSize > 1 /\ (ForceOpen(kind) \/ ratio >= Threshold)
    IN  [c EXCEPT !.failures = failures, !.open = IF opens THEN Cooldown ELSE @]

\* FINISH with failure_index 0, on each of its keys.
Succeeded(c, token) ==
    LET r == Rolled(Unprobed(c, token))
    IN  [r EXCEPT !.successes = @ + 1, !.open = -1, !.ttl = StateTtl]

\* FINISH with a failure, on the key at failure_index (charged) or another one.
Failed(c, token, charged, kind, tierSize) ==
    LET r == Rolled(Unprobed(c, token))
        e == IF charged THEN Charged(r, kind, tierSize) ELSE r
    IN  [e EXCEPT !.ttl = StateTtl]

Sooner(n) == IF n > 0 THEN n - 1 ELSE n

\* Redis deletes a hash whose time is up; every deadline is one tick nearer.
Elapsed(c) ==
    IF c.ttl = 1 THEN Absent
    ELSE [c EXCEPT !.open = Sooner(@), !.probe = Sooner(@),
                   !.window = Sooner(@), !.ttl = Sooner(@)]

-----------------------------------------------------------------------------
(* Permits and grants.                                                       *)

Permit == [process : Process, ticket : Nat, deployment : Deployment]

Grant == [process : Process, ticket : Nat, key : Key, left : 1..Cooldown]

\* ARGV[1] of the scripts: "{pid}-{ticket}".
TokenOf(p) == <<Pid[p.process], p.ticket>>

SameHolder(p, g) == g.process = p.process /\ g.ticket = p.ticket

Aged(grants) == {[g EXCEPT !.left = @ - 1] : g \in {h \in grants : h.left > 1}}

-----------------------------------------------------------------------------
Init ==
    /\ circuit = [k \in Key |-> Absent]
    /\ ticket = [g \in Process |-> 0]
    /\ permits = {}
    /\ alive = Process
    /\ granted = {}

\* acquire: ACQUIRE refuses if any of the three circuits refuses, and takes the
\* probe token of every half-open one if none does.  The ticket is spent either way.
Acquire(g, d) ==
    /\ g \in alive
    /\ ticket[g] < MaxTicket
    /\ ticket' = [ticket EXCEPT ![g] = @ + 1]
    /\ LET p == [process |-> g, ticket |-> ticket[g], deployment |-> d]
       IN  IF \A k \in Keys(d) : Admits(circuit[k])
           THEN /\ circuit' = [k \in Key |-> IF k \in Keys(d)
                                             THEN Probed(circuit[k], TokenOf(p))
                                             ELSE circuit[k]]
                /\ permits' = permits \cup {p}
                /\ granted' = granted \cup
                     {[process |-> g, ticket |-> ticket[g], key |-> k, left |-> Cooldown] :
                         k \in {j \in Keys(d) : circuit[j].open >= 0}}
           ELSE UNCHANGED <<circuit, permits, granted>>
    /\ UNCHANGED alive

\* finish with Ok.
Succeed(p) ==
    /\ circuit' = [k \in Key |->
         IF k \in Keys(p.deployment)
         THEN Succeeded(circuit[k], TokenOf(p))
         ELSE circuit[k]]
    /\ permits' = permits \ {p}
    /\ granted' = {g \in granted : ~SameHolder(p, g)}
    /\ UNCHANGED <<ticket, alive>>

\* finish with Err(kind), on behalf of a tier of tierSize candidates: only the
\* circuit of the failure's scope is charged, all three are touched.
Fail(p, kind, tierSize) ==
    /\ circuit' = [k \in Key |->
         IF k \in Keys(p.deployment)
         THEN Failed(circuit[k], TokenOf(p),
                     k = Target[p.deployment][FailureScope(kind)], kind, tierSize)
         ELSE circuit[k]]
    /\ permits' = permits \ {p}
    /\ granted' = {g \in granted : ~SameHolder(p, g)}
    /\ UNCHANGED <<ticket, alive>>

\* ExecutionLease::drop spawned abandon, and the script ran.
Abandon(p) ==
    /\ circuit' = [k \in Key |-> IF k \in Keys(p.deployment)
                                 THEN Unprobed(circuit[k], TokenOf(p))
                                 ELSE circuit[k]]
    /\ permits' = permits \ {p}
    /\ granted' = {g \in granted : ~SameHolder(p, g)}
    /\ UNCHANGED <<ticket, alive>>

\* The result of finish or abandon never reaches Redis: `let _ = abandon(..)`,
\* no runtime to spawn on, or a backend error.
Lose(p) ==
    /\ permits' = permits \ {p}
    /\ UNCHANGED <<circuit, ticket, alive, granted>>

\* The process stops; its requests, and the permits they hold, are gone.
Crash(g) ==
    /\ g \in alive
    /\ alive' = alive \ {g}
    /\ permits' = {p \in permits : p.process # g}
    /\ UNCHANGED <<circuit, ticket, granted>>

\* Redis TIME advances.
Tick ==
    /\ circuit' = [k \in Key |-> Elapsed(circuit[k])]
    /\ granted' = Aged(granted)
    /\ UNCHANGED <<ticket, permits, alive>>

Next ==
    \/ \E g \in Process, d \in Deployment : Acquire(g, d)
    \/ \E p \in permits : Succeed(p)
    \/ \E p \in permits, kind \in Kind, n \in TierSize : Fail(p, kind, n)
    \/ \E p \in permits : Abandon(p)
    \/ \E p \in permits : Lose(p)
    \/ \E g \in Process : Crash(g)
    \/ Tick

Spec == Init /\ [][Next]_vars

-----------------------------------------------------------------------------
(* Properties.                                                               *)

\* Every variable has its type; a permit and a grant carry a ticket that their
\* process has already drawn (circuit.rs, RedisCircuitRepository::token).
TypeOK ==
    /\ circuit \in [Key -> Circuit]
    /\ ticket \in [Process -> Nat]
    /\ permits \subseteq Permit
    /\ alive \subseteq Process
    /\ granted \subseteq Grant
    /\ \A p \in permits : p.ticket < ticket[p.process]
    /\ \A g \in granted : g.ticket < ticket[g.process]

\* "After a cooldown expires, only one gateway receives the global Half-Open
\* probe token" (docs/gateway-m0.md:247): of the probe slots that were granted on
\* one circuit, at most one is neither given back nor expired, whatever other
\* requests, admitted before the trip, finish or abandon meanwhile.
OneUnexpiredProbe ==
    \A g, h \in granted : g.key = h.key => g = h

\* A circuit refuses requests on account of a probe only while a probe granted
\* less than a cooldown ago is out: a request that ends, whichever way, and a
\* refused multi-scope ACQUIRE leave no slot occupied behind them.
NoPhantomProbe ==
    \A k \in Key : circuit[k].probe > 0 => \E g \in granted : g.key = k /\ g.left = circuit[k].probe

DeadlinesCovered(c) ==
    /\ c.open > 0 => c.ttl > c.open
    /\ c.probe > 0 => c.ttl > c.probe

\* Redis never deletes a hash while it still has a cooldown to enforce or a
\* probe to exclude others from (state_ttl_millis against the two deadlines).
TtlCoversDeadlines == \A k \in Key : DeadlinesCovered(circuit[k])
=============================================================================
