--------------------------- MODULE TenantQuotaProofs ---------------------------
(***************************************************************************)
(* What is proved of the tenant quota ledger, for any calls, tenants,       *)
(* limits, lease and window:                                                *)
(*   - its tokens tell the calls apart (TokensApart);                       *)
(*   - no tenant stays charged for calls that are over (Recovers), by the   *)
(*     inductive invariant Ledgers;                                         *)
(*   - it implements QuotaPromise (Promised), by Ledgers and Booked: a book *)
(*     of the tokens that the calls bore, in which every key of the maps is *)
(*     that of one call and every call that counts has its keys.            *)
(***************************************************************************)
EXTENDS TenantQuota, FiniteSetTheorems, TLAPS

\* The time for which Redis keeps a tenant's sequence after a reservation.
SequenceLife == 2 * MaxOf(Lease, Minute)

\* The sequence of some tenant may have expired.
Expired == backend = "redis" /\ now >= SequenceLife

Keys == [slots : Nat, requests : Nat, charges : Nat, sequence : Nat]

\* The types of what the tokens depend on.
Typed ==
    /\ now \in Nat
    /\ backend \in {"memory", "redis"}
    /\ ticket \in [Tenant -> Nat]
    /\ live \in [Tenant -> Keys]
    /\ call \in [Call -> [phase : {"new", "held", "settled", "ended"}, token : Nat,
                          counted : BOOLEAN]]
    /\ permits = [t \in Tenant |-> permits[t]]

\* A call that has reserved nothing bears the empty token.
NewIsEmpty == \A c \in Call : call[c].phase = "new" => call[c].token = 0

\* A sequence is never kept for less than that.
SequenceKept == \A t \in Tenant : live[t].sequence = 0 \/ live[t].sequence >= SequenceLife

\* While no sequence has expired, every token borne was drawn from its tenant's.
DrawnInOrder == \A t \in Tenant : \A k \in Borne(t) : k \in Nat /\ k <= ticket[t]

IInv == Typed /\ NewIsEmpty /\ SequenceKept /\ (Expired \/ (unique /\ DrawnInOrder))

-----------------------------------------------------------------------------
\* The keys of a reservation outlive it.
LEMMA Positive == SequenceLife \in Nat /\ SequenceLife > 0
BY ConstantsAssumption DEF SequenceLife, MaxOf

\* No token has been drawn.
LEMMA InitInv == Init => IInv
<1> SUFFICES ASSUME Init
             PROVE  IInv
  OBVIOUS
<1>1. Typed
  BY ConstantsAssumption DEF Init, Typed, Keys, NewCall
<1>2. SequenceKept /\ NewIsEmpty
  BY DEF Init, SequenceKept, NewIsEmpty, NewCall
<1>3. \A t \in Tenant : Borne(t) = {}
  BY DEF Init, Borne, NewCall, Empty
<1>4. unique /\ DrawnInOrder
  BY <1>3 DEF Init, DrawnInOrder
<1>5. QED BY <1>1, <1>2, <1>4 DEF IInv

\* A reservation draws the next token, which is above all that are borne.
LEMMA GrantKeeps ==
    ASSUME IInv, NEW c \in Call, NEW estimate \in Estimates, Grant(c, estimate)
    PROVE  IInv'
<1> DEFINE t == TenantOf[c]
           token == NextTickets(t)[t]
<1>1. t \in Tenant
  BY ConstantsAssumption
<1>2. /\ Write(t, token, estimate) /\ ticket' = NextTickets(t) /\ live' = Kept(t)
      /\ unique' = (unique /\ token \notin Borne(t))
      /\ UNCHANGED <<backend, limits, now>>
      /\ \E phase \in {"held", "ended"} :
            call' = [call EXCEPT ![c] = IF phase = "ended" THEN Ended
                 ELSE [phase |-> phase, token |-> token, counted |-> limits.in_flight > 0]]
  BY DEF Grant
<1>3. /\ token = ticket[t] + 1 /\ token \in Nat
      /\ ticket' \in [Tenant -> Nat] /\ ticket'[t] = token
      /\ \A u \in Tenant : ticket'[u] >= ticket[u]
  BY <1>1, <1>2 DEF NextTickets, IInv, Typed
<1>4. live' \in [Tenant -> Keys] /\ SequenceKept'
  <2>1. CASE backend = "memory"
    BY <2>1, <1>2 DEF Kept, IInv, Typed, SequenceKept, SequenceLife
  <2>2. CASE backend # "memory"
    <3> DEFINE kept == [slots |-> IF limits.in_flight > 0 THEN now + 2 * Lease ELSE live[t].slots,
                        requests |-> IF limits.requests > 0 THEN now + 2 * Minute ELSE live[t].requests,
                        charges |-> IF limits.tokens > 0 THEN now + 2 * Minute ELSE live[t].charges,
                        sequence |-> now + SequenceLife]
    <3>1. live' = [live EXCEPT ![t] = kept]
      BY <2>2, <1>2 DEF Kept, SequenceLife
    <3>2. kept \in Keys /\ kept.sequence >= SequenceLife
      BY <1>1, Positive, ConstantsAssumption DEF Keys, IInv, Typed
    <3> HIDE DEF kept
    <3>3. QED BY <1>1, <3>1, <3>2 DEF IInv, Typed, SequenceKept, SequenceLife
  <2>3. QED BY <2>1, <2>2
<1> HIDE DEF token
<1>5. /\ call' \in [Call -> [phase : {"new", "held", "settled", "ended"}, token : Nat,
                            counted : BOOLEAN]]
      /\ \A d \in Call : d # c => call'[d] = call[d]
      /\ call'[c].phase \in {"held", "ended"} /\ (call'[c].phase = "held" => call'[c].token = token)
  <2>1. [phase |-> "held", token |-> token, counted |-> limits.in_flight > 0]
           \in [phase : {"new", "held", "settled", "ended"}, token : Nat, counted : BOOLEAN]
    BY <1>3
  <2>2. Ended \in [phase : {"new", "held", "settled", "ended"}, token : Nat, counted : BOOLEAN]
        /\ Ended.phase = "ended"
    BY DEF Ended, NewCall
  <2>3. QED BY <1>2, <2>1, <2>2 DEF IInv, Typed
<1>6. permits' = [u \in Tenant |-> permits'[u]]
  BY <1>2 DEF Write
<1>7. \A u \in Tenant :
         /\ DOMAIN permits'[u] \subseteq DOMAIN permits[u] \cup (IF u = t THEN {token} ELSE {})
         /\ DOMAIN requests'[u] \subseteq DOMAIN requests[u] \cup (IF u = t THEN {token} ELSE {})
         /\ DOMAIN charges'[u] \subseteq DOMAIN charges[u] \cup (IF u = t THEN {token} ELSE {})
  BY <1>1, <1>2 DEF Write, Add, PrunedPermits, PrunedRequests, PrunedCharges, Restrict
<1>8. ASSUME ~Expired
      PROVE  unique' /\ DrawnInOrder'
  <2>1. unique /\ DrawnInOrder
    BY <1>8 DEF IInv
  <2>2. unique'
    <3>1. token \notin Borne(t)
      BY <1>1, <1>3, <2>1 DEF DrawnInOrder, IInv, Typed
    <3>2. QED BY <1>2, <2>1, <3>1, Zenon
  <2>3. ASSUME NEW u \in Tenant, NEW k \in Borne(u)'
        PROVE  k \in Nat /\ k <= ticket'[u]
    <3>1. k \in Borne(u) \/ (u = t /\ k = token)
      BY <1>5, <1>7, <2>3 DEF Borne
    <3>2. QED BY <3>1, <1>1, <1>3, <2>1 DEF DrawnInOrder, IInv, Typed
  <2>4. QED BY <2>2, <2>3 DEF DrawnInOrder
<1>9. Expired' <=> Expired
  BY <1>2 DEF Expired, SequenceLife
<1>10. QED BY <1>2, <1>3, <1>4, <1>5, <1>6, <1>8, <1>9 DEF IInv, Typed, NewIsEmpty

\* Steps that draw no token: what is borne was borne before, or is the empty token.
LEMMA NoDrawKeeps ==
    ASSUME IInv, UNCHANGED <<now, backend, ticket, unique>>, Typed', NewIsEmpty', SequenceKept',
           \A t \in Tenant : Borne(t)' \subseteq Borne(t) \cup {0}
    PROVE  IInv'
<1>1. Expired' <=> Expired
  BY DEF Expired, SequenceLife
<1>2. ASSUME DrawnInOrder
      PROVE  DrawnInOrder'
  BY <1>2 DEF DrawnInOrder, IInv, Typed
<1>3. QED BY <1>1, <1>2 DEF IInv

\* Without limits no token is drawn.
LEMMA GrantUnlimitedKeeps ==
    ASSUME IInv, NEW c \in Call, NEW estimate \in Estimates, GrantUnlimited(c, estimate)
    PROVE  IInv'
<1>1. /\ call[c].phase = "new" /\ call' = [call EXCEPT ![c].phase = "held"]
      /\ UNCHANGED <<now, backend, ticket, unique, live, permits, requests, charges>>
  BY DEF GrantUnlimited, ledger
<1>2. Typed' /\ NewIsEmpty' /\ SequenceKept'
  BY <1>1 DEF IInv, Typed, NewIsEmpty, SequenceKept, SequenceLife
<1>3. \A d \in Call : call'[d] = call[d] \/ call'[d].token = 0
  BY <1>1 DEF IInv, Typed, NewIsEmpty
<1>4. \A t \in Tenant : Borne(t)' \subseteq Borne(t) \cup {0}
  BY <1>1, <1>3 DEF Borne
<1>5. QED BY <1>1, <1>2, <1>4, NoDrawKeeps

\* A call that ends bears nothing any more.
LEMMA EndedBears ==
    ASSUME IInv, NEW c \in Call, call' = [call EXCEPT ![c] = Ended]
    PROVE  /\ call' \in [Call -> [phase : {"new", "held", "settled", "ended"}, token : Nat,
                                  counted : BOOLEAN]]
           /\ NewIsEmpty'
           /\ \A d \in Call : call'[d].phase \in {"held", "settled"} => call'[d] = call[d]
BY DEF IInv, Typed, NewIsEmpty, Ended, NewCall

\* A rejection draws nothing and only prunes.
LEMMA RejectKeeps ==
    ASSUME IInv, NEW c \in Call, NEW estimate \in Estimates, Reject(c, estimate)
    PROVE  IInv'
<1> DEFINE t == TenantOf[c]
<1>1. /\ call' = [call EXCEPT ![c] = Ended] /\ Prune(t)
      /\ UNCHANGED <<now, backend, limits, ticket, unique, live>>
  BY DEF Reject
<1>2. \A u \in Tenant :
         /\ DOMAIN permits'[u] \subseteq DOMAIN permits[u]
         /\ DOMAIN requests'[u] \subseteq DOMAIN requests[u]
         /\ DOMAIN charges'[u] \subseteq DOMAIN charges[u]
  BY <1>1 DEF Prune, PrunedPermits, PrunedRequests, PrunedCharges, Restrict
<1>3. permits' = [u \in Tenant |-> permits'[u]]
  BY <1>1 DEF Prune
<1>4. Typed' /\ NewIsEmpty' /\ SequenceKept'
  BY <1>1, <1>3, EndedBears DEF IInv, Typed, SequenceKept, SequenceLife
<1>5. \A u \in Tenant : Borne(u)' \subseteq Borne(u) \cup {0}
  <2>1. \A d \in Call : call'[d].phase \in {"held", "settled"} => call'[d] = call[d]
    BY <1>1, EndedBears
  <2>2. QED BY <1>2, <2>1 DEF Borne
<1>6. QED BY <1>1, <1>4, <1>5, NoDrawKeeps

\* A settlement charges the token its call bears.
LEMMA SettleKeeps ==
    ASSUME IInv, NEW c \in Call, NEW actual \in Actual, Settle(c, actual)
    PROVE  IInv'
<1> DEFINE t == TenantOf[c]
           token == call[c].token
<1>1. /\ call[c].phase = "held" /\ call' = [call EXCEPT ![c].phase = "settled"]
      /\ UNCHANGED <<now, backend, limits, ticket, unique, permits, requests>>
  BY DEF Settle
<1>2. t \in Tenant
  BY ConstantsAssumption
<1>3. live' = live \/ live' = [live EXCEPT ![t].charges = now + 2 * Minute]
  BY DEF Settle
<1>4. live' \in [Tenant -> Keys] /\ \A u \in Tenant : live'[u].sequence = live[u].sequence
  <2>1. live \in [Tenant -> Keys]
    BY DEF IInv, Typed
  <2> DEFINE until == now + 2 * Minute
  <2>2. until \in Nat
    BY ConstantsAssumption DEF IInv, Typed
  <2> HIDE DEF until
  <2>3. CASE live' = [live EXCEPT ![t].charges = until]
    BY <2>1, <2>2, <2>3, <1>2 DEF Keys
  <2>4. QED BY <2>1, <2>3, <1>3 DEF until
<1>5. \A u \in Tenant :
         DOMAIN charges'[u] \subseteq DOMAIN charges[u] \cup (IF u = t THEN {token} ELSE {})
  <2> DEFINE new == Resettled(t, token, actual)
             kept(u) == IF backend = "memory" THEN DOMAIN charges[u] \ StaleCharges(u)
                        ELSE DOMAIN charges[u]
  <2>1. CASE charges' = charges
    BY <2>1
  <2>2. CASE charges' = [u \in Tenant |->
                IF u = t THEN Restrict(new, (kept(t) \cup {token}) \cap DOMAIN new)
                ELSE Restrict(charges[u], kept(u))]
    <3>1. \A u \in Tenant : kept(u) \subseteq DOMAIN charges[u]
      OBVIOUS
    <3> HIDE DEF kept, new
    <3>2. QED BY <2>2, <3>1 DEF Restrict
  <2>3. QED BY <2>1, <2>2 DEF Settle
<1>6. Typed' /\ NewIsEmpty' /\ SequenceKept'
  BY <1>1, <1>4 DEF IInv, Typed, NewIsEmpty, SequenceKept, SequenceLife
<1>7. \A d \in Call : /\ call'[d].token = call[d].token
                      /\ call'[d].phase \in {"held", "settled"} =>
                            call[d].phase \in {"held", "settled"}
  BY <1>1 DEF IInv, Typed
<1>8. \A u \in Tenant : Borne(u)' \subseteq Borne(u) \cup {0}
  BY <1>1, <1>5, <1>7 DEF Borne
<1>9. QED BY <1>1, <1>6, <1>8, NoDrawKeeps

\* A release takes a slot away; a lost one takes nothing.
LEMMA ReleaseKeeps ==
    ASSUME IInv, NEW c \in Call, Release(c) \/ ReleaseLost(c)
    PROVE  IInv'
<1>1. /\ call' = [call EXCEPT ![c] = Ended]
      /\ UNCHANGED <<now, backend, ticket, unique, live, requests, charges>>
      /\ \/ permits' = permits
         \/ permits' = [permits EXCEPT ![TenantOf[c]] =
                            Restrict(@, DOMAIN @ \ {call[c].token})]
  BY DEF Release, ReleaseLost, ledger, history
<1>2. /\ permits' = [u \in Tenant |-> permits'[u]]
      /\ \A u \in Tenant : DOMAIN permits'[u] \subseteq DOMAIN permits[u]
  <2>1. CASE permits' = permits
    BY <2>1 DEF IInv, Typed
  <2>2. CASE permits' # permits
    <3> DEFINE rest == Restrict(permits[TenantOf[c]], DOMAIN permits[TenantOf[c]] \ {call[c].token})
    <3>1. permits' = [permits EXCEPT ![TenantOf[c]] = rest]
      BY <1>1, <2>2
    <3>2. DOMAIN rest \subseteq DOMAIN permits[TenantOf[c]]
      BY DEF Restrict
    <3> HIDE DEF rest
    <3>3. permits = [u \in Tenant |-> permits[u]] /\ TenantOf[c] \in Tenant
      BY ConstantsAssumption DEF IInv, Typed
    <3>4. permits' = [u \in Tenant |-> IF u = TenantOf[c] THEN rest ELSE permits[u]]
      BY <3>1, <3>3
    <3>5. QED BY <3>2, <3>3, <3>4
  <2>3. QED BY <2>1, <2>2
<1>3. Typed' /\ NewIsEmpty' /\ SequenceKept'
  BY <1>1, <1>2, EndedBears DEF IInv, Typed, SequenceKept, SequenceLife
<1>4. \A u \in Tenant : Borne(u)' \subseteq Borne(u) \cup {0}
  <2>1. \A d \in Call : call'[d].phase \in {"held", "settled"} => call'[d] = call[d]
    BY <1>1, EndedBears
  <2>2. QED BY <1>1, <1>2, <2>1 DEF Borne
<1>5. QED BY <1>1, <1>3, <1>4, NoDrawKeeps

\* A sequence that expires does so a whole life after a reservation.
LEMMA TickKeeps ==
    ASSUME IInv, Tick
    PROVE  IInv'
<1>1. /\ now' = now + 1 /\ UNCHANGED <<backend, live, call, unique>>
      /\ permits' = [u \in Tenant |-> permits'[u]]
      /\ ticket' = [u \in Tenant |-> IF backend = "redis" /\ live[u].sequence = now + 1 THEN 0
                                     ELSE ticket[u]]
  BY DEF Tick, history
<1>2. \A u \in Tenant :
         /\ DOMAIN permits'[u] \subseteq DOMAIN permits[u]
         /\ DOMAIN requests'[u] \subseteq DOMAIN requests[u]
         /\ DOMAIN charges'[u] \subseteq DOMAIN charges[u]
  BY DEF Tick, Empty
<1>3. Typed' /\ NewIsEmpty' /\ SequenceKept'
  BY <1>1 DEF IInv, Typed, NewIsEmpty, SequenceKept, SequenceLife
<1>4. CASE \E u \in Tenant : backend = "redis" /\ live[u].sequence = now + 1
  <2>1. Expired'
    BY <1>1, <1>4 DEF Expired, SequenceLife, IInv, Typed, SequenceKept
  <2>2. QED BY <1>3, <2>1 DEF IInv
<1>5. CASE ~\E u \in Tenant : backend = "redis" /\ live[u].sequence = now + 1
  <2>1. \A u \in Tenant : ticket'[u] = ticket[u]
    BY <1>1, <1>5
  <2>2. \A u \in Tenant : Borne(u)' \subseteq Borne(u)
    BY <1>1, <1>2 DEF Borne
  <2>3. DrawnInOrder => DrawnInOrder'
    BY <2>1, <2>2 DEF DrawnInOrder
  <2>4. Expired => Expired'
    BY <1>1, Positive DEF Expired, SequenceLife, IInv, Typed
  <2>5. QED BY <1>1, <1>3, <2>3, <2>4 DEF IInv
<1>6. QED BY <1>4, <1>5

-----------------------------------------------------------------------------
\* Every step keeps the tokens apart.
LEMMA StepKeeps ==
    ASSUME IInv, [Next]_vars
    PROVE  IInv'
<1>1. ASSUME NEW c \in Call, NEW estimate \in Estimates,
             Grant(c, estimate) \/ GrantUnlimited(c, estimate) \/ Reject(c, estimate)
      PROVE  IInv'
  BY <1>1, GrantKeeps, GrantUnlimitedKeeps, RejectKeeps
<1>2. ASSUME NEW c \in Call, NEW actual \in Actual, Settle(c, actual)
      PROVE  IInv'
  BY <1>2, SettleKeeps
<1>3. ASSUME NEW c \in Call, Release(c) \/ ReleaseLost(c)
      PROVE  IInv'
  BY <1>3, ReleaseKeeps
<1>4. CASE Tick
  BY <1>4, TickKeeps
<1>5. CASE UNCHANGED vars
  <2>1. UNCHANGED <<now, backend, ticket, unique, live, call, permits, requests, charges>>
    BY <1>5 DEF vars, ledger, history
  <2>2. Typed' /\ NewIsEmpty' /\ SequenceKept'
    BY <2>1 DEF IInv, Typed, NewIsEmpty, SequenceKept, SequenceLife
  <2>3. \A t \in Tenant : Borne(t)' \subseteq Borne(t) \cup {0}
    BY <2>1 DEF Borne
  <2>4. QED BY <2>1, <2>2, <2>3, NoDrawKeeps
<1>6. QED BY <1>1, <1>2, <1>3, <1>4, <1>5 DEF Next

\* No call bears the token of another, nor a key that of an earlier one, before the
\* sequence of a tenant can have expired under it (MemoryQuotaRepository's ticket, the
\* INCR and PEXPIRE of RESERVE): for any calls, tenants, limits, lease and window.
THEOREM TokensApart == Spec => []TokensToldApart
<1>1. Init => IInv
  BY InitInv
<1>2. IInv /\ [Next]_vars => IInv'
  BY StepKeeps
<1>3. IInv => TokensToldApart
  BY DEF IInv, Expired, SequenceLife, TokensToldApart
<1>4. QED BY <1>1, <1>2, <1>3, PTL DEF Spec

-----------------------------------------------------------------------------
(* Sums, and what pruning keeps of them.                                    *)

\* The entries of f for the keys in S.
Part(f, S) == [k \in S |-> f[k]]

\* The units of an entry are those below its amount.
LEMMA UnitIn ==
    ASSUME NEW f, NEW k, NEW n
    PROVE  <<k, n>> \in Units(f) <=> k \in DOMAIN f /\ n \in 1 .. f[k]
BY DEF Units

\* An entry has as many units as it holds.
LEMMA UnitsArePairs ==
    ASSUME NEW f, NEW u \in Units(f)
    PROVE  \E k \in DOMAIN f : \E n \in 1 .. f[k] : u = <<k, n>>
BY DEF Units

\* The units of one entry.
LEMMA UnitsOfOne ==
    ASSUME NEW k, NEW n \in Int
    PROVE  /\ IsFiniteSet({k} \X (1 .. n))
           /\ n >= 0 => Cardinality({k} \X (1 .. n)) = n
           /\ n <= 0 => Cardinality({k} \X (1 .. n)) = 0
<1>1. /\ IsFiniteSet(1 .. n) /\ Cardinality(1 .. n) \in Nat
      /\ n >= 0 => Cardinality(1 .. n) = n
      /\ n <= 0 => Cardinality(1 .. n) = 0
  BY FS_Interval
<1>2. IsFiniteSet({k}) /\ Cardinality({k}) = 1
  BY FS_Singleton
<1>3. /\ IsFiniteSet({k} \X (1 .. n))
      /\ Cardinality({k} \X (1 .. n)) = 1 * Cardinality(1 .. n)
  BY <1>1, <1>2, FS_Product
<1>4. QED BY <1>1, <1>3

\* A finite ledger has finitely many units.
LEMMA UnitsFinite ==
    ASSUME NEW S, IsFiniteSet(S), NEW f \in [S -> Nat]
    PROVE  IsFiniteSet(Units(f)) /\ TotalOf(f) \in Nat
<1> DEFINE slices == {{k} \X (1 .. f[k]) : k \in S}
           g == [k \in S |-> {k} \X (1 .. f[k])]
<1>1. g \in Surjection(S, slices)
  BY DEF Surjection
<1>2. IsFiniteSet(slices)
  BY <1>1, FS_Surjection
<1>3. ASSUME NEW T \in slices
      PROVE  IsFiniteSet(T)
  <2>1. PICK k \in S : T = {k} \X (1 .. f[k])
    BY <1>3
  <2>2. f[k] \in Int
    OBVIOUS
  <2>3. QED BY <2>1, <2>2, UnitsOfOne
<1>4. IsFiniteSet(UNION slices)
  BY <1>2, <1>3, FS_UNION
<1>5. QED BY <1>4, FS_CardinalityType DEF Units, TotalOf

\* A total is that of a part and of the rest.
LEMMA TotalSplits ==
    ASSUME NEW S, IsFiniteSet(S), NEW f \in [S -> Nat], NEW A \in SUBSET S
    PROVE  TotalOf(f) = TotalOf(Part(f, A)) + TotalOf(Part(f, S \ A))
<1> DEFINE a == Part(f, A)
           b == Part(f, S \ A)
<1>1. IsFiniteSet(A) /\ IsFiniteSet(S \ A)
  BY FS_Subset
<1>2. a \in [A -> Nat] /\ b \in [S \ A -> Nat]
  BY DEF Part
<1>3. /\ IsFiniteSet(Units(a)) /\ Cardinality(Units(a)) \in Nat
      /\ IsFiniteSet(Units(b)) /\ Cardinality(Units(b)) \in Nat
  BY <1>1, <1>2, UnitsFinite DEF TotalOf
<1>4. Units(f) = Units(a) \cup Units(b)
  BY DEF Units, Part
<1>5. Units(a) \cap Units(b) = {}
  BY DEF Units, Part
<1>6. Cardinality(Units(a) \cap Units(b)) = 0
  BY <1>5, FS_EmptySet
<1>7. Cardinality(Units(a) \cup Units(b))
         = Cardinality(Units(a)) + Cardinality(Units(b)) - Cardinality(Units(a) \cap Units(b))
  BY <1>3, FS_Union
<1> HIDE DEF a, b
<1>8. Cardinality(Units(f)) = Cardinality(Units(a)) + Cardinality(Units(b))
  BY <1>3, <1>4, <1>6, <1>7
<1>9. QED BY <1>8 DEF TotalOf, a, b

\* The total of a single entry.
LEMMA TotalOfOne ==
    ASSUME NEW k, NEW n \in Nat
    PROVE  TotalOf([x \in {k} |-> n]) = n
<1> DEFINE f == [x \in {k} |-> n]
<1>1. Units(f) = {k} \X (1 .. n)
  BY DEF Units
<1>2. n \in Int /\ n >= 0
  OBVIOUS
<1> HIDE DEF f
<1>3. Cardinality({k} \X (1 .. n)) = n
  BY <1>2, UnitsOfOne, Zenon
<1>4. TotalOf(f) = n
  BY <1>1, <1>3 DEF TotalOf
<1>5. QED BY <1>4 DEF f

\* An empty ledger holds nothing.
LEMMA TotalOfNone == \A f : DOMAIN f = {} => TotalOf(f) = 0
<1>1. \A f : DOMAIN f = {} => Units(f) = {}
  BY DEF Units
<1>2. QED BY <1>1, FS_EmptySet DEF TotalOf

\* Renaming the entries one to one leaves the total as it is.
LEMMA TotalRenamed ==
    ASSUME NEW S, IsFiniteSet(S), NEW f \in [S -> Nat], NEW T, NEW g \in [T -> Nat],
           NEW b \in Bijection(S, T), \A k \in S : g[b[k]] = f[k]
    PROVE  TotalOf(g) = TotalOf(f)
<1> DEFINE h == [u \in Units(f) |-> <<b[u[1]], u[2]>>]
<1>1. b \in [S -> T] /\ (\A x, y \in S : b[x] = b[y] => x = y) /\ \A t \in T : \E s \in S : b[s] = t
  BY DEF Bijection, Injection, Surjection, IsInjective
<1>2. \A u \in Units(f) : u[1] \in S /\ u[2] \in 1 .. f[u[1]] /\ u = <<u[1], u[2]>>
  BY UnitsArePairs
<1>3. \A u \in Units(f) : h[u] \in Units(g)
  BY <1>1, <1>2, UnitIn
<1>4. \A u, v \in Units(f) : h[u] = h[v] => u = v
  BY <1>1, <1>2
<1>5. ASSUME NEW w \in Units(g)
      PROVE  \E u \in Units(f) : h[u] = w
  <2>1. PICK t \in T : \E n \in 1 .. g[t] : w = <<t, n>>
    BY UnitsArePairs
  <2>a. PICK n \in 1 .. g[t] : w = <<t, n>>
    BY <2>1
  <2>2. PICK s \in S : b[s] = t
    BY <1>1
  <2>3. <<s, n>> \in Units(f)
    BY <2>a, <2>2, UnitIn
  <2>4. QED BY <2>a, <2>2, <2>3
<1> HIDE DEF h
<1>6. h \in [Units(f) -> Units(g)]
  BY <1>3 DEF h
<1>7. h \in Bijection(Units(f), Units(g))
  BY <1>4, <1>5, <1>6 DEF Bijection, Injection, Surjection, IsInjective
<1>8. IsFiniteSet(Units(f))
  BY UnitsFinite
<1>9. QED BY <1>7, <1>8, FS_Bijection DEF TotalOf, ExistsBijection

-----------------------------------------------------------------------------
Reasons == {"none", "in_flight", "requests_per_minute", "tokens_per_minute"}

Charge == [at : Nat, amount : Nat]

\* The calls of a tenant that were granted.
GrantedOf(t) == {c \in Call : TenantOf[c] = t /\ grants[c].granted}

\* A call that holds its permit.
Bearing(c) == call[c].phase \in {"held", "settled"}

\* What the tenant's three maps hold.
MapsFormed(t) ==
    /\ permits[t] \in [DOMAIN permits[t] -> Nat] /\ IsFiniteSet(DOMAIN permits[t])
    /\ requests[t] \in [DOMAIN requests[t] -> Nat] /\ IsFiniteSet(DOMAIN requests[t])
    /\ charges[t] \in [DOMAIN charges[t] -> Charge] /\ IsFiniteSet(DOMAIN charges[t])

\* The shape of the ledger: finite maps of natural numbers, and finitely many grants.
Formed ==
    /\ limits \in [in_flight : Nat, requests : Nat, tokens : Nat]
    /\ unique \in BOOLEAN
    /\ grants \in [Call -> Promise!Grant]
    /\ refused \in [Call -> Reasons]
    /\ requests = [t \in Tenant |-> requests[t]]
    /\ charges = [t \in Tenant |-> charges[t]]
    /\ count \in [Tenant -> Nat] /\ total \in [Tenant -> Nat]
    /\ \A t \in Tenant : MapsFormed(t) /\ IsFiniteSet(GrantedOf(t))

\* What a call is, its grant and its refusal say too.
CallsAgree ==
    \A c \in Call :
       /\ call[c].phase = "new" => ~grants[c].granted /\ refused[c] = "none" /\ ~call[c].counted
       /\ Bearing(c) => grants[c].granted /\ grants[c].open
       /\ Bearing(c) => (call[c].counted <=> limits.in_flight > 0)
       /\ grants[c].granted => grants[c].at <= grants[c].dated /\ grants[c].dated <= now
       /\ grants[c].open => grants[c].granted

-----------------------------------------------------------------------------
\* A map without some of its keys is a map of its kind.
LEMMA RestrictFormed ==
    ASSUME NEW f, NEW V, f \in [DOMAIN f -> V], IsFiniteSet(DOMAIN f), NEW S
    PROVE  /\ Restrict(f, DOMAIN f \ S) \in [DOMAIN f \ S -> V]
           /\ DOMAIN Restrict(f, DOMAIN f \ S) = DOMAIN f \ S
           /\ \A k \in DOMAIN f \ S : Restrict(f, DOMAIN f \ S)[k] = f[k]
           /\ IsFiniteSet(DOMAIN f \ S)
<1>1. IsFiniteSet(DOMAIN f \ S)
  BY FS_Difference
<1>2. QED BY <1>1 DEF Restrict

\* So is a map with one more.
LEMMA AddFormed ==
    ASSUME NEW f, NEW V, f \in [DOMAIN f -> V], IsFiniteSet(DOMAIN f), NEW x, NEW v \in V
    PROVE  /\ Add(f, x, v) \in [DOMAIN f \cup {x} -> V]
           /\ DOMAIN Add(f, x, v) = DOMAIN f \cup {x}
           /\ Add(f, x, v)[x] = v
           /\ \A k \in DOMAIN f \ {x} : Add(f, x, v)[k] = f[k]
           /\ IsFiniteSet(DOMAIN f \cup {x})
<1>1. IsFiniteSet(DOMAIN f \cup {x})
  BY FS_AddElement
<1>2. QED BY <1>1 DEF Add

\* What a function on finitely many keys holds in amounts.
AmountIn(g) == TotalOf([k \in DOMAIN g |-> g[k].amount])

\* What is kept and what is dropped make up the whole.
LEMMA AmountInKept ==
    ASSUME NEW S, IsFiniteSet(S), NEW g \in [S -> Charge], NEW D \in SUBSET S
    PROVE  /\ AmountIn(g) = AmountIn(Restrict(g, S \ D)) + TotalOf([k \in D |-> g[k].amount])
           /\ AmountIn(g) \in Nat /\ AmountIn(Restrict(g, S \ D)) \in Nat
           /\ TotalOf([k \in D |-> g[k].amount]) \in Nat
<1> DEFINE f == [k \in S |-> g[k].amount]
           r == Restrict(g, S \ D)
<1>1. f \in [S -> Nat]
  BY DEF Charge
<1>2. Part(f, D) = [k \in D |-> g[k].amount]
  BY DEF Part
<1>3. Part(f, S \ D) = [k \in DOMAIN r |-> r[k].amount]
  BY DEF Part, Restrict
<1>4. AmountIn(g) = TotalOf(f)
  BY DEF AmountIn
<1>5. AmountIn(r) = TotalOf(Part(f, S \ D))
  BY <1>3 DEF AmountIn
<1>6. Part(f, D) \in [D -> Nat] /\ Part(f, S \ D) \in [S \ D -> Nat]
  BY <1>1 DEF Part
<1>7. IsFiniteSet(D) /\ IsFiniteSet(S \ D)
  BY FS_Subset
<1> HIDE DEF f, r
<1>8. TotalOf(f) \in Nat /\ TotalOf(Part(f, D)) \in Nat /\ TotalOf(Part(f, S \ D)) \in Nat
  BY <1>1, <1>6, <1>7, UnitsFinite
<1>9. TotalOf(f) = TotalOf(Part(f, D)) + TotalOf(Part(f, S \ D))
  BY <1>1, TotalSplits
<1>10. AmountIn(g) = AmountIn(r) + TotalOf(Part(f, D))
  BY <1>4, <1>5, <1>8, <1>9
<1>11. QED BY <1>2, <1>4, <1>5, <1>8, <1>10 DEF r

\* An entry that is set takes the place of what was there.
LEMMA AmountInAdd ==
    ASSUME NEW S, IsFiniteSet(S), NEW g \in [S -> Charge], NEW x, x \notin S, NEW v \in Charge
    PROVE  AmountIn(Add(g, x, v)) = AmountIn(g) + v.amount /\ AmountIn(g) \in Nat
<1> DEFINE h == Add(g, x, v)
<1>1. h \in [S \cup {x} -> Charge] /\ h[x] = v /\ IsFiniteSet(S \cup {x})
  BY AddFormed
<1>2. Restrict(h, (S \cup {x}) \ {x}) = g
  BY DEF Add, Restrict
<1>3. [k \in {x} |-> h[k].amount] = [k \in {x} |-> v.amount]
  BY <1>1
<1>4. v.amount \in Nat
  BY DEF Charge
<1>5. TotalOf([k \in {x} |-> v.amount]) = v.amount
  BY <1>4, TotalOfOne
<1> HIDE DEF h
<1>6. /\ AmountIn(h) = AmountIn(Restrict(h, (S \cup {x}) \ {x})) + TotalOf([k \in {x} |-> h[k].amount])
      /\ AmountIn(Restrict(h, (S \cup {x}) \ {x})) \in Nat
  BY <1>1, AmountInKept
<1>7. QED BY <1>2, <1>3, <1>5, <1>6 DEF h

-----------------------------------------------------------------------------
\* g is f without some of its stale keys.
Thins(g, f, stale) ==
    /\ DOMAIN g \subseteq DOMAIN f
    /\ \A k \in DOMAIN g : g[k] = f[k]
    /\ DOMAIN f \ DOMAIN g \subseteq stale

\* What a reservation for tenant u leaves of what tenant t has.
LEMMA PruneFormed ==
    ASSUME Formed, NEW t \in Tenant, NEW u
    PROVE  /\ PrunedPermits(t, u) \in [DOMAIN PrunedPermits(t, u) -> Nat]
           /\ PrunedRequests(t, u) \in [DOMAIN PrunedRequests(t, u) -> Nat]
           /\ PrunedCharges(t, u) \in [DOMAIN PrunedCharges(t, u) -> Charge]
           /\ IsFiniteSet(DOMAIN PrunedPermits(t, u)) /\ IsFiniteSet(DOMAIN PrunedRequests(t, u))
           /\ IsFiniteSet(DOMAIN PrunedCharges(t, u))
<1>1. MapsFormed(t)
  BY DEF Formed
<1>2. /\ PrunedPermits(t, u) \in [DOMAIN PrunedPermits(t, u) -> Nat]
      /\ IsFiniteSet(DOMAIN PrunedPermits(t, u))
  <2>1. /\ Restrict(permits[t], DOMAIN permits[t] \ StaleSlots(t)) \in [DOMAIN permits[t] \ StaleSlots(t) -> Nat]
        /\ IsFiniteSet(DOMAIN permits[t] \ StaleSlots(t))
    BY <1>1, RestrictFormed DEF MapsFormed
  <2>2. CASE t = u
    BY <2>1, <2>2 DEF PrunedPermits
  <2>3. CASE ~(t = u)
    BY <1>1, <2>3 DEF PrunedPermits, MapsFormed
  <2>4. QED BY <2>2, <2>3
<1>3. /\ PrunedRequests(t, u) \in [DOMAIN PrunedRequests(t, u) -> Nat]
      /\ IsFiniteSet(DOMAIN PrunedRequests(t, u))
  <2>1. /\ Restrict(requests[t], DOMAIN requests[t] \ StaleRequests(t)) \in [DOMAIN requests[t] \ StaleRequests(t) -> Nat]
        /\ IsFiniteSet(DOMAIN requests[t] \ StaleRequests(t))
    BY <1>1, RestrictFormed DEF MapsFormed
  <2>2. CASE Pruned(t, u)
    BY <2>1, <2>2 DEF PrunedRequests
  <2>3. CASE ~(Pruned(t, u))
    BY <1>1, <2>3 DEF PrunedRequests, MapsFormed
  <2>4. QED BY <2>2, <2>3
<1>4. /\ PrunedCharges(t, u) \in [DOMAIN PrunedCharges(t, u) -> Charge]
      /\ IsFiniteSet(DOMAIN PrunedCharges(t, u))
  <2>1. /\ Restrict(charges[t], DOMAIN charges[t] \ StaleCharges(t)) \in [DOMAIN charges[t] \ StaleCharges(t) -> Charge]
        /\ IsFiniteSet(DOMAIN charges[t] \ StaleCharges(t))
    BY <1>1, RestrictFormed DEF MapsFormed
  <2>2. CASE Pruned(t, u)
    BY <2>1, <2>2 DEF PrunedCharges
  <2>3. CASE ~(Pruned(t, u))
    BY <1>1, <2>3 DEF PrunedCharges, MapsFormed
  <2>4. QED BY <2>2, <2>3
<1>5. QED BY <1>2, <1>3, <1>4

\* Pruning takes away stale keys only.
LEMMA PruneThins ==
    ASSUME Formed, NEW t \in Tenant, NEW u
    PROVE  /\ Thins(PrunedPermits(t, u), permits[t], StaleSlots(t))
           /\ Thins(PrunedRequests(t, u), requests[t], StaleRequests(t))
           /\ Thins(PrunedCharges(t, u), charges[t], StaleCharges(t))
           /\ DOMAIN PrunedPermits(t, t) = DOMAIN permits[t] \ StaleSlots(t)
           /\ DOMAIN PrunedRequests(t, t) = DOMAIN requests[t] \ StaleRequests(t)
           /\ DOMAIN PrunedCharges(t, t) = DOMAIN charges[t] \ StaleCharges(t)
<1>1. /\ Thins(PrunedPermits(t, u), permits[t], StaleSlots(t))
      /\ DOMAIN PrunedPermits(t, t) = DOMAIN permits[t] \ StaleSlots(t)
  BY DEF PrunedPermits, Thins, Restrict
<1>2. /\ Thins(PrunedRequests(t, u), requests[t], StaleRequests(t))
      /\ DOMAIN PrunedRequests(t, t) = DOMAIN requests[t] \ StaleRequests(t)
  BY DEF PrunedRequests, Thins, Restrict, Pruned
<1>3. /\ Thins(PrunedCharges(t, u), charges[t], StaleCharges(t))
      /\ DOMAIN PrunedCharges(t, t) = DOMAIN charges[t] \ StaleCharges(t)
  BY DEF PrunedCharges, Thins, Restrict, Pruned
<1>4. QED BY <1>1, <1>2, <1>3

\* The counters a reservation leaves.
LEMMA PruneCounts ==
    ASSUME Formed, NEW t \in Tenant, NEW u
    PROVE  /\ PrunedCount(t, u) \in Nat /\ PrunedTotal(t, u) \in Nat
           /\ Pruned(t, u) => PrunedCount(t, u) = MaxOf(0, count[t] - Cardinality(StaleRequests(t)))
           /\ count[t] = Cardinality(DOMAIN requests[t]) /\ Pruned(t, u)
                => PrunedCount(t, u) = Cardinality(DOMAIN PrunedRequests(t, u))
           /\ total[t] = AmountIn(charges[t])
                => PrunedTotal(t, u) = AmountIn(PrunedCharges(t, u))
<1> DEFINE stale == StaleRequests(t)
           late == StaleCharges(t)
<1>1. /\ requests[t] \in [DOMAIN requests[t] -> Nat] /\ IsFiniteSet(DOMAIN requests[t])
      /\ charges[t] \in [DOMAIN charges[t] -> Charge] /\ IsFiniteSet(DOMAIN charges[t])
      /\ count[t] \in Nat /\ total[t] \in Nat
  BY DEF Formed, MapsFormed
<1>2. stale \subseteq DOMAIN requests[t] /\ late \subseteq DOMAIN charges[t]
  BY DEF StaleRequests, StaleCharges
<1>3. DOMAIN requests[t] \cap stale = stale /\ IsFiniteSet(stale) /\ Cardinality(stale) \in Nat
  BY <1>1, <1>2, FS_Subset, FS_CardinalityType
<1>4. /\ Cardinality(DOMAIN requests[t] \ stale) = Cardinality(DOMAIN requests[t]) - Cardinality(stale)
      /\ Cardinality(DOMAIN requests[t] \ stale) \in Nat /\ Cardinality(DOMAIN requests[t]) \in Nat
  BY <1>1, <1>3, FS_Difference, FS_CardinalityType
<1>5. /\ AmountIn(charges[t]) = AmountIn(Restrict(charges[t], DOMAIN charges[t] \ late)) + Amounts(t, late)
      /\ AmountIn(charges[t]) \in Nat /\ AmountIn(Restrict(charges[t], DOMAIN charges[t] \ late)) \in Nat
      /\ Amounts(t, late) \in Nat
  BY <1>1, <1>2, AmountInKept DEF Amounts
<1> HIDE DEF stale, late
<1>6. CASE Pruned(t, u)
  <2>1. /\ PrunedCount(t, u) = MaxOf(0, count[t] - Cardinality(stale))
        /\ PrunedTotal(t, u) = MaxOf(0, total[t] - Amounts(t, late))
        /\ PrunedRequests(t, u) = Restrict(requests[t], DOMAIN requests[t] \ stale)
        /\ PrunedCharges(t, u) = Restrict(charges[t], DOMAIN charges[t] \ late)
    BY <1>6 DEF PrunedCount, PrunedTotal, PrunedRequests, PrunedCharges, stale, late
  <2>2. DOMAIN PrunedRequests(t, u) = DOMAIN requests[t] \ stale
    BY <2>1 DEF Restrict
  <2>3. PrunedCount(t, u) \in Nat /\ PrunedTotal(t, u) \in Nat
    BY <2>1, <1>1, <1>3, <1>5 DEF MaxOf
  <2>4. count[t] = Cardinality(DOMAIN requests[t])
           => PrunedCount(t, u) = Cardinality(DOMAIN PrunedRequests(t, u))
    BY <2>1, <2>2, <1>1, <1>3, <1>4 DEF MaxOf
  <2>5. ASSUME total[t] = AmountIn(charges[t])
        PROVE  PrunedTotal(t, u) = AmountIn(PrunedCharges(t, u))
    <3>1. PrunedTotal(t, u) = MaxOf(0, AmountIn(charges[t]) - Amounts(t, late))
      BY <2>1, <2>5
    <3>2. PrunedTotal(t, u) = AmountIn(Restrict(charges[t], DOMAIN charges[t] \ late))
      BY <3>1, <1>5 DEF MaxOf
    <3>3. QED BY <3>2, <2>1
  <2>6. QED BY <2>1, <2>3, <2>4, <2>5 DEF stale
<1>7. CASE ~Pruned(t, u)
  BY <1>7, <1>1 DEF PrunedCount, PrunedTotal, PrunedCharges
<1>8. QED BY <1>6, <1>7

-----------------------------------------------------------------------------
(* What each step does to the three maps of a tenant.                       *)

\* g is f with v for x, and without some of its stale keys.
Puts(g, f, stale, x, v) ==
    /\ DOMAIN g \subseteq DOMAIN f \cup {x}
    /\ x \in DOMAIN g /\ g[x] = v
    /\ \A k \in DOMAIN g \ {x} : g[k] = f[k]
    /\ DOMAIN f \ DOMAIN g \subseteq stale

\* What is granted is kept, and its charge only moves to later.
Grown ==
    \A d \in Call : grants[d].granted =>
       /\ grants'[d].granted
       /\ grants'[d].at = grants[d].at
       /\ grants[d].dated <= grants'[d].dated

\* Adding to a thinned map.
LEMMA AddPuts ==
    ASSUME NEW g, NEW f, NEW stale, NEW x, NEW v, Thins(g, f, stale)
    PROVE  Puts(Add(g, x, v), f, stale, x, v)
BY DEF Thins, Puts, Add

\* The same with the domain spelt out.
LEMMA AddMaps ==
    ASSUME NEW f, NEW V, f \in [DOMAIN f -> V], IsFiniteSet(DOMAIN f), NEW x, NEW v \in V
    PROVE  Add(f, x, v) \in [DOMAIN Add(f, x, v) -> V] /\ IsFiniteSet(DOMAIN Add(f, x, v))
<1>1. /\ Add(f, x, v) \in [DOMAIN f \cup {x} -> V] /\ DOMAIN Add(f, x, v) = DOMAIN f \cup {x}
      /\ IsFiniteSet(DOMAIN f \cup {x})
  BY AddFormed
<1>2. QED BY <1>1

\* When a slot reserved now is given up.
SlotUntil == IF backend = "redis" THEN now + Lease ELSE Never

\* What a grant does to the three maps of every tenant.
LEMMA GrantMaps ==
    ASSUME IInv, Formed, NEW c \in Call, NEW estimate \in Estimates, Grant(c, estimate),
           NEW t, t = TenantOf[c], NEW token, token = NextTickets(t)[t], NEW u \in Tenant
    PROVE  /\ IF u = t /\ limits.in_flight > 0
              THEN Puts(permits'[u], permits[u], StaleSlots(u), token, SlotUntil)
              ELSE Thins(permits'[u], permits[u], StaleSlots(u))
           /\ IF u = t /\ limits.requests > 0
              THEN Puts(requests'[u], requests[u], StaleRequests(u), token, now)
              ELSE Thins(requests'[u], requests[u], StaleRequests(u))
           /\ IF u = t /\ limits.tokens > 0
              THEN Puts(charges'[u], charges[u], StaleCharges(u), token, [at |-> now, amount |-> estimate])
              ELSE Thins(charges'[u], charges[u], StaleCharges(u))
           /\ MapsFormed(u)'
           /\ requests' = [v \in Tenant |-> requests'[v]] /\ charges' = [v \in Tenant |-> charges'[v]]
<1>1. Write(t, token, estimate)
  BY DEF Grant
<1>2. /\ Thins(PrunedPermits(u, t), permits[u], StaleSlots(u))
      /\ Thins(PrunedRequests(u, t), requests[u], StaleRequests(u))
      /\ Thins(PrunedCharges(u, t), charges[u], StaleCharges(u))
  BY PruneThins
<1>3. /\ PrunedPermits(u, t) \in [DOMAIN PrunedPermits(u, t) -> Nat]
      /\ PrunedRequests(u, t) \in [DOMAIN PrunedRequests(u, t) -> Nat]
      /\ PrunedCharges(u, t) \in [DOMAIN PrunedCharges(u, t) -> Charge]
      /\ IsFiniteSet(DOMAIN PrunedPermits(u, t)) /\ IsFiniteSet(DOMAIN PrunedRequests(u, t))
      /\ IsFiniteSet(DOMAIN PrunedCharges(u, t))
  BY PruneFormed
<1>4. SlotUntil \in Nat /\ now \in Nat /\ [at |-> now, amount |-> estimate] \in Charge
  BY ConstantsAssumption DEF SlotUntil, Never, IInv, Typed, Charge
<1>5. /\ IF u = t /\ limits.in_flight > 0
         THEN Puts(permits'[u], permits[u], StaleSlots(u), token, SlotUntil)
         ELSE Thins(permits'[u], permits[u], StaleSlots(u))
      /\ permits'[u] \in [DOMAIN permits'[u] -> Nat] /\ IsFiniteSet(DOMAIN permits'[u])
  <2>1. CASE u = t /\ limits.in_flight > 0
    <3>1. permits'[u] = Add(PrunedPermits(u, t), token, SlotUntil)
      BY <1>1, <2>1 DEF Write, SlotUntil
    <3>2. Puts(Add(PrunedPermits(u, t), token, SlotUntil), permits[u], StaleSlots(u), token, SlotUntil)
      BY <1>2, AddPuts
    <3>3. /\ Add(PrunedPermits(u, t), token, SlotUntil)
                \in [DOMAIN Add(PrunedPermits(u, t), token, SlotUntil) -> Nat]
          /\ IsFiniteSet(DOMAIN Add(PrunedPermits(u, t), token, SlotUntil))
      BY <1>3, <1>4, AddMaps
    <3>4. QED BY <2>1, <3>1, <3>2, <3>3
  <2>2. CASE ~(u = t /\ limits.in_flight > 0)
    <3>1. permits'[u] = PrunedPermits(u, t)
      BY <1>1, <2>2 DEF Write
    <3>2. QED BY <2>2, <3>1, <1>2, <1>3
  <2>3. QED BY <2>1, <2>2
<1>6. /\ IF u = t /\ limits.requests > 0
         THEN Puts(requests'[u], requests[u], StaleRequests(u), token, now)
         ELSE Thins(requests'[u], requests[u], StaleRequests(u))
      /\ requests'[u] \in [DOMAIN requests'[u] -> Nat] /\ IsFiniteSet(DOMAIN requests'[u])
  <2>1. CASE u = t /\ limits.requests > 0
    <3>1. requests'[u] = Add(PrunedRequests(u, t), token, now)
      BY <1>1, <2>1 DEF Write
    <3>2. Puts(Add(PrunedRequests(u, t), token, now), requests[u], StaleRequests(u), token, now)
      BY <1>2, AddPuts
    <3>3. /\ Add(PrunedRequests(u, t), token, now) \in [DOMAIN Add(PrunedRequests(u, t), token, now) -> Nat]
          /\ IsFiniteSet(DOMAIN Add(PrunedRequests(u, t), token, now))
      BY <1>3, <1>4, AddMaps
    <3>4. QED BY <2>1, <3>1, <3>2, <3>3
  <2>2. CASE ~(u = t /\ limits.requests > 0)
    <3>1. requests'[u] = PrunedRequests(u, t)
      BY <1>1, <2>2 DEF Write
    <3>2. QED BY <2>2, <3>1, <1>2, <1>3
  <2>3. QED BY <2>1, <2>2
<1>7. /\ IF u = t /\ limits.tokens > 0
         THEN Puts(charges'[u], charges[u], StaleCharges(u), token, [at |-> now, amount |-> estimate])
         ELSE Thins(charges'[u], charges[u], StaleCharges(u))
      /\ charges'[u] \in [DOMAIN charges'[u] -> Charge] /\ IsFiniteSet(DOMAIN charges'[u])
  <2> DEFINE v == [at |-> now, amount |-> estimate]
  <2>1. CASE u = t /\ limits.tokens > 0
    <3>1. charges'[u] = Add(PrunedCharges(u, t), token, v)
      BY <1>1, <2>1 DEF Write
    <3> HIDE DEF v
    <3>2. Puts(Add(PrunedCharges(u, t), token, v), charges[u], StaleCharges(u), token, v)
      BY <1>2, AddPuts
    <3>3. /\ Add(PrunedCharges(u, t), token, v) \in [DOMAIN Add(PrunedCharges(u, t), token, v) -> Charge]
          /\ IsFiniteSet(DOMAIN Add(PrunedCharges(u, t), token, v))
      BY <1>3, <1>4, AddMaps DEF v
    <3>4. QED BY <2>1, <3>1, <3>2, <3>3 DEF v
  <2>2. CASE ~(u = t /\ limits.tokens > 0)
    <3>1. charges'[u] = PrunedCharges(u, t)
      BY <1>1, <2>2 DEF Write
    <3>2. QED BY <2>2, <3>1, <1>2, <1>3
  <2>3. QED BY <2>1, <2>2
<1>8. requests' = [v \in Tenant |-> requests'[v]] /\ charges' = [v \in Tenant |-> charges'[v]]
  BY <1>1 DEF Write
<1>9. MapsFormed(u)'
  BY <1>5, <1>6, <1>7 DEF MapsFormed
<1>10. QED BY <1>5, <1>6, <1>7, <1>8, <1>9

\* A rejection thins the maps.
LEMMA RejectMaps ==
    ASSUME IInv, Formed, NEW c \in Call, NEW estimate \in Estimates, Reject(c, estimate),
           NEW u \in Tenant
    PROVE  /\ Thins(permits'[u], permits[u], StaleSlots(u))
           /\ Thins(requests'[u], requests[u], StaleRequests(u))
           /\ Thins(charges'[u], charges[u], StaleCharges(u))
           /\ MapsFormed(u)'
           /\ requests' = [v \in Tenant |-> requests'[v]] /\ charges' = [v \in Tenant |-> charges'[v]]
<1> DEFINE t == TenantOf[c]
<1>1. Prune(t)
  BY DEF Reject
<1>2. /\ permits'[u] = PrunedPermits(u, t) /\ requests'[u] = PrunedRequests(u, t)
      /\ charges'[u] = PrunedCharges(u, t)
  BY <1>1 DEF Prune
<1>3. /\ Thins(PrunedPermits(u, t), permits[u], StaleSlots(u))
      /\ Thins(PrunedRequests(u, t), requests[u], StaleRequests(u))
      /\ Thins(PrunedCharges(u, t), charges[u], StaleCharges(u))
  BY PruneThins
<1>4. /\ PrunedPermits(u, t) \in [DOMAIN PrunedPermits(u, t) -> Nat]
      /\ PrunedRequests(u, t) \in [DOMAIN PrunedRequests(u, t) -> Nat]
      /\ PrunedCharges(u, t) \in [DOMAIN PrunedCharges(u, t) -> Charge]
      /\ IsFiniteSet(DOMAIN PrunedPermits(u, t)) /\ IsFiniteSet(DOMAIN PrunedRequests(u, t))
      /\ IsFiniteSet(DOMAIN PrunedCharges(u, t))
  BY PruneFormed
<1>5. MapsFormed(u)'
  BY <1>2, <1>4 DEF MapsFormed
<1>6. requests' = [v \in Tenant |-> requests'[v]] /\ charges' = [v \in Tenant |-> charges'[v]]
  BY <1>1 DEF Prune
<1>7. QED BY <1>2, <1>3, <1>5, <1>6

\* The charge of a settled permit.
Resettlement(t, token, actual) ==
    [at |-> IF token \in DOMAIN charges[t] \ StaleCharges(t) THEN charges[t][token].at ELSE now,
     amount |-> actual]

\* A settlement sets the charge of its call and may prune the others.
LEMMA SettleMaps ==
    ASSUME IInv, Formed, NEW c \in Call, NEW actual \in Actual, Settle(c, actual),
           NEW t, t = TenantOf[c], NEW token, token = call[c].token, NEW u \in Tenant
    PROVE  /\ permits' = permits /\ requests' = requests
           /\ limits.tokens = 0 => charges' = charges
           /\ limits.tokens > 0 =>
                IF u = t
                THEN Puts(charges'[u], charges[u], StaleCharges(u), token, Resettlement(t, token, actual))
                ELSE Thins(charges'[u], charges[u], StaleCharges(u))
           /\ MapsFormed(u)'
           /\ requests' = [v \in Tenant |-> requests'[v]] /\ charges' = [v \in Tenant |-> charges'[v]]
<1> DEFINE kept(v) == IF backend = "memory" THEN DOMAIN charges[v] \ StaleCharges(v)
                      ELSE DOMAIN charges[v]
           new == Resettled(t, token, actual)
           charge == Resettlement(t, token, actual)
<1>1. permits' = permits /\ requests' = requests
  BY DEF Settle
<1>2. /\ MapsFormed(u) /\ now \in Nat /\ actual \in Nat
      /\ requests = [v \in Tenant |-> requests[v]] /\ charges = [v \in Tenant |-> charges[v]]
  BY ConstantsAssumption DEF Formed, IInv, Typed
<1>3. /\ charges[u] \in [DOMAIN charges[u] -> Charge] /\ IsFiniteSet(DOMAIN charges[u])
  BY <1>2 DEF MapsFormed
<1>4. CASE limits.tokens = 0
  <2>1. charges' = charges
    BY <1>4 DEF Settle
  <2>2. MapsFormed(u)'
    BY <1>1, <1>2, <2>1 DEF MapsFormed
  <2>3. QED BY <1>1, <1>2, <1>4, <2>1, <2>2
<1>5. CASE limits.tokens # 0
  <2>1. charges' = [v \in Tenant |->
             IF v = t THEN Restrict(new, (kept(t) \cup {token}) \cap DOMAIN new)
             ELSE Restrict(charges[v], kept(v))]
    BY <1>5 DEF Settle
  <2>2. kept(u) \subseteq DOMAIN charges[u] /\ DOMAIN charges[u] \ kept(u) \subseteq StaleCharges(u)
    OBVIOUS
  <2>3. CASE u = t
    <3>1. charge \in Charge
      BY <1>2, <1>3, <2>3 DEF Charge, Resettlement
    <3>2. /\ DOMAIN new = DOMAIN charges[u] \cup {token} /\ new[token] = charge
          /\ \A k \in DOMAIN charges[u] \ {token} : new[k] = charges[u][k]
      <4>1. CASE token \in DOMAIN charges[t] \ StaleCharges(t)
        <5>1. charges[t][token] \in [at : Nat, amount : Nat]
          BY <4>1, <1>3, <2>3 DEF Charge
        <5>2. [charges[t][token] EXCEPT !.amount = actual]
                 = [at |-> charges[t][token].at, amount |-> actual]
          BY <5>1
        <5>3. charge = [charges[t][token] EXCEPT !.amount = actual]
          BY <4>1, <5>2 DEF Resettlement
        <5>4. new = Add(charges[t], token, [charges[t][token] EXCEPT !.amount = actual])
          BY <4>1 DEF Resettled
        <5>5. new = Add(charges[u], token, charge)
          BY <5>3, <5>4, <2>3
        <5> HIDE DEF new, charge
        <5>6. QED BY <5>5 DEF Add
      <4>2. CASE token \notin DOMAIN charges[t] \ StaleCharges(t)
        <5>1. charge = [at |-> now, amount |-> actual]
          BY <4>2 DEF Resettlement
        <5>2. new = Add(charges[t], token, [at |-> now, amount |-> actual])
          BY <4>2 DEF Resettled
        <5>3. new = Add(charges[u], token, charge)
          BY <5>1, <5>2, <2>3
        <5> HIDE DEF new, charge
        <5>4. QED BY <5>3 DEF Add
      <4>3. QED BY <4>1, <4>2
    <3> HIDE DEF new, charge, kept
    <3>3. charges'[u] = Restrict(new, kept(u) \cup {token})
      <4>1. (kept(u) \cup {token}) \cap DOMAIN new = kept(u) \cup {token}
        BY <2>2, <3>2
      <4>2. QED BY <2>1, <2>3, <4>1
    <3>4. Puts(charges'[u], charges[u], StaleCharges(u), token, charge)
      BY <2>2, <3>2, <3>3 DEF Puts, Restrict
    <3>5. charges'[u] \in [DOMAIN charges'[u] -> Charge]
      BY <1>3, <2>2, <3>1, <3>2, <3>3 DEF Restrict
    <3>6. IsFiniteSet(DOMAIN charges'[u])
      <4>1. IsFiniteSet(DOMAIN charges[u] \cup {token})
        BY <1>3, FS_AddElement
      <4>2. DOMAIN charges'[u] \subseteq DOMAIN charges[u] \cup {token}
        BY <3>4 DEF Puts
      <4>3. QED BY <4>1, <4>2, FS_Subset
    <3>7. MapsFormed(u)'
      BY <1>1, <1>2, <3>5, <3>6 DEF MapsFormed
    <3>8. charges' = [v \in Tenant |-> charges'[v]]
      BY <2>1
    <3>9. QED BY <1>1, <1>2, <1>5, <2>3, <3>4, <3>7, <3>8 DEF charge
  <2>4. CASE u # t
    <3> HIDE DEF new, kept
    <3>1. charges'[u] = Restrict(charges[u], kept(u))
      BY <2>1, <2>4
    <3>2. Thins(charges'[u], charges[u], StaleCharges(u))
      BY <2>2, <3>1 DEF Thins, Restrict
    <3>3. charges'[u] \in [DOMAIN charges'[u] -> Charge]
      BY <1>3, <2>2, <3>1 DEF Restrict
    <3>4. IsFiniteSet(DOMAIN charges'[u])
      BY <3>2, <1>3, FS_Subset DEF Thins
    <3>5. MapsFormed(u)'
      BY <1>1, <1>2, <3>3, <3>4 DEF MapsFormed
    <3>6. charges' = [v \in Tenant |-> charges'[v]]
      BY <2>1
    <3>7. QED BY <1>1, <1>2, <1>5, <2>4, <3>2, <3>5, <3>6
  <2>5. QED BY <2>3, <2>4
<1>6. QED BY <1>4, <1>5

\* A release takes away the slot of its call.
LEMMA ReleaseMaps ==
    ASSUME IInv, Formed, NEW c \in Call, Release(c), NEW u \in Tenant
    PROVE  /\ requests' = requests /\ charges' = charges
           /\ IF u = TenantOf[c] /\ call[c].counted
              THEN permits'[u] = Restrict(permits[u], DOMAIN permits[u] \ {call[c].token})
              ELSE permits'[u] = permits[u]
           /\ MapsFormed(u)'
<1> DEFINE t == TenantOf[c]
           rest == Restrict(permits[t], DOMAIN permits[t] \ {call[c].token})
<1>1. /\ requests' = requests /\ charges' = charges
      /\ permits' = IF call[c].counted THEN [permits EXCEPT ![t] = rest] ELSE permits
  BY DEF Release
<1>2. t \in Tenant /\ permits = [v \in Tenant |-> permits[v]] /\ MapsFormed(u) /\ MapsFormed(t)
  BY ConstantsAssumption DEF Formed, IInv, Typed
<1>3. rest \in [DOMAIN rest -> Nat] /\ IsFiniteSet(DOMAIN rest)
  <2>1. /\ rest \in [DOMAIN permits[t] \ {call[c].token} -> Nat]
        /\ IsFiniteSet(DOMAIN permits[t] \ {call[c].token})
    BY <1>2, RestrictFormed DEF MapsFormed
  <2>2. QED BY <2>1
<1>4. CASE u = t /\ call[c].counted
  <2> HIDE DEF rest
  <2>1. permits'[u] = rest
    BY <1>1, <1>2, <1>4
  <2>2. MapsFormed(u)'
    BY <1>1, <1>2, <1>3, <2>1 DEF MapsFormed
  <2>3. QED BY <1>1, <1>4, <2>1, <2>2 DEF rest
<1>5. CASE ~(u = t /\ call[c].counted)
  <2> HIDE DEF rest
  <2>1. permits'[u] = permits[u]
    BY <1>1, <1>2, <1>5
  <2>2. MapsFormed(u)'
    BY <1>1, <1>2, <2>1 DEF MapsFormed
  <2>3. QED BY <1>1, <1>5, <2>1, <2>2
<1>6. QED BY <1>4, <1>5

\* Redis drops whole maps when their time has come.
LEMMA TickMaps ==
    ASSUME IInv, Formed, Tick, NEW u \in Tenant
    PROVE  /\ permits'[u] = permits[u] \/ (backend = "redis" /\ live[u].slots = now + 1 /\ permits'[u] = Empty)
           /\ \/ requests'[u] = requests[u]
              \/ backend = "redis" /\ live[u].requests = now + 1 /\ requests'[u] = Empty
           /\ IF backend = "redis" /\ live[u].charges = now + 1
              THEN charges'[u] = Empty /\ total'[u] = 0
              ELSE charges'[u] = charges[u] /\ total'[u] = total[u]
           /\ total' \in [Tenant -> Nat]
           /\ MapsFormed(u)'
           /\ requests' = [v \in Tenant |-> requests'[v]] /\ charges' = [v \in Tenant |-> charges'[v]]
<1>1. /\ MapsFormed(u) /\ total \in [Tenant -> Nat]
  BY DEF Formed
<1>2. /\ permits'[u] = permits[u] \/ (backend = "redis" /\ live[u].slots = now + 1 /\ permits'[u] = Empty)
      /\ \/ requests'[u] = requests[u]
         \/ backend = "redis" /\ live[u].requests = now + 1 /\ requests'[u] = Empty
      /\ IF backend = "redis" /\ live[u].charges = now + 1
         THEN charges'[u] = Empty /\ total'[u] = 0
         ELSE charges'[u] = charges[u] /\ total'[u] = total[u]
      /\ requests' = [v \in Tenant |-> requests'[v]] /\ charges' = [v \in Tenant |-> charges'[v]]
  BY DEF Tick
<1>3. total' \in [Tenant -> Nat]
  BY <1>1 DEF Tick
<1>4. DOMAIN Empty = {} /\ Empty \in [{} -> Nat] /\ Empty \in [{} -> Charge] /\ IsFiniteSet({})
  BY FS_EmptySet DEF Empty
<1>5. permits'[u] \in [DOMAIN permits'[u] -> Nat] /\ IsFiniteSet(DOMAIN permits'[u])
  BY <1>1, <1>2, <1>4 DEF MapsFormed
<1>6. requests'[u] \in [DOMAIN requests'[u] -> Nat] /\ IsFiniteSet(DOMAIN requests'[u])
  BY <1>1, <1>2, <1>4 DEF MapsFormed
<1>7. charges'[u] \in [DOMAIN charges'[u] -> Charge] /\ IsFiniteSet(DOMAIN charges'[u])
  BY <1>1, <1>2, <1>4 DEF MapsFormed
<1>8. MapsFormed(u)'
  BY <1>5, <1>6, <1>7 DEF MapsFormed
<1>9. QED BY <1>2, <1>3, <1>8

-----------------------------------------------------------------------------
(* The calls, their grants and the shape of the ledger.                     *)

\* The grant of a call that is reserved now.
Fresh(tokens) == [granted |-> TRUE, at |-> now, dated |-> now, tokens |-> tokens, open |-> TRUE]

\* The ledger has its shape, and agrees with the calls.
Sound == IInv /\ Formed /\ CallsAgree

\* A grant, of either kind, begins what QuotaPromise knows of the call.
LEMMA Begun ==
    ASSUME Sound, NEW c \in Call, NEW estimate \in Estimates, call[c].phase = "new",
           grants' = [grants EXCEPT ![c] = Fresh(estimate)]
    PROVE  /\ grants' \in [Call -> Promise!Grant]
           /\ grants'[c] = Fresh(estimate) /\ ~grants[c].granted /\ refused[c] = "none"
           /\ \A d \in Call : d # c => grants'[d] = grants[d]
           /\ Grown
           /\ \A t \in Tenant : IsFiniteSet(GrantedOf(t)')
<1>1. grants \in [Call -> Promise!Grant] /\ ~grants[c].granted /\ refused[c] = "none"
  BY DEF Sound, Formed, CallsAgree
<1>2. Fresh(estimate) \in Promise!Grant
  BY ConstantsAssumption DEF Fresh, Promise!Grant, Sound, IInv, Typed
<1>3. /\ grants' \in [Call -> Promise!Grant]
      /\ grants'[c] = Fresh(estimate)
      /\ \A d \in Call : d # c => grants'[d] = grants[d]
  BY <1>1, <1>2
<1>4. \A d \in Call : grants[d].dated \in Nat
  BY <1>1 DEF Promise!Grant
<1>5. Grown
  BY <1>1, <1>3, <1>4 DEF Grown
<1>6. ASSUME NEW t \in Tenant
      PROVE  IsFiniteSet(GrantedOf(t)')
  <2>1. IsFiniteSet(GrantedOf(t) \cup {c})
    BY FS_AddElement DEF Sound, Formed
  <2>2. GrantedOf(t)' \subseteq GrantedOf(t) \cup {c}
    BY <1>3 DEF GrantedOf
  <2>3. QED BY <2>1, <2>2, FS_Subset
<1>7. QED BY <1>1, <1>3, <1>5, <1>6

\* What a grant does to the calls.
LEMMA GrantCalls ==
    ASSUME Sound, NEW c \in Call, NEW estimate \in Estimates, Grant(c, estimate),
           NEW t, t = TenantOf[c], NEW token, token = NextTickets(t)[t]
    PROVE  /\ t \in Tenant
           /\ UNCHANGED <<backend, limits, now, refused>>
           /\ grants' = [grants EXCEPT ![c] = Fresh(estimate)]
           /\ call[c].phase = "new"
           /\ \A d \in Call : d # c => call'[d] = call[d]
           /\ \/ call'[c] = [phase |-> "held", token |-> token, counted |-> limits.in_flight > 0]
              \/ call'[c] = Ended
           /\ unique' = (unique /\ token \notin Borne(t))
           /\ ~Unlimited
<1>1. /\ UNCHANGED <<backend, limits, now, refused>>
      /\ grants' = [grants EXCEPT ![c] = Fresh(estimate)]
      /\ call[c].phase = "new" /\ ~Unlimited
      /\ unique' = (unique /\ token \notin Borne(t))
      /\ \E phase \in {"held", "ended"} :
            call' = [call EXCEPT ![c] = IF phase = "ended" THEN Ended
                 ELSE [phase |-> phase, token |-> token, counted |-> limits.in_flight > 0]]
  BY DEF Grant, Fresh
<1>2. /\ \A d \in Call : d # c => call'[d] = call[d]
      /\ \/ call'[c] = [phase |-> "held", token |-> token, counted |-> limits.in_flight > 0]
         \/ call'[c] = Ended
  BY <1>1 DEF Sound, IInv, Typed
<1>3. t \in Tenant
  BY ConstantsAssumption
<1>4. QED BY <1>1, <1>2, <1>3

\* Each step keeps the shape of the ledger; a grant first.
LEMMA GrantForms ==
    ASSUME Sound, NEW c \in Call, NEW estimate \in Estimates, Grant(c, estimate)
    PROVE  Formed' /\ CallsAgree' /\ Grown
<1> DEFINE t == TenantOf[c]
           token == NextTickets(t)[t]
<1>1. /\ t \in Tenant
      /\ UNCHANGED <<backend, limits, now, refused>>
      /\ grants' = [grants EXCEPT ![c] = Fresh(estimate)]
      /\ call[c].phase = "new"
      /\ \A d \in Call : d # c => call'[d] = call[d]
      /\ \/ call'[c] = [phase |-> "held", token |-> token, counted |-> limits.in_flight > 0]
         \/ call'[c] = Ended
      /\ unique' = (unique /\ token \notin Borne(t))
  BY GrantCalls
<1>2. /\ grants' \in [Call -> Promise!Grant]
      /\ grants'[c] = Fresh(estimate)
      /\ \A d \in Call : d # c => grants'[d] = grants[d]
      /\ Grown
      /\ \A u \in Tenant : IsFiniteSet(GrantedOf(u)')
  BY <1>1, Begun
<1> HIDE DEF token
<1>3. ASSUME NEW u \in Tenant
      PROVE  MapsFormed(u)'
  BY GrantMaps DEF Sound
<1>4. requests' = [v \in Tenant |-> requests'[v]] /\ charges' = [v \in Tenant |-> charges'[v]]
  BY <1>1, GrantMaps DEF Sound
<1>5. count' \in [Tenant -> Nat] /\ total' \in [Tenant -> Nat]
  <2>1. Write(t, token, estimate)
    BY DEF Grant, token
  <2>2. \A u \in Tenant : PrunedCount(u, t) \in Nat /\ PrunedTotal(u, t) \in Nat
    BY PruneCounts DEF Sound
  <2>3. estimate \in Nat
    BY ConstantsAssumption
  <2>4. QED BY <2>1, <2>2, <2>3, <1>1 DEF Write
<1>6. Formed'
  BY <1>1, <1>2, <1>3, <1>4, <1>5 DEF Sound, Formed
<1>7. CallsAgree'
  <2>1. call'[c].phase \in {"held", "ended"} /\ (call'[c].phase = "held" => (call'[c].counted <=> limits.in_flight > 0))
    <3> DEFINE limited == limits.in_flight > 0
               bearer == [phase |-> "held", token |-> token, counted |-> limited]
    <3>1. bearer.phase = "held" /\ bearer.counted = limited
      OBVIOUS
    <3>2. Ended.phase = "ended"
      BY DEF Ended, NewCall
    <3>3. call'[c] = bearer \/ call'[c] = Ended
      BY <1>1
    <3> HIDE DEF limited, bearer
    <3>4. call'[c].phase \in {"held", "ended"} /\ (call'[c].phase = "held" => call'[c].counted = limited)
      BY <3>1, <3>2, <3>3
    <3>5. QED BY <3>4 DEF limited
  <2>2. grants'[c].granted /\ grants'[c].open /\ grants'[c].at <= grants'[c].dated /\ grants'[c].dated <= now
    BY <1>2 DEF Fresh, Sound, IInv, Typed
  <2>3. ASSUME NEW d \in Call
        PROVE  /\ call'[d].phase = "new" => ~grants'[d].granted /\ refused'[d] = "none" /\ ~call'[d].counted
               /\ Bearing(d)' => grants'[d].granted /\ grants'[d].open
               /\ Bearing(d)' => (call'[d].counted <=> limits'.in_flight > 0)
               /\ grants'[d].granted => grants'[d].at <= grants'[d].dated /\ grants'[d].dated <= now'
               /\ grants'[d].open => grants'[d].granted
    <3>1. CASE d = c
      BY <2>1, <2>2, <3>1, <1>1 DEF Bearing
    <3>2. CASE d # c
      BY <1>1, <1>2, <3>2 DEF Sound, CallsAgree, Bearing
    <3>3. QED BY <3>1, <3>2
  <2>4. QED BY <2>3 DEF CallsAgree
<1>8. QED BY <1>2, <1>6, <1>7

\* Steps that leave the maps and the counters of the tenants alone.
LEMMA MapsStay ==
    ASSUME Formed, UNCHANGED <<limits, permits, requests, count, charges, total>>, unique' = unique,
           grants' \in [Call -> Promise!Grant], refused' \in [Call -> Reasons],
           \A t \in Tenant : IsFiniteSet(GrantedOf(t)')
    PROVE  Formed'
BY DEF Formed, MapsFormed

\* A grant without limits changes no map.
LEMMA GrantUnlimitedForms ==
    ASSUME Sound, NEW c \in Call, NEW estimate \in Estimates, GrantUnlimited(c, estimate)
    PROVE  Formed' /\ CallsAgree' /\ Grown
<1>1. /\ call[c].phase = "new" /\ Unlimited
      /\ call' = [call EXCEPT ![c].phase = "held"]
      /\ grants' = [grants EXCEPT ![c] = Fresh(estimate)]
      /\ UNCHANGED <<limits, permits, requests, count, charges, total, now, refused, unique>>
  BY DEF GrantUnlimited, ledger, Fresh
<1>2. /\ grants' \in [Call -> Promise!Grant]
      /\ grants'[c] = Fresh(estimate)
      /\ \A d \in Call : d # c => grants'[d] = grants[d]
      /\ Grown
      /\ \A u \in Tenant : IsFiniteSet(GrantedOf(u)')
  BY <1>1, Begun
<1>3. Formed'
  BY <1>1, <1>2, MapsStay DEF Sound, Formed
<1>4. CallsAgree'
  <2>1. /\ call'[c].phase = "held" /\ call'[c].counted = call[c].counted
        /\ \A d \in Call : d # c => call'[d] = call[d]
    BY <1>1 DEF Sound, IInv, Typed
  <2>2. grants'[c].granted /\ grants'[c].open /\ grants'[c].at <= grants'[c].dated /\ grants'[c].dated <= now
    BY <1>2 DEF Fresh, Sound, IInv, Typed
  <2>3. ~call[c].counted /\ ~(limits.in_flight > 0)
    BY <1>1 DEF Sound, CallsAgree, Unlimited
  <2>4. ASSUME NEW d \in Call
        PROVE  /\ call'[d].phase = "new" => ~grants'[d].granted /\ refused'[d] = "none" /\ ~call'[d].counted
               /\ Bearing(d)' => grants'[d].granted /\ grants'[d].open
               /\ Bearing(d)' => (call'[d].counted <=> limits'.in_flight > 0)
               /\ grants'[d].granted => grants'[d].at <= grants'[d].dated /\ grants'[d].dated <= now'
               /\ grants'[d].open => grants'[d].granted
    <3>1. CASE d = c
      BY <2>1, <2>2, <2>3, <3>1, <1>1 DEF Bearing
    <3>2. CASE d # c
      BY <1>1, <1>2, <2>1, <3>2 DEF Sound, CallsAgree, Bearing
    <3>3. QED BY <3>1, <3>2
  <2>5. QED BY <2>4 DEF CallsAgree
<1>5. QED BY <1>2, <1>3, <1>4

\* A call that ends, with its grant as it was or its slot given back.
LEMMA EndedAgrees ==
    ASSUME Sound, NEW c \in Call, call' = [call EXCEPT ![c] = Ended], UNCHANGED <<limits, now>>,
           grants' = grants \/ grants' = [grants EXCEPT ![c].open = FALSE],
           \A d \in Call : d # c => refused'[d] = refused[d]
    PROVE  /\ CallsAgree' /\ Grown /\ grants' \in [Call -> Promise!Grant]
           /\ \A t \in Tenant : GrantedOf(t)' = GrantedOf(t)
<1>1. grants \in [Call -> Promise!Grant]
  BY DEF Sound, Formed
<1>2. /\ call'[c].phase = "ended" /\ \A d \in Call : d # c => call'[d] = call[d]
  BY DEF Sound, IInv, Typed, Ended, NewCall
<1>3. /\ grants' \in [Call -> Promise!Grant]
      /\ \A d \in Call : /\ grants'[d].granted = grants[d].granted
                         /\ grants'[d].at = grants[d].at /\ grants'[d].dated = grants[d].dated
                         /\ grants'[d].open => grants[d].open
                         /\ d # c => grants'[d] = grants[d]
  <2> DEFINE closed == [grants[c] EXCEPT !.open = FALSE]
  <2>1. grants[c] \in Promise!Grant
    BY <1>1
  <2>2. /\ closed \in Promise!Grant /\ ~closed.open
        /\ closed.granted = grants[c].granted /\ closed.at = grants[c].at /\ closed.dated = grants[c].dated
    BY <2>1 DEF Promise!Grant
  <2>3. grants' = grants \/ grants' = [grants EXCEPT ![c] = closed]
    OBVIOUS
  <2> HIDE DEF closed
  <2>4. CASE grants' = grants
    BY <1>1, <2>4
  <2>5. CASE grants' = [grants EXCEPT ![c] = closed]
    BY <1>1, <2>2, <2>5
  <2>6. QED BY <2>3, <2>4, <2>5
<1>4. Grown
  <2>1. \A d \in Call : grants[d].dated \in Nat
    BY <1>1 DEF Promise!Grant
  <2>2. QED BY <1>3, <2>1 DEF Grown
<1>5. \A t \in Tenant : GrantedOf(t)' = GrantedOf(t)
  BY <1>3 DEF GrantedOf
<1>6. CallsAgree'
  BY <1>2, <1>3 DEF CallsAgree, Bearing, Sound
<1>7. QED BY <1>3, <1>4, <1>5, <1>6

\* A rejection.
LEMMA RejectForms ==
    ASSUME Sound, NEW c \in Call, NEW estimate \in Estimates, Reject(c, estimate)
    PROVE  Formed' /\ CallsAgree' /\ Grown
<1> DEFINE t == TenantOf[c]
<1>1. /\ Prune(t) /\ call' = [call EXCEPT ![c] = Ended]
      /\ refused' = [refused EXCEPT ![c] = Rejection(t, estimate)]
      /\ UNCHANGED <<limits, now, grants, unique>>
  BY DEF Reject
<1>2. Rejection(t, estimate) \in Reasons
  BY DEF Rejection, Reasons
<1>3. /\ refused' \in [Call -> Reasons] /\ \A d \in Call : d # c => refused'[d] = refused[d]
  BY <1>1, <1>2 DEF Sound, Formed
<1>4. CallsAgree' /\ Grown /\ grants' \in [Call -> Promise!Grant] /\ \A u \in Tenant : GrantedOf(u)' = GrantedOf(u)
  BY <1>1, <1>3, EndedAgrees
<1>5. ASSUME NEW u \in Tenant
      PROVE  MapsFormed(u)'
  BY RejectMaps DEF Sound
<1>6. t \in Tenant
  BY ConstantsAssumption
<1>7. requests' = [v \in Tenant |-> requests'[v]] /\ charges' = [v \in Tenant |-> charges'[v]]
  BY <1>6, RejectMaps DEF Sound
<1>8. count' \in [Tenant -> Nat] /\ total' \in [Tenant -> Nat]
  <2>1. \A u \in Tenant : PrunedCount(u, t) \in Nat /\ PrunedTotal(u, t) \in Nat
    BY PruneCounts DEF Sound
  <2>2. QED BY <1>1, <2>1 DEF Prune
<1>9. Formed'
  BY <1>1, <1>3, <1>4, <1>5, <1>7, <1>8 DEF Sound, Formed
<1>10. QED BY <1>4, <1>9

\* A release.
LEMMA ReleaseForms ==
    ASSUME Sound, NEW c \in Call, Release(c)
    PROVE  Formed' /\ CallsAgree' /\ Grown
<1>1. /\ call' = [call EXCEPT ![c] = Ended] /\ grants' = [grants EXCEPT ![c].open = FALSE]
      /\ UNCHANGED <<limits, now, requests, count, charges, total, refused, unique>>
  BY DEF Release
<1>2. CallsAgree' /\ Grown /\ grants' \in [Call -> Promise!Grant] /\ \A u \in Tenant : GrantedOf(u)' = GrantedOf(u)
  BY <1>1, EndedAgrees
<1>3. ASSUME NEW u \in Tenant
      PROVE  MapsFormed(u)'
  BY ReleaseMaps DEF Sound
<1>4. Formed'
  BY <1>1, <1>2, <1>3 DEF Sound, Formed
<1>5. QED BY <1>2, <1>4

\* A release that is lost.
LEMMA ReleaseLostForms ==
    ASSUME Sound, NEW c \in Call, ReleaseLost(c)
    PROVE  Formed' /\ CallsAgree' /\ Grown
<1>1. /\ call' = [call EXCEPT ![c] = Ended] /\ grants' = grants
      /\ UNCHANGED <<limits, now, permits, requests, count, charges, total, refused, unique>>
  BY DEF ReleaseLost, ledger, history
<1>2. CallsAgree' /\ Grown /\ grants' \in [Call -> Promise!Grant] /\ \A u \in Tenant : GrantedOf(u)' = GrantedOf(u)
  BY <1>1, EndedAgrees
<1>3. Formed'
  BY <1>1, <1>2, MapsStay DEF Sound, Formed
<1>4. QED BY <1>2, <1>3

\* The passing of time.
LEMMA TickForms ==
    ASSUME Sound, Tick
    PROVE  Formed' /\ CallsAgree' /\ Grown
<1>1. /\ now' = now + 1 /\ UNCHANGED <<limits, count, call, grants, refused, unique>>
  BY DEF Tick, history
<1>2. now \in Nat /\ \A d \in Call : grants[d].dated \in Nat
  BY DEF Sound, Formed, IInv, Typed, Promise!Grant
<1>3. CallsAgree' /\ Grown
  BY <1>1, <1>2 DEF Sound, CallsAgree, Grown, Bearing
<1>4. ASSUME NEW u \in Tenant
      PROVE  MapsFormed(u)'
  BY TickMaps DEF Sound
<1>5. /\ requests' = [v \in Tenant |-> requests'[v]] /\ charges' = [v \in Tenant |-> charges'[v]]
  BY DEF Tick
<1>6. total' \in [Tenant -> Nat]
  BY DEF Tick, Sound, Formed
<1>7. \A u \in Tenant : GrantedOf(u)' = GrantedOf(u)
  BY <1>1 DEF GrantedOf
<1>8. Formed'
  BY <1>1, <1>4, <1>5, <1>6, <1>7 DEF Sound, Formed
<1>9. QED BY <1>3, <1>8

\* What a settlement records.
LEMMA SettleCalls ==
    ASSUME Sound, NEW c \in Call, NEW actual \in Actual, Settle(c, actual)
    PROVE  /\ call[c].phase = "held" /\ UNCHANGED <<backend, limits, now, permits, requests, count, refused, unique>>
           /\ call'[c].phase = "settled" /\ call'[c].token = call[c].token /\ call'[c].counted = call[c].counted
           /\ \A d \in Call : d # c => call'[d] = call[d] /\ grants'[d] = grants[d]
           /\ grants' \in [Call -> Promise!Grant]
           /\ grants'[c] = [granted |-> grants[c].granted, at |-> grants[c].at,
                            dated |-> IF grants[c].dated + Minute > now THEN grants[c].dated ELSE now,
                            tokens |-> actual, open |-> grants[c].open]
           /\ grants[c].granted /\ grants[c].open
<1>1. /\ call[c].phase = "held" /\ UNCHANGED <<backend, limits, now, permits, requests, count, refused, unique>>
      /\ call' = [call EXCEPT ![c].phase = "settled"]
      /\ grants' = [grants EXCEPT ![c].tokens = actual,
                                  ![c].dated = IF @ + Minute > now THEN @ ELSE now]
  BY DEF Settle
<1>2. /\ grants \in [Call -> Promise!Grant] /\ now \in Nat /\ actual \in Nat
      /\ grants[c].granted /\ grants[c].open
  BY <1>1, ConstantsAssumption DEF Sound, Formed, IInv, Typed, CallsAgree, Bearing
<1>3. /\ call'[c].phase = "settled" /\ call'[c].token = call[c].token /\ call'[c].counted = call[c].counted
      /\ \A d \in Call : d # c => call'[d] = call[d]
  BY <1>1 DEF Sound, IInv, Typed
<1> DEFINE new == [granted |-> grants[c].granted, at |-> grants[c].at,
                   dated |-> IF grants[c].dated + Minute > now THEN grants[c].dated ELSE now,
                   tokens |-> actual, open |-> grants[c].open]
<1>4. grants[c] \in Promise!Grant
  BY <1>2
<1>5. new \in Promise!Grant
  <2>1. grants[c].granted \in BOOLEAN /\ grants[c].at \in Nat /\ grants[c].dated \in Nat /\ grants[c].open \in BOOLEAN
    BY <1>4 DEF Promise!Grant
  <2>2. (IF grants[c].dated + Minute > now THEN grants[c].dated ELSE now) \in Nat
    BY <2>1, <1>2
  <2>3. QED BY <1>2, <2>1, <2>2 DEF Promise!Grant
<1>6. grants' = [grants EXCEPT ![c] = new]
  <2> DEFINE used == [grants[c] EXCEPT !.tokens = actual]
  <2>1. /\ used = [granted |-> grants[c].granted, at |-> grants[c].at, dated |-> grants[c].dated,
                   tokens |-> actual, open |-> grants[c].open]
    BY <1>4 DEF Promise!Grant
  <2>2. [used EXCEPT !.dated = IF @ + Minute > now THEN @ ELSE now] = new
    <3> DEFINE date == IF grants[c].dated + Minute > now THEN grants[c].dated ELSE now
    <3>1. used.dated = grants[c].dated
      BY <2>1
    <3>2. [used EXCEPT !.dated = IF @ + Minute > now THEN @ ELSE now] = [used EXCEPT !.dated = date]
      BY <3>1
    <3>3. new = [granted |-> grants[c].granted, at |-> grants[c].at, dated |-> date,
                 tokens |-> actual, open |-> grants[c].open]
      OBVIOUS
    <3> HIDE DEF date, new, used
    <3>4. [used EXCEPT !.dated = date] = new
      BY <2>1, <3>3
    <3>5. QED BY <3>2, <3>4
  <2>3. grants' = [grants EXCEPT ![c] = [used EXCEPT !.dated = IF @ + Minute > now THEN @ ELSE now]]
    BY <1>1, <1>2
  <2>4. QED BY <2>2, <2>3
<1> HIDE DEF new
<1>7. /\ grants'[c] = new /\ grants' \in [Call -> Promise!Grant]
      /\ \A d \in Call : d # c => grants'[d] = grants[d]
  BY <1>2, <1>5, <1>6
<1>8. QED BY <1>1, <1>2, <1>3, <1>7 DEF new

\* The totals that a settlement leaves.
SettledTotal(u, t, token, actual) ==
    MaxOf(0, total[u]
             - Amounts(u, DOMAIN charges[u]
                          \ (IF backend = "memory" THEN DOMAIN charges[u] \ StaleCharges(u) ELSE DOMAIN charges[u]))
             - (IF u = t
                THEN IF token \in (IF backend = "memory" THEN DOMAIN charges[t] \ StaleCharges(t) ELSE DOMAIN charges[t])
                     THEN charges[t][token].amount ELSE 0
                ELSE 0))
    + (IF u = t THEN actual ELSE 0)

\* A settlement keeps the totals natural numbers.
LEMMA SettleTotals ==
    ASSUME Sound, NEW c \in Call, NEW actual \in Actual, Settle(c, actual)
    PROVE  /\ limits.tokens = 0 => total' = total
           /\ limits.tokens # 0 =>
                 total' = [u \in Tenant |-> SettledTotal(u, TenantOf[c], call[c].token, actual)]
BY DEF Settle, SettledTotal

\* Amounts are natural numbers.
LEMMA AmountsNat ==
    ASSUME Formed, NEW u \in Tenant, NEW D, D \subseteq DOMAIN charges[u]
    PROVE  Amounts(u, D) \in Nat
<1>1. charges[u] \in [DOMAIN charges[u] -> Charge] /\ IsFiniteSet(DOMAIN charges[u])
  BY DEF Formed, MapsFormed
<1>2. TotalOf([k \in D |-> charges[u][k].amount]) \in Nat
  BY <1>1, AmountInKept
<1>3. QED BY <1>2 DEF Amounts

\* A settlement.
LEMMA SettleForms ==
    ASSUME Sound, NEW c \in Call, NEW actual \in Actual, Settle(c, actual)
    PROVE  Formed' /\ CallsAgree' /\ Grown
<1> DEFINE t == TenantOf[c]
           token == call[c].token
<1>1. /\ call[c].phase = "held" /\ UNCHANGED <<backend, limits, now, permits, requests, count, refused, unique>>
      /\ call'[c].phase = "settled" /\ call'[c].token = call[c].token /\ call'[c].counted = call[c].counted
      /\ \A d \in Call : d # c => call'[d] = call[d] /\ grants'[d] = grants[d]
      /\ grants' \in [Call -> Promise!Grant]
      /\ grants'[c] = [granted |-> grants[c].granted, at |-> grants[c].at,
                       dated |-> IF grants[c].dated + Minute > now THEN grants[c].dated ELSE now,
                       tokens |-> actual, open |-> grants[c].open]
      /\ grants[c].granted /\ grants[c].open
  BY SettleCalls
<1>2. /\ now \in Nat /\ actual \in Nat /\ t \in Tenant /\ Minute \in Nat
      /\ \A d \in Call : grants[d].dated \in Nat /\ grants[d].at \in Nat
  BY ConstantsAssumption DEF Sound, Formed, IInv, Typed, Promise!Grant
<1>3. /\ grants'[c].granted /\ grants'[c].at = grants[c].at /\ grants'[c].open
      /\ grants[c].dated <= grants'[c].dated /\ grants'[c].dated <= now
  <2>1. grants[c].dated <= now
    BY <1>1 DEF Sound, CallsAgree
  <2>2. CASE grants[c].dated + Minute > now
    BY <1>1, <1>2, <2>1, <2>2
  <2>3. CASE ~(grants[c].dated + Minute > now)
    BY <1>1, <1>2, <2>1, <2>3
  <2>4. QED BY <2>2, <2>3
<1>4. Grown
  BY <1>1, <1>2, <1>3 DEF Grown
<1>5. \A u \in Tenant : GrantedOf(u)' = GrantedOf(u)
  BY <1>1, <1>3 DEF GrantedOf
<1>6. CallsAgree'
  <2>1. ASSUME NEW d \in Call
        PROVE  /\ call'[d].phase = "new" => ~grants'[d].granted /\ refused'[d] = "none" /\ ~call'[d].counted
               /\ Bearing(d)' => grants'[d].granted /\ grants'[d].open
               /\ Bearing(d)' => (call'[d].counted <=> limits'.in_flight > 0)
               /\ grants'[d].granted => grants'[d].at <= grants'[d].dated /\ grants'[d].dated <= now'
               /\ grants'[d].open => grants'[d].granted
    <3>1. CASE d = c
      <4>1. grants[c].at <= grants[c].dated /\ (call[c].counted <=> limits.in_flight > 0)
        BY <1>1 DEF Sound, CallsAgree, Bearing
      <4>2. QED BY <1>1, <1>2, <1>3, <3>1, <4>1 DEF Bearing
    <3>2. CASE d # c
      BY <1>1, <3>2 DEF Sound, CallsAgree, Bearing
    <3>3. QED BY <3>1, <3>2
  <2>2. QED BY <2>1 DEF CallsAgree
<1>7. \A u \in Tenant : MapsFormed(u)'
  BY SettleMaps DEF Sound
<1>8. requests' = [v \in Tenant |-> requests'[v]] /\ charges' = [v \in Tenant |-> charges'[v]]
  BY <1>2, SettleMaps DEF Sound
<1>9. total' \in [Tenant -> Nat]
  <2>1. CASE limits.tokens = 0
    BY <2>1, SettleTotals DEF Sound, Formed
  <2>2. CASE limits.tokens # 0
    <3>1. total' = [u \in Tenant |-> SettledTotal(u, t, token, actual)]
      BY <2>2, SettleTotals
    <3>2. ASSUME NEW u \in Tenant
          PROVE  SettledTotal(u, t, token, actual) \in Nat
      <4> DEFINE drop == DOMAIN charges[u]
                     \ (IF backend = "memory" THEN DOMAIN charges[u] \ StaleCharges(u) ELSE DOMAIN charges[u])
                 prior == IF u = t
                          THEN IF token \in (IF backend = "memory" THEN DOMAIN charges[t] \ StaleCharges(t) ELSE DOMAIN charges[t])
                               THEN charges[t][token].amount ELSE 0
                          ELSE 0
                 added == IF u = t THEN actual ELSE 0
      <4>1. drop \subseteq DOMAIN charges[u]
        OBVIOUS
      <4>2. Amounts(u, drop) \in Nat /\ total[u] \in Nat
        BY <4>1, AmountsNat DEF Sound, Formed
      <4>3. prior \in Nat
        BY <1>2 DEF Sound, Formed, MapsFormed, Charge
      <4>4. added \in Nat
        BY <1>2
      <4>5. SettledTotal(u, t, token, actual) = MaxOf(0, total[u] - Amounts(u, drop) - prior) + added
        BY DEF SettledTotal
      <4> HIDE DEF drop, prior, added
      <4>6. QED BY <4>2, <4>3, <4>4, <4>5 DEF MaxOf
    <3>3. QED BY <3>1, <3>2
  <2>3. QED BY <2>1, <2>2
<1>10. Formed'
  BY <1>1, <1>5, <1>7, <1>8, <1>9 DEF Sound, Formed
<1>11. QED BY <1>4, <1>6, <1>10

-----------------------------------------------------------------------------
(* The dates of what is noted.                                              *)

\* What is noted of a tenant is noted of its calls, and of none later than they are.
RequestsDated(t) ==
    \A k \in DOMAIN requests[t] : \E c \in GrantedOf(t) : requests[t][k] = grants[c].at

ChargesDated(t) ==
    \A k \in DOMAIN charges[t] : \E c \in GrantedOf(t) : charges[t][k].at <= grants[c].dated

PermitsDated(t) ==
    \A k \in DOMAIN permits[t] :
       /\ limits.in_flight > 0
       /\ backend = "redis" => \E c \in GrantedOf(t) : permits[t][k] = grants[c].at + Lease
       /\ backend = "memory" => \E c \in GrantedOf(t) : Bearing(c) /\ call[c].token = k

\* No entry is dated later than the calls of its tenant are.
Dated == \A t \in Tenant : RequestsDated(t) /\ ChargesDated(t) /\ PermitsDated(t)

-----------------------------------------------------------------------------
\* A map that only loses keys stays dated, as grants only move to later.
LEMMA RequestsDatedKept ==
    ASSUME Grown, NEW t \in Tenant, RequestsDated(t),
           \A k \in DOMAIN requests'[t] :
              \/ k \in DOMAIN requests[t] /\ requests'[t][k] = requests[t][k]
              \/ \E c \in GrantedOf(t)' : requests'[t][k] = grants'[c].at
    PROVE  RequestsDated(t)'
<1>1. ASSUME NEW k \in DOMAIN requests[t]
      PROVE  \E c \in GrantedOf(t)' : requests[t][k] = grants'[c].at
  <2>1. PICK c \in GrantedOf(t) : requests[t][k] = grants[c].at
    BY DEF RequestsDated
  <2>2. c \in GrantedOf(t)' /\ grants'[c].at = grants[c].at
    BY DEF GrantedOf, Grown
  <2>3. QED BY <2>1, <2>2
<1>2. QED BY <1>1 DEF RequestsDated

\* The same of the charges.
LEMMA ChargesDatedKept ==
    ASSUME Grown, NEW t \in Tenant, ChargesDated(t), Formed, Formed',
           \A k \in DOMAIN charges'[t] :
              \/ k \in DOMAIN charges[t] /\ charges'[t][k] = charges[t][k]
              \/ \E c \in GrantedOf(t)' : charges'[t][k].at <= grants'[c].dated
    PROVE  ChargesDated(t)'
<1>1. ASSUME NEW k \in DOMAIN charges[t]
      PROVE  \E c \in GrantedOf(t)' : charges[t][k].at <= grants'[c].dated
  <2>1. PICK c \in GrantedOf(t) : charges[t][k].at <= grants[c].dated
    BY DEF ChargesDated
  <2>2. c \in GrantedOf(t)' /\ grants[c].dated <= grants'[c].dated
    BY DEF GrantedOf, Grown
  <2>3. charges[t][k].at \in Nat /\ grants[c].dated \in Nat /\ grants'[c].dated \in Nat
    BY <2>2 DEF Formed, MapsFormed, Charge, Promise!Grant, GrantedOf
  <2>4. charges[t][k].at <= grants'[c].dated
    BY <2>1, <2>2, <2>3
  <2>5. QED BY <2>2, <2>4
<1>2. QED BY <1>1 DEF ChargesDated

\* The same of the slots.
LEMMA PermitsDatedKept ==
    ASSUME Grown, NEW t \in Tenant, PermitsDated(t), UNCHANGED <<backend, limits>>,
           \A k \in DOMAIN permits'[t] :
              \/ /\ k \in DOMAIN permits[t] /\ permits'[t][k] = permits[t][k]
                 /\ backend = "memory" =>
                       \A c \in GrantedOf(t) : Bearing(c) /\ call[c].token = k
                                                   => Bearing(c)' /\ call'[c].token = k
              \/ /\ limits.in_flight > 0
                 /\ backend = "redis" => \E c \in GrantedOf(t)' : permits'[t][k] = grants'[c].at + Lease
                 /\ backend = "memory" => \E c \in GrantedOf(t)' : Bearing(c)' /\ call'[c].token = k
    PROVE  PermitsDated(t)'
<1>1. ASSUME NEW k \in DOMAIN permits[t], backend = "redis"
      PROVE  limits.in_flight > 0 /\ \E c \in GrantedOf(t)' : permits[t][k] = grants'[c].at + Lease
  <2>1. PICK c \in GrantedOf(t) : permits[t][k] = grants[c].at + Lease
    BY <1>1 DEF PermitsDated
  <2>2. c \in GrantedOf(t)' /\ grants'[c].at = grants[c].at
    BY DEF GrantedOf, Grown
  <2>3. QED BY <2>1, <2>2 DEF PermitsDated
<1>2. ASSUME NEW k \in DOMAIN permits[t], backend = "memory",
             \A c \in GrantedOf(t) : Bearing(c) /\ call[c].token = k => Bearing(c)' /\ call'[c].token = k
      PROVE  limits.in_flight > 0 /\ \E c \in GrantedOf(t)' : Bearing(c)' /\ call'[c].token = k
  <2>1. PICK c \in GrantedOf(t) : Bearing(c) /\ call[c].token = k
    BY <1>2 DEF PermitsDated
  <2>2. c \in GrantedOf(t)' /\ Bearing(c)' /\ call'[c].token = k
    BY <1>2, <2>1 DEF GrantedOf, Grown
  <2>3. QED BY <2>2 DEF PermitsDated
<1>3. ASSUME NEW k \in DOMAIN permits'[t]
      PROVE  /\ limits.in_flight > 0
             /\ backend = "redis" => \E c \in GrantedOf(t)' : permits'[t][k] = grants'[c].at + Lease
             /\ backend = "memory" => \E c \in GrantedOf(t)' : Bearing(c)' /\ call'[c].token = k
  <2>1. CASE /\ k \in DOMAIN permits[t] /\ permits'[t][k] = permits[t][k]
             /\ backend = "memory" =>
                   \A c \in GrantedOf(t) : Bearing(c) /\ call[c].token = k
                                               => Bearing(c)' /\ call'[c].token = k
    <3>1. limits.in_flight > 0
      BY <2>1 DEF PermitsDated
    <3>2. QED BY <3>1, <2>1, <1>1, <1>2
  <2>2. CASE /\ limits.in_flight > 0
             /\ backend = "redis" => \E c \in GrantedOf(t)' : permits'[t][k] = grants'[c].at + Lease
             /\ backend = "memory" => \E c \in GrantedOf(t)' : Bearing(c)' /\ call'[c].token = k
    BY <2>2
  <2>3. QED BY <2>1, <2>2
<1>4. QED BY <1>3 DEF PermitsDated

-----------------------------------------------------------------------------
\* A grant notes its call at the present.
LEMMA GrantDates ==
    ASSUME Sound, Dated, NEW c \in Call, NEW estimate \in Estimates, Grant(c, estimate)
    PROVE  Dated'
<1> DEFINE t == TenantOf[c]
           token == NextTickets(t)[t]
<1>1. /\ t \in Tenant
      /\ UNCHANGED <<backend, limits, now, refused>>
      /\ grants' = [grants EXCEPT ![c] = Fresh(estimate)]
      /\ call[c].phase = "new"
      /\ \A d \in Call : d # c => call'[d] = call[d]
      /\ \/ call'[c] = [phase |-> "held", token |-> token, counted |-> limits.in_flight > 0]
         \/ call'[c] = Ended
  BY GrantCalls
<1>2. grants'[c] = Fresh(estimate) /\ c \in GrantedOf(t)'
  BY <1>1, Begun DEF GrantedOf, Fresh
<1>3. Formed /\ Formed' /\ Grown
  BY GrantForms DEF Sound
<1>4. now \in Nat
  BY DEF Sound, IInv, Typed
<1> HIDE DEF token
<1>5. ASSUME NEW u \in Tenant
      PROVE  RequestsDated(u)' /\ ChargesDated(u)' /\ PermitsDated(u)'
  <2>1. /\ IF u = t /\ limits.in_flight > 0
           THEN Puts(permits'[u], permits[u], StaleSlots(u), token, SlotUntil)
           ELSE Thins(permits'[u], permits[u], StaleSlots(u))
        /\ IF u = t /\ limits.requests > 0
           THEN Puts(requests'[u], requests[u], StaleRequests(u), token, now)
           ELSE Thins(requests'[u], requests[u], StaleRequests(u))
        /\ IF u = t /\ limits.tokens > 0
           THEN Puts(charges'[u], charges[u], StaleCharges(u), token, [at |-> now, amount |-> estimate])
           ELSE Thins(charges'[u], charges[u], StaleCharges(u))
    BY GrantMaps DEF Sound, token
  <2>2. RequestsDated(u)'
    <3>1. ASSUME NEW k \in DOMAIN requests'[u]
          PROVE  \/ k \in DOMAIN requests[u] /\ requests'[u][k] = requests[u][k]
                 \/ \E d \in GrantedOf(u)' : requests'[u][k] = grants'[d].at
      BY <1>2, <2>1 DEF Puts, Thins, Fresh
    <3>2. QED BY <1>3, <3>1, RequestsDatedKept DEF Dated
  <2>3. ChargesDated(u)'
    <3>1. ASSUME NEW k \in DOMAIN charges'[u]
          PROVE  \/ k \in DOMAIN charges[u] /\ charges'[u][k] = charges[u][k]
                 \/ \E d \in GrantedOf(u)' : charges'[u][k].at <= grants'[d].dated
      BY <1>2, <1>4, <2>1 DEF Puts, Thins, Fresh
    <3>2. QED BY <1>3, <3>1, ChargesDatedKept DEF Dated
  <2>4. PermitsDated(u)'
    <3>1. ASSUME NEW k \in DOMAIN permits'[u]
          PROVE  \/ /\ k \in DOMAIN permits[u] /\ permits'[u][k] = permits[u][k]
                    /\ backend = "memory" =>
                          \A d \in GrantedOf(u) : Bearing(d) /\ call[d].token = k
                                                      => Bearing(d)' /\ call'[d].token = k
                 \/ /\ limits.in_flight > 0
                    /\ backend = "redis" => \E d \in GrantedOf(u)' : permits'[u][k] = grants'[d].at + Lease
                    /\ backend = "memory" => \E d \in GrantedOf(u)' : Bearing(d)' /\ call'[d].token = k
      <4>1. \A d \in GrantedOf(u) : Bearing(d) /\ call[d].token = k => Bearing(d)' /\ call'[d].token = k
        BY <1>1 DEF GrantedOf, Bearing
      <4>2. CASE u = t /\ limits.in_flight > 0 /\ k = token
        <5>1. permits'[u][k] = SlotUntil
          BY <2>1, <4>2 DEF Puts
        <5>2. CASE backend = "redis"
          BY <5>1, <5>2, <1>2, <4>2 DEF SlotUntil, Fresh
        <5>3. CASE backend = "memory"
          <6>1. call'[c] = [phase |-> "held", token |-> token, counted |-> limits.in_flight > 0]
            BY <5>3 DEF Grant, Sound, IInv, Typed, token
          <6>2. Bearing(c)' /\ call'[c].token = k
            BY <6>1, <4>2 DEF Bearing
          <6>3. QED BY <6>2, <5>3, <4>2, <1>2
        <5>4. QED BY <5>2, <5>3 DEF Sound, IInv, Typed
      <4>3. CASE ~(u = t /\ limits.in_flight > 0 /\ k = token)
        <5>1. k \in DOMAIN permits[u] /\ permits'[u][k] = permits[u][k]
          BY <2>1, <4>3 DEF Puts, Thins
        <5>2. QED BY <5>1, <4>1
      <4>4. QED BY <4>2, <4>3
    <3>2. QED BY <1>1, <1>3, <3>1, PermitsDatedKept DEF Dated
  <2>5. QED BY <2>2, <2>3, <2>4
<1>6. QED BY <1>5 DEF Dated

\* A step that only takes away from the maps, and no permit of a call that bears it.
LEMMA ThinnedDates ==
    ASSUME Sound, Dated, Formed', Grown, UNCHANGED <<backend, limits>>,
           \A t \in Tenant :
              /\ \A k \in DOMAIN permits'[t] :
                    /\ k \in DOMAIN permits[t] /\ permits'[t][k] = permits[t][k]
                    /\ backend = "memory" =>
                          \A c \in GrantedOf(t) : Bearing(c) /\ call[c].token = k
                                                      => Bearing(c)' /\ call'[c].token = k
              /\ \A k \in DOMAIN requests'[t] : k \in DOMAIN requests[t] /\ requests'[t][k] = requests[t][k]
              /\ \A k \in DOMAIN charges'[t] : k \in DOMAIN charges[t] /\ charges'[t][k] = charges[t][k]
    PROVE  Dated'
<1>1. ASSUME NEW t \in Tenant
      PROVE  RequestsDated(t)' /\ ChargesDated(t)' /\ PermitsDated(t)'
  <2>1. RequestsDated(t) /\ ChargesDated(t) /\ PermitsDated(t) /\ Formed
    BY DEF Dated, Sound
  <2>2. RequestsDated(t)'
    BY <2>1, RequestsDatedKept
  <2>3. ChargesDated(t)'
    BY <2>1, ChargesDatedKept
  <2>4. PermitsDated(t)'
    BY <2>1, PermitsDatedKept
  <2>5. QED BY <2>2, <2>3, <2>4
<1>2. QED BY <1>1 DEF Dated

\* Without limits nothing is noted.
LEMMA GrantUnlimitedDates ==
    ASSUME Sound, Dated, NEW c \in Call, NEW estimate \in Estimates, GrantUnlimited(c, estimate)
    PROVE  Dated'
<1>1. /\ call[c].phase = "new" /\ call' = [call EXCEPT ![c].phase = "held"]
      /\ UNCHANGED <<backend, limits, permits, requests, charges>>
  BY DEF GrantUnlimited, ledger
<1>2. \A d \in Call : Bearing(d) => call'[d] = call[d]
  BY <1>1 DEF Sound, IInv, Typed, Bearing
<1>3. ASSUME NEW t \in Tenant, NEW k
      PROVE  \A d \in GrantedOf(t) : Bearing(d) /\ call[d].token = k => Bearing(d)' /\ call'[d].token = k
  BY <1>2 DEF GrantedOf, Bearing
<1>4. Formed' /\ Grown
  BY GrantUnlimitedForms
<1>5. QED BY <1>1, <1>3, <1>4, ThinnedDates

\* A rejection notes nothing.
LEMMA RejectDates ==
    ASSUME Sound, Dated, NEW c \in Call, NEW estimate \in Estimates, Reject(c, estimate)
    PROVE  Dated'
<1>1. /\ call[c].phase = "new" /\ call' = [call EXCEPT ![c] = Ended]
      /\ UNCHANGED <<backend, limits>>
  BY DEF Reject
<1>2. \A d \in Call : Bearing(d) => call'[d] = call[d]
  BY <1>1 DEF Sound, IInv, Typed, Bearing
<1>3. ASSUME NEW t \in Tenant, NEW k
      PROVE  \A d \in GrantedOf(t) : Bearing(d) /\ call[d].token = k => Bearing(d)' /\ call'[d].token = k
  BY <1>2 DEF GrantedOf, Bearing
<1>4. Formed' /\ Grown
  BY RejectForms
<1>5. ASSUME NEW t \in Tenant
      PROVE  /\ \A k \in DOMAIN permits'[t] : k \in DOMAIN permits[t] /\ permits'[t][k] = permits[t][k]
             /\ \A k \in DOMAIN requests'[t] : k \in DOMAIN requests[t] /\ requests'[t][k] = requests[t][k]
             /\ \A k \in DOMAIN charges'[t] : k \in DOMAIN charges[t] /\ charges'[t][k] = charges[t][k]
  <2>1. /\ Thins(permits'[t], permits[t], StaleSlots(t))
        /\ Thins(requests'[t], requests[t], StaleRequests(t))
        /\ Thins(charges'[t], charges[t], StaleCharges(t))
    BY RejectMaps DEF Sound
  <2>2. QED BY <2>1 DEF Thins
<1>6. QED BY <1>1, <1>3, <1>4, <1>5, ThinnedDates

\* A call whose permit is in a map gives it up with its release.
LEMMA ReleaseDates ==
    ASSUME Sound, Dated, NEW c \in Call, Release(c)
    PROVE  Dated'
<1>1. /\ call[c].phase \in {"held", "settled"} /\ call' = [call EXCEPT ![c] = Ended]
      /\ UNCHANGED <<backend, limits, requests, charges>>
  BY DEF Release
<1>2. \A d \in Call : d # c => call'[d] = call[d]
  BY <1>1 DEF Sound, IInv, Typed
<1>3. Formed' /\ Grown
  BY ReleaseForms
<1>4. ASSUME NEW t \in Tenant, NEW k \in DOMAIN permits'[t]
      PROVE  /\ k \in DOMAIN permits[t] /\ permits'[t][k] = permits[t][k]
             /\ \A d \in GrantedOf(t) : Bearing(d) /\ call[d].token = k => Bearing(d)' /\ call'[d].token = k
  <2>1. IF t = TenantOf[c] /\ call[c].counted
        THEN permits'[t] = Restrict(permits[t], DOMAIN permits[t] \ {call[c].token})
        ELSE permits'[t] = permits[t]
    BY ReleaseMaps DEF Sound
  <2>2. k \in DOMAIN permits[t] /\ permits'[t][k] = permits[t][k]
    BY <2>1 DEF Restrict
  <2>3. call[c].counted
    <3>1. limits.in_flight > 0
      BY <2>2 DEF Dated, PermitsDated
    <3>2. QED BY <1>1, <3>1 DEF Sound, CallsAgree, Bearing
  <2>4. t = TenantOf[c] => k # call[c].token
    BY <2>1, <2>3 DEF Restrict
  <2>5. QED BY <1>2, <2>2, <2>4 DEF GrantedOf, Bearing
<1>5. QED BY <1>1, <1>3, <1>4, ThinnedDates

\* A lost release neither.
LEMMA ReleaseLostDates ==
    ASSUME Sound, Dated, NEW c \in Call, ReleaseLost(c)
    PROVE  Dated'
<1>1. backend # "memory" /\ UNCHANGED <<backend, limits, permits, requests, charges>>
  BY DEF ReleaseLost, ledger
<1>2. Formed' /\ Grown
  BY ReleaseLostForms
<1>3. QED BY <1>1, <1>2, ThinnedDates

\* Time only drops what is noted.
LEMMA TickDates ==
    ASSUME Sound, Dated, Tick
    PROVE  Dated'
<1>1. UNCHANGED <<backend, limits, call>>
  BY DEF Tick
<1>2. Formed' /\ Grown
  BY TickForms
<1>3. ASSUME NEW t \in Tenant
      PROVE  /\ \A k \in DOMAIN permits'[t] : k \in DOMAIN permits[t] /\ permits'[t][k] = permits[t][k]
             /\ \A k \in DOMAIN requests'[t] : k \in DOMAIN requests[t] /\ requests'[t][k] = requests[t][k]
             /\ \A k \in DOMAIN charges'[t] : k \in DOMAIN charges[t] /\ charges'[t][k] = charges[t][k]
  <2>1. /\ permits'[t] = permits[t] \/ permits'[t] = Empty
        /\ requests'[t] = requests[t] \/ requests'[t] = Empty
        /\ charges'[t] = charges[t] \/ charges'[t] = Empty
    BY TickMaps DEF Sound
  <2>2. DOMAIN Empty = {}
    BY DEF Empty
  <2>3. QED BY <2>1, <2>2
<1>4. ASSUME NEW t \in Tenant, NEW k
      PROVE  \A d \in GrantedOf(t) : Bearing(d) /\ call[d].token = k => Bearing(d)' /\ call'[d].token = k
  BY <1>1 DEF Bearing
<1>5. QED BY <1>1, <1>2, <1>3, <1>4, ThinnedDates

-----------------------------------------------------------------------------
(* The charge of a held call, and how long Redis keeps the keys.            *)

\* A held call's charge is not dated before it, and is only gone with its minute.
ChargeHeld(c) ==
    call[c].phase = "held" /\ limits.tokens > 0 =>
       LET t == TenantOf[c]
           k == call[c].token
       IN  /\ k \in DOMAIN charges[t] => grants[c].dated <= charges[t][k].at
           /\ k \notin DOMAIN charges[t] => grants[c].dated + Minute <= now

\* Redis keeps a key for as long as anything in it counts, and the charges no longer
\* than three minutes from one of them.
KeptLong(t) ==
    backend = "redis" =>
       /\ \A k \in DOMAIN permits[t] : permits[t][k] <= live[t].slots
       /\ \A k \in DOMAIN requests[t] : requests[t][k] + Minute <= live[t].requests
       /\ \A k \in DOMAIN charges[t] : charges[t][k].at + Minute <= live[t].charges
       /\ live[t].charges = 0 \/ \E c \in GrantedOf(t) : live[t].charges <= grants[c].dated + 3 * Minute
       /\ live[t].charges <= now => DOMAIN charges[t] = {} /\ total[t] = 0

\* A key is given twice the time at most.
NotLonger(t) ==
    /\ live[t].slots <= now + 2 * Lease
    /\ live[t].requests <= now + 2 * Minute
    /\ live[t].charges <= now + 2 * Minute

\* Held calls are charged, and Redis keeps the keys long enough, and not for ever.
Held == (\A c \in Call : ChargeHeld(c)) /\ (\A t \in Tenant : KeptLong(t) /\ NotLonger(t))

-----------------------------------------------------------------------------
\* The charge of a call that a step leaves held.
LEMMA ChargeHeldKept ==
    ASSUME Sound, Formed', NEW c \in Call, ChargeHeld(c), limits' = limits, now <= now', now' \in Nat,
           call'[c] = call[c], grants'[c] = grants[c],
           \A k \in DOMAIN charges'[TenantOf[c]] :
              \/ /\ k \in DOMAIN charges[TenantOf[c]]
                 /\ charges'[TenantOf[c]][k] = charges[TenantOf[c]][k]
              \/ charges'[TenantOf[c]][k].at = now,
           \A k \in DOMAIN charges[TenantOf[c]] \ DOMAIN charges'[TenantOf[c]] :
              charges[TenantOf[c]][k].at + Minute <= now'
    PROVE  ChargeHeld(c)'
<1> DEFINE t == TenantOf[c]
           k == call[c].token
<1>1. SUFFICES ASSUME call[c].phase = "held", limits.tokens > 0
               PROVE  /\ k \in DOMAIN charges'[t] => grants[c].dated <= charges'[t][k].at
                      /\ k \notin DOMAIN charges'[t] => grants[c].dated + Minute <= now'
  BY DEF ChargeHeld
<1>2. /\ t \in Tenant /\ now \in Nat /\ grants[c].dated \in Nat /\ Minute \in Nat
      /\ \A j \in DOMAIN charges[t] : charges[t][j].at \in Nat
  BY ConstantsAssumption DEF Sound, Formed, MapsFormed, Charge, IInv, Typed, Promise!Grant
<1>3. /\ k \in DOMAIN charges[t] => grants[c].dated <= charges[t][k].at
      /\ k \notin DOMAIN charges[t] => grants[c].dated + Minute <= now
  BY <1>1 DEF ChargeHeld
<1>4. grants[c].dated <= now
  BY <1>1 DEF Sound, CallsAgree, Bearing
<1>5. ASSUME k \in DOMAIN charges'[t]
      PROVE  grants[c].dated <= charges'[t][k].at
  <2>1. CASE k \in DOMAIN charges[t] /\ charges'[t][k] = charges[t][k]
    BY <2>1, <1>3
  <2>2. CASE charges'[t][k].at = now
    BY <2>2, <1>4
  <2>3. QED BY <2>1, <2>2, <1>5
<1>6. ASSUME k \notin DOMAIN charges'[t]
      PROVE  grants[c].dated + Minute <= now'
  <2>1. CASE k \in DOMAIN charges[t]
    <3>1. charges[t][k].at + Minute <= now' /\ grants[c].dated <= charges[t][k].at
      BY <2>1, <1>6, <1>3
    <3>2. QED BY <3>1, <1>2, <2>1
  <2>2. CASE k \notin DOMAIN charges[t]
    BY <2>2, <1>2, <1>3
  <2>3. QED BY <2>1, <2>2
<1>7. QED BY <1>5, <1>6

\* What Redis keeps, when a step notes nothing that it does not keep.
LEMMA KeptLongKept ==
    ASSUME Sound, Formed', Grown, NEW t \in Tenant, KeptLong(t), backend' = backend,
           now' \in Nat, live' \in [Tenant -> Keys],
           backend = "redis" =>
              /\ live[t].slots <= live'[t].slots /\ live[t].requests <= live'[t].requests
              /\ live[t].charges <= live'[t].charges
              /\ \A k \in DOMAIN permits'[t] :
                    \/ k \in DOMAIN permits[t] /\ permits'[t][k] = permits[t][k]
                    \/ permits'[t][k] <= live'[t].slots
              /\ \A k \in DOMAIN requests'[t] :
                    \/ k \in DOMAIN requests[t] /\ requests'[t][k] = requests[t][k]
                    \/ requests'[t][k] + Minute <= live'[t].requests
              /\ \A k \in DOMAIN charges'[t] :
                    \/ k \in DOMAIN charges[t] /\ charges'[t][k] = charges[t][k]
                    \/ charges'[t][k].at + Minute <= live'[t].charges
              /\ \/ live'[t].charges = live[t].charges
                 \/ \E c \in GrantedOf(t)' : live'[t].charges <= grants'[c].dated + 3 * Minute
              /\ live'[t].charges <= now' => DOMAIN charges'[t] = {} /\ total'[t] = 0
    PROVE  KeptLong(t)'
<1>1. SUFFICES ASSUME backend = "redis"
               PROVE  KeptLong(t)'
  BY DEF KeptLong
<1>2. /\ live[t].slots \in Nat /\ live'[t].slots \in Nat
      /\ live[t].requests \in Nat /\ live'[t].requests \in Nat
      /\ live[t].charges \in Nat /\ live'[t].charges \in Nat /\ Minute \in Nat
  BY ConstantsAssumption DEF Sound, IInv, Typed, Keys
<1>3. MapsFormed(t)
  BY DEF Sound, Formed
<1>4. \A k \in DOMAIN permits'[t] : permits'[t][k] <= live'[t].slots
  <2>1. \A k \in DOMAIN permits[t] : permits[t][k] \in Nat /\ permits[t][k] <= live[t].slots
    BY <1>1, <1>3 DEF KeptLong, MapsFormed
  <2>2. QED BY <2>1, <1>1, <1>2
<1>5. \A k \in DOMAIN requests'[t] : requests'[t][k] + Minute <= live'[t].requests
  <2>1. \A k \in DOMAIN requests[t] : requests[t][k] \in Nat /\ requests[t][k] + Minute <= live[t].requests
    BY <1>1, <1>3 DEF KeptLong, MapsFormed
  <2>2. QED BY <2>1, <1>1, <1>2
<1>6. \A k \in DOMAIN charges'[t] : charges'[t][k].at + Minute <= live'[t].charges
  <2>1. \A k \in DOMAIN charges[t] : charges[t][k].at \in Nat /\ charges[t][k].at + Minute <= live[t].charges
    BY <1>1, <1>3 DEF KeptLong, MapsFormed, Charge
  <2>2. QED BY <2>1, <1>1, <1>2
<1>7. live'[t].charges = 0 \/ \E c \in GrantedOf(t)' : live'[t].charges <= grants'[c].dated + 3 * Minute
  <2>1. CASE live'[t].charges = live[t].charges /\ live[t].charges # 0
    <3>1. PICK c \in GrantedOf(t) : live[t].charges <= grants[c].dated + 3 * Minute
      BY <1>1, <2>1 DEF KeptLong
    <3>2. c \in GrantedOf(t)' /\ grants[c].dated <= grants'[c].dated
      BY DEF GrantedOf, Grown
    <3>3. grants[c].dated \in Nat /\ grants'[c].dated \in Nat
      BY <3>2 DEF Sound, Formed, Promise!Grant, GrantedOf
    <3>4. live'[t].charges <= grants'[c].dated + 3 * Minute
      BY <1>2, <2>1, <3>1, <3>2, <3>3
    <3>5. QED BY <3>2, <3>4
  <2>2. QED BY <1>1, <2>1
<1>8. QED BY <1>1, <1>4, <1>5, <1>6, <1>7 DEF KeptLong

-----------------------------------------------------------------------------
\* An empty total stays empty when it is pruned.
LEMMA PrunedNone ==
    ASSUME Formed, NEW t \in Tenant, NEW u, total[t] = 0
    PROVE  PrunedTotal(t, u) = 0
<1>1. Amounts(t, StaleCharges(t)) \in Nat
  BY AmountsNat DEF StaleCharges
<1>2. QED BY <1>1 DEF PrunedTotal, MaxOf

\* A grant charges its call, under a token that no other bears.
LEMMA GrantHolds ==
    ASSUME Sound, Dated, Held, NEW c \in Call, NEW estimate \in Estimates, Grant(c, estimate)
    PROVE  Held'
<1> DEFINE t == TenantOf[c]
           token == NextTickets(t)[t]
<1>1. /\ t \in Tenant
      /\ UNCHANGED <<backend, limits, now, refused>>
      /\ grants' = [grants EXCEPT ![c] = Fresh(estimate)]
      /\ call[c].phase = "new"
      /\ \A d \in Call : d # c => call'[d] = call[d]
      /\ \/ call'[c] = [phase |-> "held", token |-> token, counted |-> limits.in_flight > 0]
         \/ call'[c] = Ended
  BY GrantCalls
<1>2. /\ grants'[c] = Fresh(estimate) /\ c \in GrantedOf(t)'
      /\ \A d \in Call : d # c => grants'[d] = grants[d]
  BY <1>1, Begun DEF GrantedOf, Fresh
<1>3. Formed /\ Formed' /\ Grown
  BY GrantForms DEF Sound
<1>4. now \in Nat /\ now' \in Nat /\ Minute \in Nat \ {0} /\ Lease \in Nat \ {0}
  BY <1>1, ConstantsAssumption DEF Sound, IInv, Typed
<1>5. live' = Kept(t) /\ live \in [Tenant -> Keys] /\ live' \in [Tenant -> Keys]
  <2>1. IInv'
    BY GrantKeeps DEF Sound
  <2>2. QED BY <2>1 DEF Grant, Sound, IInv, Typed
<1> HIDE DEF token
<1>6. \A u \in Tenant :
        /\ IF u = t /\ limits.in_flight > 0
           THEN Puts(permits'[u], permits[u], StaleSlots(u), token, SlotUntil)
           ELSE Thins(permits'[u], permits[u], StaleSlots(u))
        /\ IF u = t /\ limits.requests > 0
           THEN Puts(requests'[u], requests[u], StaleRequests(u), token, now)
           ELSE Thins(requests'[u], requests[u], StaleRequests(u))
        /\ IF u = t /\ limits.tokens > 0
           THEN Puts(charges'[u], charges[u], StaleCharges(u), token, [at |-> now, amount |-> estimate])
           ELSE Thins(charges'[u], charges[u], StaleCharges(u))
  BY GrantMaps DEF Sound, token
<1>7. ASSUME NEW d \in Call
      PROVE  ChargeHeld(d)'
  <2>1. CASE d # c
    <3>1. call'[d] = call[d] /\ grants'[d] = grants[d] /\ ChargeHeld(d) /\ TenantOf[d] \in Tenant
      BY <1>1, <1>2, <2>1, ConstantsAssumption DEF Held
    <3>2. \A k \in DOMAIN charges'[TenantOf[d]] :
              \/ /\ k \in DOMAIN charges[TenantOf[d]]
                 /\ charges'[TenantOf[d]][k] = charges[TenantOf[d]][k]
              \/ charges'[TenantOf[d]][k].at = now
      BY <3>1, <1>6 DEF Puts, Thins
    <3>3. \A k \in DOMAIN charges[TenantOf[d]] \ DOMAIN charges'[TenantOf[d]] :
              charges[TenantOf[d]][k].at + Minute <= now'
      BY <3>1, <1>1, <1>6 DEF Puts, Thins, StaleCharges
    <3>4. QED BY <1>1, <1>3, <1>4, <3>1, <3>2, <3>3, ChargeHeldKept
  <2>2. CASE d = c
    <3>1. CASE call'[c] = Ended
      BY <2>2, <3>1 DEF ChargeHeld, Ended, NewCall
    <3>2. CASE call'[c] = [phase |-> "held", token |-> token, counted |-> limits.in_flight > 0]
      <4>1. call'[c].token = token
        BY <3>2
      <4>2. limits.tokens > 0 => token \in DOMAIN charges'[t] /\ charges'[t][token].at = now
        BY <1>1, <1>6 DEF Puts
      <4>3. grants'[c].dated = now
        BY <1>2 DEF Fresh
      <4>4. QED BY <1>1, <1>4, <2>2, <4>1, <4>2, <4>3 DEF ChargeHeld
    <3>3. QED BY <1>1, <3>1, <3>2
  <2>3. QED BY <2>1, <2>2
<1>8. ASSUME NEW u \in Tenant
      PROVE  KeptLong(u)' /\ NotLonger(u)'
  <2>1. KeptLong(u) /\ NotLonger(u)
    BY DEF Held
  <2>0. live[u] \in Keys /\ live'[u] \in Keys
    BY <1>5
  <2>4. CASE backend = "redis" /\ u = t
    <3>1. /\ live'[u].slots = IF limits.in_flight > 0 THEN now + 2 * Lease ELSE live[u].slots
          /\ live'[u].requests = IF limits.requests > 0 THEN now + 2 * Minute ELSE live[u].requests
          /\ live'[u].charges = IF limits.tokens > 0 THEN now + 2 * Minute ELSE live[u].charges
      BY <1>1, <1>5, <2>4 DEF Kept
    <3>0. /\ live[u].slots \in Nat /\ live[u].requests \in Nat /\ live[u].charges \in Nat
          /\ live'[u].slots \in Nat /\ live'[u].requests \in Nat /\ live'[u].charges \in Nat
      BY <2>0 DEF Keys
    <3>2. /\ live[u].slots <= live'[u].slots /\ live[u].requests <= live'[u].requests
          /\ live[u].charges <= live'[u].charges
          /\ NotLonger(u)'
      BY <3>0, <3>1, <2>1, <1>1, <1>4 DEF NotLonger
    <3>3. ASSUME NEW k \in DOMAIN permits'[u]
          PROVE  \/ k \in DOMAIN permits[u] /\ permits'[u][k] = permits[u][k]
                 \/ permits'[u][k] <= live'[u].slots
      <4>1. CASE limits.in_flight > 0 /\ k = token
        BY <1>4, <1>6, <2>4, <3>1, <4>1 DEF Puts, SlotUntil
      <4>2. CASE ~(limits.in_flight > 0 /\ k = token)
        BY <1>6, <2>4, <4>2 DEF Puts, Thins
      <4>3. QED BY <4>1, <4>2
    <3>4. ASSUME NEW k \in DOMAIN requests'[u]
          PROVE  \/ k \in DOMAIN requests[u] /\ requests'[u][k] = requests[u][k]
                 \/ requests'[u][k] + Minute <= live'[u].requests
      <4>1. CASE limits.requests > 0 /\ k = token
        BY <1>4, <1>6, <2>4, <3>1, <4>1 DEF Puts
      <4>2. CASE ~(limits.requests > 0 /\ k = token)
        BY <1>6, <2>4, <4>2 DEF Puts, Thins
      <4>3. QED BY <4>1, <4>2
    <3>5. ASSUME NEW k \in DOMAIN charges'[u]
          PROVE  \/ k \in DOMAIN charges[u] /\ charges'[u][k] = charges[u][k]
                 \/ charges'[u][k].at + Minute <= live'[u].charges
      <4>1. CASE limits.tokens > 0 /\ k = token
        BY <1>4, <1>6, <2>4, <3>1, <4>1 DEF Puts
      <4>2. CASE ~(limits.tokens > 0 /\ k = token)
        BY <1>6, <2>4, <4>2 DEF Puts, Thins
      <4>3. QED BY <4>1, <4>2
    <3>6. \/ live'[u].charges = live[u].charges
          \/ \E d \in GrantedOf(u)' : live'[u].charges <= grants'[d].dated + 3 * Minute
      <4>1. grants'[c].dated = now
        BY <1>2 DEF Fresh
      <4>2. now + 2 * Minute <= now + 3 * Minute
        BY <1>4
      <4>3. QED BY <3>1, <4>1, <4>2, <2>4, <1>2
    <3>7. live'[u].charges <= now' => DOMAIN charges'[u] = {} /\ total'[u] = 0
      <4>1. CASE limits.tokens > 0
        BY <1>1, <1>4, <3>1, <4>1
      <4>2. CASE ~(limits.tokens > 0)
        <5>1. Thins(charges'[u], charges[u], StaleCharges(u))
          BY <1>6, <4>2
        <5>2. total'[u] = PrunedTotal(u, t)
          BY <2>4, <4>2 DEF Grant, Write
        <5>3. total[u] = 0 => PrunedTotal(u, t) = 0
          BY PrunedNone DEF Sound
        <5>4. QED BY <5>1, <5>2, <5>3, <3>1, <4>2, <2>1, <2>4, <1>1 DEF KeptLong, Thins
      <4>3. QED BY <4>1, <4>2
    <3>8. KeptLong(u)'
      BY <1>1, <1>3, <1>4, <1>5, <2>1, <3>2, <3>3, <3>4, <3>5, <3>6, <3>7, KeptLongKept
    <3>9. QED BY <3>2, <3>8
  <2>5. CASE ~(backend = "redis" /\ u = t)
    <3>1. live'[u] = live[u]
      BY <1>1, <1>5, <2>5 DEF Kept, Sound, IInv, Typed
    <3>2. /\ live[u].slots \in Nat /\ live[u].requests \in Nat /\ live[u].charges \in Nat
      BY <2>0 DEF Keys
    <3>3. NotLonger(u)'
      BY <3>1, <2>1, <1>1 DEF NotLonger
    <3>4. ASSUME backend = "redis"
          PROVE  /\ Thins(permits'[u], permits[u], StaleSlots(u))
                 /\ Thins(requests'[u], requests[u], StaleRequests(u))
                 /\ Thins(charges'[u], charges[u], StaleCharges(u))
      BY <3>4, <2>5, <1>6
    <3>5. ASSUME backend = "redis", live'[u].charges <= now'
          PROVE  DOMAIN charges'[u] = {} /\ total'[u] = 0
      <4>1. total'[u] = PrunedTotal(u, t)
        BY <3>5, <2>5 DEF Grant, Write
      <4>2. total[u] = 0 => PrunedTotal(u, t) = 0
        BY PrunedNone DEF Sound
      <4>3. QED BY <4>1, <4>2, <3>1, <3>4, <3>5, <2>1, <1>1 DEF KeptLong, Thins
    <3>6. KeptLong(u)'
      <4>1. ASSUME backend = "redis"
            PROVE  /\ \A k \in DOMAIN permits'[u] : k \in DOMAIN permits[u] /\ permits'[u][k] = permits[u][k]
                   /\ \A k \in DOMAIN requests'[u] : k \in DOMAIN requests[u] /\ requests'[u][k] = requests[u][k]
                   /\ \A k \in DOMAIN charges'[u] : k \in DOMAIN charges[u] /\ charges'[u][k] = charges[u][k]
        BY <3>4, <4>1 DEF Thins
      <4>2. /\ live[u].slots <= live'[u].slots /\ live[u].requests <= live'[u].requests
            /\ live[u].charges <= live'[u].charges
        BY <3>1, <3>2
      <4>3. QED BY <1>1, <1>3, <1>4, <1>5, <2>1, <3>1, <3>5, <4>1, <4>2, KeptLongKept
    <3>7. QED BY <3>3, <3>6
  <2>6. QED BY <2>4, <2>5
<1>9. QED BY <1>7, <1>8 DEF Held

\* A step that only takes away what is stale, or given back, leaves the rest as it is.
LEMMA ThinnedHolds ==
    ASSUME Sound, Held, Formed', Grown, UNCHANGED <<backend, limits, now, live>>,
           \A t \in Tenant :
              /\ \A k \in DOMAIN permits'[t] : k \in DOMAIN permits[t] /\ permits'[t][k] = permits[t][k]
              /\ Thins(requests'[t], requests[t], StaleRequests(t))
              /\ Thins(charges'[t], charges[t], StaleCharges(t))
              /\ total[t] = 0 => total'[t] = 0,
           \A c \in Call : call'[c].phase = "held" /\ limits.tokens > 0
                              => call'[c] = call[c] /\ grants'[c] = grants[c]
    PROVE  Held'
<1>1. now \in Nat /\ now' = now /\ live \in [Tenant -> Keys] /\ live' \in [Tenant -> Keys]
  BY DEF Sound, IInv, Typed
<1>2. ASSUME NEW c \in Call
      PROVE  ChargeHeld(c)'
  <2>1. CASE call'[c].phase = "held" /\ limits.tokens > 0
    <3>1. call'[c] = call[c] /\ grants'[c] = grants[c] /\ ChargeHeld(c) /\ TenantOf[c] \in Tenant
      BY <2>1, ConstantsAssumption DEF Held
    <3>2. Thins(charges'[TenantOf[c]], charges[TenantOf[c]], StaleCharges(TenantOf[c]))
      BY <3>1
    <3>3. /\ \A k \in DOMAIN charges'[TenantOf[c]] :
                /\ k \in DOMAIN charges[TenantOf[c]]
                /\ charges'[TenantOf[c]][k] = charges[TenantOf[c]][k]
          /\ \A k \in DOMAIN charges[TenantOf[c]] \ DOMAIN charges'[TenantOf[c]] :
                charges[TenantOf[c]][k].at + Minute <= now
      BY <3>2 DEF Thins, StaleCharges
    <3>4. QED BY <1>1, <3>1, <3>3, ChargeHeldKept
  <2>2. CASE ~(call'[c].phase = "held" /\ limits.tokens > 0)
    BY <2>2 DEF ChargeHeld
  <2>3. QED BY <2>1, <2>2
<1>3. ASSUME NEW t \in Tenant
      PROVE  KeptLong(t)' /\ NotLonger(t)'
  <2>1. KeptLong(t) /\ NotLonger(t)
    BY DEF Held
  <2>2. NotLonger(t)'
    BY <2>1 DEF NotLonger
  <2>3. /\ \A k \in DOMAIN permits'[t] : k \in DOMAIN permits[t] /\ permits'[t][k] = permits[t][k]
        /\ \A k \in DOMAIN requests'[t] : k \in DOMAIN requests[t] /\ requests'[t][k] = requests[t][k]
        /\ \A k \in DOMAIN charges'[t] : k \in DOMAIN charges[t] /\ charges'[t][k] = charges[t][k]
        /\ DOMAIN charges[t] = {} => DOMAIN charges'[t] = {}
    BY DEF Thins
  <2>4. /\ live[t].slots <= live'[t].slots /\ live[t].requests <= live'[t].requests
        /\ live[t].charges <= live'[t].charges
    BY <1>1 DEF Keys
  <2>5. backend = "redis" /\ live'[t].charges <= now' => DOMAIN charges'[t] = {} /\ total'[t] = 0
    BY <2>1, <2>3 DEF KeptLong
  <2>6. KeptLong(t)'
    BY <1>1, <2>1, <2>3, <2>4, <2>5, KeptLongKept
  <2>7. QED BY <2>2, <2>6
<1>4. QED BY <1>2, <1>3 DEF Held

\* Without limits no charge is held.
LEMMA GrantUnlimitedHolds ==
    ASSUME Sound, Held, NEW c \in Call, NEW estimate \in Estimates, GrantUnlimited(c, estimate)
    PROVE  Held'
<1>1. Formed' /\ Grown
  BY GrantUnlimitedForms
<1>2. /\ UNCHANGED <<backend, limits, now, live, permits, requests, charges, total>> /\ limits.tokens = 0
  BY DEF GrantUnlimited, ledger, Unlimited
<1>3. \A t \in Tenant : /\ Thins(requests'[t], requests[t], StaleRequests(t))
                        /\ Thins(charges'[t], charges[t], StaleCharges(t))
  BY <1>2 DEF Thins
<1>4. QED BY <1>1, <1>2, <1>3, ThinnedHolds

\* A rejection prunes only what is stale.
LEMMA RejectHolds ==
    ASSUME Sound, Held, NEW c \in Call, NEW estimate \in Estimates, Reject(c, estimate)
    PROVE  Held'
<1>1. Formed' /\ Grown
  BY RejectForms
<1>2. /\ UNCHANGED <<backend, limits, now, live, grants>> /\ call' = [call EXCEPT ![c] = Ended]
      /\ Prune(TenantOf[c])
  BY DEF Reject
<1>3. \A d \in Call : call'[d].phase = "held" => call'[d] = call[d] /\ grants'[d] = grants[d]
  BY <1>2 DEF Ended, NewCall, Sound, IInv, Typed
<1>4. ASSUME NEW t \in Tenant
      PROVE  /\ \A k \in DOMAIN permits'[t] : k \in DOMAIN permits[t] /\ permits'[t][k] = permits[t][k]
             /\ Thins(requests'[t], requests[t], StaleRequests(t))
             /\ Thins(charges'[t], charges[t], StaleCharges(t))
             /\ total[t] = 0 => total'[t] = 0
  <2>1. /\ Thins(permits'[t], permits[t], StaleSlots(t))
        /\ Thins(requests'[t], requests[t], StaleRequests(t))
        /\ Thins(charges'[t], charges[t], StaleCharges(t))
    BY RejectMaps DEF Sound
  <2>2. total'[t] = PrunedTotal(t, TenantOf[c])
    BY <1>2 DEF Prune
  <2>3. QED BY <2>1, <2>2, PrunedNone DEF Thins, Sound
<1>5. QED BY <1>1, <1>2, <1>3, <1>4, ThinnedHolds

\* A released call holds no charge any more.
LEMMA ReleaseHolds ==
    ASSUME Sound, Held, NEW c \in Call, Release(c) \/ ReleaseLost(c)
    PROVE  Held'
<1>1. Formed' /\ Grown
  BY ReleaseForms, ReleaseLostForms
<1>2. /\ UNCHANGED <<backend, limits, now, live, requests, charges, total>>
      /\ call' = [call EXCEPT ![c] = Ended]
      /\ grants' = grants \/ grants' = [grants EXCEPT ![c].open = FALSE]
  BY DEF Release, ReleaseLost, ledger, history
<1>3. \A d \in Call : call'[d].phase = "held" => call'[d] = call[d] /\ grants'[d] = grants[d]
  <2>1. \A d \in Call : d # c => call'[d] = call[d] /\ grants'[d] = grants[d]
    BY <1>2 DEF Sound, IInv, Typed, Formed
  <2>2. call'[c].phase = "ended"
    BY <1>2 DEF Ended, NewCall, Sound, IInv, Typed
  <2>3. QED BY <2>1, <2>2
<1>4. ASSUME NEW t \in Tenant
      PROVE  /\ \A k \in DOMAIN permits'[t] : k \in DOMAIN permits[t] /\ permits'[t][k] = permits[t][k]
             /\ Thins(requests'[t], requests[t], StaleRequests(t))
             /\ Thins(charges'[t], charges[t], StaleCharges(t))
  <2>1. CASE Release(c)
    <3>1. \/ permits'[t] = Restrict(permits[t], DOMAIN permits[t] \ {call[c].token})
          \/ permits'[t] = permits[t]
      BY <2>1, ReleaseMaps DEF Sound
    <3>2. QED BY <3>1, <1>2 DEF Restrict, Thins
  <2>2. CASE ReleaseLost(c)
    BY <2>2, <1>2 DEF ReleaseLost, ledger, Thins
  <2>3. QED BY <2>1, <2>2
<1>5. QED BY <1>1, <1>2, <1>3, <1>4, ThinnedHolds

\* A key that expires is over for every call that held it.
LEMMA TickHolds ==
    ASSUME Sound, Held, Tick
    PROVE  Held'
<1>1. Formed' /\ Grown
  BY TickForms
<1>2. now' = now + 1 /\ UNCHANGED <<backend, limits, live, call, grants>>
  BY DEF Tick, history
<1>3. /\ now \in Nat /\ now' \in Nat /\ live \in [Tenant -> Keys] /\ live' \in [Tenant -> Keys]
      /\ Minute \in Nat /\ Lease \in Nat
  BY <1>2, ConstantsAssumption DEF Sound, IInv, Typed
<1>4. \A t \in Tenant :
         /\ permits'[t] = permits[t] \/ permits'[t] = Empty
         /\ requests'[t] = requests[t] \/ requests'[t] = Empty
         /\ IF backend = "redis" /\ live[t].charges = now + 1
            THEN charges'[t] = Empty /\ total'[t] = 0
            ELSE charges'[t] = charges[t] /\ total'[t] = total[t]
  BY TickMaps DEF Sound
<1>5. DOMAIN Empty = {}
  BY DEF Empty
<1>6. ASSUME NEW c \in Call
      PROVE  ChargeHeld(c)'
  <2> DEFINE t == TenantOf[c]
  <2>1. t \in Tenant /\ ChargeHeld(c) /\ KeptLong(t)
    BY ConstantsAssumption DEF Held
  <2>2. \A k \in DOMAIN charges'[t] : k \in DOMAIN charges[t] /\ charges'[t][k] = charges[t][k]
    BY <1>4, <1>5, <2>1
  <2>3. \A k \in DOMAIN charges[t] \ DOMAIN charges'[t] : charges[t][k].at + Minute <= now'
    BY <1>2, <1>4, <2>1 DEF KeptLong
  <2>4. now <= now'
    BY <1>2, <1>3
  <2>5. QED BY <1>1, <1>2, <1>3, <2>1, <2>2, <2>3, <2>4, ChargeHeldKept
<1>7. ASSUME NEW t \in Tenant
      PROVE  KeptLong(t)' /\ NotLonger(t)'
  <2>1. KeptLong(t) /\ NotLonger(t)
    BY DEF Held
  <2>2. /\ live[t].slots \in Nat /\ live[t].requests \in Nat /\ live[t].charges \in Nat
    BY <1>3 DEF Keys
  <2>3. NotLonger(t)'
    BY <1>2, <1>3, <2>1, <2>2 DEF NotLonger
  <2>4. /\ \A k \in DOMAIN permits'[t] : k \in DOMAIN permits[t] /\ permits'[t][k] = permits[t][k]
        /\ \A k \in DOMAIN requests'[t] : k \in DOMAIN requests[t] /\ requests'[t][k] = requests[t][k]
        /\ \A k \in DOMAIN charges'[t] : k \in DOMAIN charges[t] /\ charges'[t][k] = charges[t][k]
    BY <1>4, <1>5
  <2>5. backend = "redis" /\ live'[t].charges <= now' => DOMAIN charges'[t] = {} /\ total'[t] = 0
    <3>1. CASE backend = "redis" /\ live[t].charges = now + 1
      BY <3>1, <1>4, <1>5
    <3>2. CASE ~(backend = "redis" /\ live[t].charges = now + 1)
      <4>1. backend = "redis" /\ live'[t].charges <= now' => live[t].charges <= now
        BY <1>2, <1>3, <2>2, <3>2
      <4>2. QED BY <4>1, <1>4, <2>1, <3>2 DEF KeptLong
    <3>3. QED BY <3>1, <3>2
  <2>6. /\ live[t].slots <= live'[t].slots /\ live[t].requests <= live'[t].requests
        /\ live[t].charges <= live'[t].charges /\ live'[t].charges = live[t].charges
    BY <1>2, <2>2
  <2>7. KeptLong(t)'
    BY <1>1, <1>2, <1>3, <2>1, <2>4, <2>5, <2>6, KeptLongKept
  <2>8. QED BY <2>3, <2>7
<1>8. QED BY <1>6, <1>7 DEF Held

-----------------------------------------------------------------------------
\* A settlement puts its charge in the minute it belongs to.
LEMMA SettleDates ==
    ASSUME Sound, Dated, Held, NEW c \in Call, NEW actual \in Actual, Settle(c, actual)
    PROVE  Dated' /\ Held'
<1> DEFINE t == TenantOf[c]
           token == call[c].token
<1>1. /\ call[c].phase = "held" /\ UNCHANGED <<backend, limits, now, permits, requests, count, refused, unique>>
      /\ call'[c].phase = "settled" /\ call'[c].token = call[c].token /\ call'[c].counted = call[c].counted
      /\ \A d \in Call : d # c => call'[d] = call[d] /\ grants'[d] = grants[d]
      /\ grants'[c] = [granted |-> grants[c].granted, at |-> grants[c].at,
                       dated |-> IF grants[c].dated + Minute > now THEN grants[c].dated ELSE now,
                       tokens |-> actual, open |-> grants[c].open]
      /\ grants[c].granted
  BY SettleCalls
<1>2. /\ now \in Nat /\ now' \in Nat /\ t \in Tenant /\ Minute \in Nat
      /\ \A d \in Call : grants[d].dated \in Nat
      /\ live \in [Tenant -> Keys]
      /\ \A u \in Tenant : \A k \in DOMAIN charges[u] : charges[u][k].at \in Nat
  BY <1>1, ConstantsAssumption DEF Sound, Formed, IInv, Typed, Promise!Grant, MapsFormed, Charge
<1>3. Formed' /\ Grown
  BY SettleForms
<1>4. c \in GrantedOf(t)'
  BY <1>1 DEF GrantedOf
<1> HIDE DEF token
<1>5. ASSUME NEW u \in Tenant
      PROVE  /\ limits.tokens = 0 => charges' = charges
             /\ limits.tokens > 0 =>
                   IF u = t
                   THEN Puts(charges'[u], charges[u], StaleCharges(u), token, Resettlement(t, token, actual))
                   ELSE Thins(charges'[u], charges[u], StaleCharges(u))
  BY SettleMaps DEF Sound, token
<1>6. Resettlement(t, token, actual).at <= now /\ Resettlement(t, token, actual).at \in Nat
  <2>1. CASE token \in DOMAIN charges[t] \ StaleCharges(t)
    <3>1. PICK d \in GrantedOf(t) : charges[t][token].at <= grants[d].dated
      BY <1>2, <2>1 DEF Dated, ChargesDated
    <3>2. grants[d].dated <= now
      BY DEF GrantedOf, Sound, CallsAgree
    <3>3. Resettlement(t, token, actual).at = charges[t][token].at /\ charges[t][token].at \in Nat
      BY <1>2, <2>1 DEF Resettlement
    <3>4. QED BY <1>2, <3>1, <3>2, <3>3 DEF GrantedOf
  <2>2. CASE token \notin DOMAIN charges[t] \ StaleCharges(t)
    BY <1>2, <2>2 DEF Resettlement
  <2>3. QED BY <2>1, <2>2
\* The charge keeps its date while its minute lasts, and the grant then does so too.
<1>7. \E d \in GrantedOf(t)' : limits.tokens > 0 => Resettlement(t, token, actual).at <= grants'[d].dated
  <2>1. CASE token \in DOMAIN charges[t] \ StaleCharges(t)
    <3>1. PICK d \in GrantedOf(t) : charges[t][token].at <= grants[d].dated
      BY <1>2, <2>1 DEF Dated, ChargesDated
    <3>2. d \in GrantedOf(t)' /\ grants[d].dated <= grants'[d].dated
      BY <1>3 DEF GrantedOf, Grown
    <3>3. Resettlement(t, token, actual).at = charges[t][token].at /\ charges[t][token].at \in Nat
      BY <1>2, <2>1 DEF Resettlement
    <3>4. grants[d].dated \in Nat /\ grants'[d].dated \in Nat
      BY <1>3 DEF GrantedOf, Sound, Formed, Promise!Grant
    <3>5. Resettlement(t, token, actual).at <= grants'[d].dated
      BY <3>1, <3>2, <3>3, <3>4
    <3>6. QED BY <3>2, <3>5
  <2>2. CASE token \notin DOMAIN charges[t] \ StaleCharges(t)
    <3>1. Resettlement(t, token, actual).at = now
      BY <2>2 DEF Resettlement
    <3>2. limits.tokens > 0 => grants[c].dated + Minute <= now
      <4>1. CASE token \in DOMAIN charges[t]
        <5>1. charges[t][token].at + Minute <= now /\ charges[t][token].at \in Nat
          BY <2>2, <4>1, <1>2 DEF StaleCharges
        <5>2. limits.tokens > 0 => grants[c].dated <= charges[t][token].at
          BY <1>1, <4>1 DEF Held, ChargeHeld, token
        <5>3. QED BY <5>1, <5>2, <1>2
      <4>2. CASE token \notin DOMAIN charges[t]
        BY <1>1, <4>2 DEF Held, ChargeHeld, token
      <4>3. QED BY <4>1, <4>2
    <3>3. limits.tokens > 0 => grants'[c].dated = now
      BY <1>1, <1>2, <3>2
    <3>4. QED BY <1>2, <1>4, <3>1, <3>3
  <2>3. QED BY <2>1, <2>2
<1>8. ASSUME NEW u \in Tenant
      PROVE  RequestsDated(u)' /\ ChargesDated(u)' /\ PermitsDated(u)'
  <2>1. RequestsDated(u) /\ ChargesDated(u) /\ PermitsDated(u) /\ Formed
    BY DEF Dated, Sound
  <2>2. RequestsDated(u)'
    BY <1>1, <1>3, <2>1, RequestsDatedKept
  <2>3. ChargesDated(u)'
    <3>1. ASSUME NEW k \in DOMAIN charges'[u]
          PROVE  \/ k \in DOMAIN charges[u] /\ charges'[u][k] = charges[u][k]
                 \/ \E d \in GrantedOf(u)' : charges'[u][k].at <= grants'[d].dated
      <4>1. CASE limits.tokens > 0 /\ u = t /\ k = token
        <5>1. charges'[u][k] = Resettlement(t, token, actual)
          BY <1>5, <4>1 DEF Puts
        <5>2. QED BY <5>1, <1>7, <4>1
      <4>2. CASE ~(limits.tokens > 0 /\ u = t /\ k = token)
        <5>1. limits.tokens = 0 \/ limits.tokens > 0
          BY DEF Sound, Formed
        <5>2. QED BY <5>1, <1>5, <4>2 DEF Puts, Thins
      <4>3. QED BY <4>1, <4>2
    <3>2. QED BY <1>3, <2>1, <3>1, ChargesDatedKept
  <2>4. PermitsDated(u)'
    <3>1. \A k : \A d \in GrantedOf(u) : Bearing(d) /\ call[d].token = k => Bearing(d)' /\ call'[d].token = k
      BY <1>1 DEF Bearing, GrantedOf
    <3>2. QED BY <1>1, <1>3, <2>1, <3>1, PermitsDatedKept
  <2>5. QED BY <2>2, <2>3, <2>4
<1>9. ASSUME NEW d \in Call
      PROVE  ChargeHeld(d)'
  <2>1. CASE d = c
    BY <2>1, <1>1 DEF ChargeHeld
  <2>2. CASE d # c /\ call[d].phase = "held" /\ limits.tokens > 0
    <3> DEFINE u == TenantOf[d]
               k == call[d].token
    <3>1. /\ u \in Tenant /\ call'[d] = call[d] /\ grants'[d] = grants[d] /\ ChargeHeld(d)
      BY <1>1, <2>2, ConstantsAssumption DEF Held
    <3>2. CASE u = t /\ k = token /\ token \in DOMAIN charges[t] \ StaleCharges(t)
      <4>1. charges'[u][k] = Resettlement(t, token, actual) /\ k \in DOMAIN charges'[u]
        BY <1>5, <2>2, <3>2, <3>1 DEF Puts
      <4>2. charges'[u][k].at = charges[u][k].at
        BY <4>1, <3>2 DEF Resettlement
      <4>3. grants[d].dated <= charges[u][k].at
        BY <2>2, <3>1, <3>2 DEF ChargeHeld
      <4>4. QED BY <3>1, <4>1, <4>2, <4>3 DEF ChargeHeld
    <3>3. CASE ~(u = t /\ k = token /\ token \in DOMAIN charges[t] \ StaleCharges(t))
      <4>1. k \in DOMAIN charges'[u] =>
               \/ k \in DOMAIN charges[u] /\ charges'[u][k] = charges[u][k]
               \/ charges'[u][k].at = now
        <5>1. CASE u = t /\ k = token
          <6>1. charges'[u][k] = Resettlement(t, token, actual)
            BY <1>5, <2>2, <5>1, <3>1 DEF Puts
          <6>2. Resettlement(t, token, actual).at = now
            BY <3>3, <5>1 DEF Resettlement
          <6>3. QED BY <6>1, <6>2
        <5>2. CASE ~(u = t /\ k = token)
          BY <1>5, <2>2, <5>2, <3>1 DEF Puts, Thins
        <5>3. QED BY <5>1, <5>2
      <4>2. k \in DOMAIN charges[u] \ DOMAIN charges'[u] => charges[u][k].at + Minute <= now
        BY <1>5, <2>2, <3>1 DEF Puts, Thins, StaleCharges
      <4>3. grants[d].dated <= now
        BY <2>2 DEF Sound, CallsAgree, Bearing
      <4>4. /\ k \in DOMAIN charges[u] => grants[d].dated <= charges[u][k].at /\ charges[u][k].at \in Nat
            /\ k \notin DOMAIN charges[u] => grants[d].dated + Minute <= now
        BY <1>2, <2>2, <3>1 DEF ChargeHeld
      <4>5. k \in DOMAIN charges'[u] => grants[d].dated <= charges'[u][k].at
        BY <4>1, <4>3, <4>4
      <4>6. k \notin DOMAIN charges'[u] => grants[d].dated + Minute <= now
        BY <1>2, <4>2, <4>4
      <4>7. QED BY <1>1, <3>1, <4>5, <4>6 DEF ChargeHeld
    <3>4. QED BY <3>2, <3>3
  <2>3. CASE d # c /\ ~(call[d].phase = "held" /\ limits.tokens > 0)
    BY <1>1, <2>3 DEF ChargeHeld
  <2>4. QED BY <2>1, <2>2, <2>3
<1>10. ASSUME NEW u \in Tenant
       PROVE  KeptLong(u)' /\ NotLonger(u)'
  <2> DEFINE until == now + 2 * Minute
  <2>0. until \in Nat
    BY <1>2
  <2>1. KeptLong(u) /\ NotLonger(u) /\ live[u] \in Keys
    BY <1>2 DEF Held
  <2>2. /\ live[u].slots \in Nat /\ live[u].requests \in Nat /\ live[u].charges \in Nat
        /\ live[u].sequence \in Nat
    BY <2>1 DEF Keys
  <2> HIDE DEF until
  <2>3. /\ live' \in [Tenant -> Keys]
        /\ live'[u].slots = live[u].slots /\ live'[u].requests = live[u].requests
        /\ live'[u].charges = IF limits.tokens # 0 /\ backend = "redis" /\ u = t THEN until
                              ELSE live[u].charges
    <3>1. CASE limits.tokens # 0 /\ backend = "redis"
      <4>1. live' = [live EXCEPT ![t].charges = until]
        BY <3>1 DEF Settle, until
      <4>2. live' \in [Tenant -> Keys]
        BY <4>1, <1>2, <2>0 DEF Keys
      <4>3. live'[u].slots = live[u].slots /\ live'[u].requests = live[u].requests
        BY <4>1, <1>2 DEF Keys
      <4>4. live'[u].charges = IF u = t THEN until ELSE live[u].charges
        BY <4>1, <1>2 DEF Keys
      <4>5. QED BY <3>1, <4>2, <4>3, <4>4
    <3>2. CASE ~(limits.tokens # 0 /\ backend = "redis")
      <4>1. live' = live
        BY <3>2 DEF Settle
      <4>2. QED BY <4>1, <3>2, <1>2
    <3>3. QED BY <3>1, <3>2
  <2>4. live[u].charges <= live'[u].charges /\ NotLonger(u)'
    BY <1>1, <1>2, <2>0, <2>1, <2>2, <2>3 DEF NotLonger, until
  <2>5. CASE limits.tokens # 0 /\ u = t
    <3>1. limits.tokens > 0
      BY <2>5 DEF Sound, Formed
    <3>2. backend = "redis" =>
             \A k \in DOMAIN charges'[u] :
                \/ k \in DOMAIN charges[u] /\ charges'[u][k] = charges[u][k]
                \/ charges'[u][k].at + Minute <= live'[u].charges
      <4>1. ASSUME backend = "redis", NEW k \in DOMAIN charges'[u]
            PROVE  \/ k \in DOMAIN charges[u] /\ charges'[u][k] = charges[u][k]
                   \/ charges'[u][k].at + Minute <= live'[u].charges
        <5>1. CASE k = token
          <6>1. charges'[u][k] = Resettlement(t, token, actual)
            BY <1>5, <2>5, <3>1, <5>1 DEF Puts
          <6>2. live'[u].charges = now + 2 * Minute
            BY <2>3, <2>5, <4>1 DEF until
          <6>3. QED BY <6>1, <6>2, <1>2, <1>6
        <5>2. CASE k # token
          BY <1>5, <2>5, <3>1, <5>2 DEF Puts
        <5>3. QED BY <5>1, <5>2
      <4>2. QED BY <4>1
    <3>3. \E d \in GrantedOf(u)' : backend = "redis" => live'[u].charges <= grants'[d].dated + 3 * Minute
      <4>1. grants'[c].dated = IF grants[c].dated + Minute > now THEN grants[c].dated ELSE now
        BY <1>1
      <4>2. now + 2 * Minute <= grants'[c].dated + 3 * Minute
        <5>1. CASE grants[c].dated + Minute > now
          BY <4>1, <5>1, <1>2
        <5>2. CASE ~(grants[c].dated + Minute > now)
          BY <4>1, <5>2, <1>2
        <5>3. QED BY <5>1, <5>2
      <4>3. backend = "redis" => live'[u].charges = now + 2 * Minute
        BY <2>3, <2>5 DEF until
      <4>4. QED BY <4>2, <4>3, <1>4, <2>5
    <3>4. backend = "redis" => ~(live'[u].charges <= now')
      <4>1. backend = "redis" => live'[u].charges = now + 2 * Minute
        BY <2>3, <2>5 DEF until
      <4>2. Minute > 0
        BY ConstantsAssumption
      <4>3. QED BY <4>1, <4>2, <1>1, <1>2
    <3>5. KeptLong(u)'
      <4>1. live[u].slots <= live'[u].slots /\ live[u].requests <= live'[u].requests
        BY <2>2, <2>3
      <4>2. \A k \in DOMAIN permits'[u] : k \in DOMAIN permits[u] /\ permits'[u][k] = permits[u][k]
        BY <1>1
      <4>3. \A k \in DOMAIN requests'[u] : k \in DOMAIN requests[u] /\ requests'[u][k] = requests[u][k]
        BY <1>1
      <4>4. backend' = backend
        BY <1>1
      <4>5. QED BY <1>2, <1>3, <2>1, <2>3, <2>4, <3>2, <3>3, <3>4, <4>1, <4>2, <4>3, <4>4, KeptLongKept
    <3>6. QED BY <2>4, <3>5
  <2>6. CASE ~(limits.tokens # 0 /\ u = t)
    <3>1. \A k \in DOMAIN charges'[u] : k \in DOMAIN charges[u] /\ charges'[u][k] = charges[u][k]
      <4>1. limits.tokens = 0 \/ limits.tokens > 0
        BY DEF Sound, Formed
      <4>2. QED BY <4>1, <1>5, <2>6 DEF Thins
    <3>2. live'[u].charges = live[u].charges
      BY <2>3, <2>6
    <3>3. backend = "redis" /\ total[u] = 0 => total'[u] = 0
      <4>1. CASE limits.tokens = 0
        BY <4>1, SettleTotals
      <4>2. CASE limits.tokens # 0 /\ backend = "redis"
        <5>1. total'[u] = SettledTotal(u, t, token, actual)
          BY <4>2, SettleTotals DEF token
        <5>2. total'[u] = MaxOf(0, total[u] - Amounts(u, DOMAIN charges[u] \ DOMAIN charges[u]) - 0) + 0
          BY <5>1, <4>2, <2>6 DEF SettledTotal
        <5>3. Amounts(u, DOMAIN charges[u] \ DOMAIN charges[u]) \in Nat
          BY AmountsNat DEF Sound
        <5>4. QED BY <5>2, <5>3 DEF MaxOf
      <4>3. QED BY <4>1, <4>2
    <3>4. backend = "redis" /\ live'[u].charges <= now' => DOMAIN charges'[u] = {} /\ total'[u] = 0
      BY <1>1, <2>1, <3>1, <3>2, <3>3 DEF KeptLong
    <3>5. KeptLong(u)'
      <4>1. live[u].slots <= live'[u].slots /\ live[u].requests <= live'[u].requests
        BY <2>2, <2>3
      <4>2. \A k \in DOMAIN permits'[u] : k \in DOMAIN permits[u] /\ permits'[u][k] = permits[u][k]
        BY <1>1
      <4>3. \A k \in DOMAIN requests'[u] : k \in DOMAIN requests[u] /\ requests'[u][k] = requests[u][k]
        BY <1>1
      <4>4. backend' = backend
        BY <1>1
      <4>5. QED BY <1>2, <1>3, <2>1, <2>3, <2>4, <3>1, <3>2, <3>4, <4>1, <4>2, <4>3, <4>4, KeptLongKept
    <3>6. QED BY <2>4, <3>5
  <2>7. QED BY <2>5, <2>6
<1>11. QED BY <1>8, <1>9, <1>10 DEF Dated, Held

-----------------------------------------------------------------------------
(* The counters agree with the maps.                                        *)

\* While tokens tell the calls apart, the counters say what the maps hold.
Counted(t) ==
    unique => /\ backend = "memory" => count[t] = Cardinality(DOMAIN requests[t])
              /\ total[t] = AmountIn(charges[t])

\* The counters of every tenant agree with its maps.
Tallied == \A t \in Tenant : Counted(t)

\* A grant counts its request and adds its estimate.
LEMMA GrantTallies ==
    ASSUME Sound, Tallied, NEW c \in Call, NEW estimate \in Estimates, Grant(c, estimate)
    PROVE  Tallied'
<1> DEFINE t == TenantOf[c]
           token == NextTickets(t)[t]
           charge == [at |-> now, amount |-> estimate]
<1>1. /\ t \in Tenant
      /\ UNCHANGED <<backend, limits, now, refused>>
      /\ unique' = (unique /\ token \notin Borne(t))
  BY GrantCalls
<1>2. Write(t, token, estimate) /\ Formed /\ charge \in Charge /\ charge.amount = estimate
  BY ConstantsAssumption DEF Grant, Sound, Charge, IInv, Typed
<1> HIDE DEF token, charge
<1>3. ASSUME NEW u \in Tenant, unique'
      PROVE  /\ backend = "memory" => count'[u] = Cardinality(DOMAIN requests'[u])
             /\ total'[u] = AmountIn(charges'[u])
  <2>1. unique /\ token \notin Borne(t)
    BY <1>1, <1>3, Zenon
  <2>2. token \notin DOMAIN requests[t] /\ token \notin DOMAIN charges[t]
    BY <2>1 DEF Borne
  <2>3. /\ backend = "memory" => count[u] = Cardinality(DOMAIN requests[u])
        /\ total[u] = AmountIn(charges[u])
    BY <2>1 DEF Tallied, Counted
  <2>4. /\ backend = "memory" => PrunedCount(u, t) = Cardinality(DOMAIN PrunedRequests(u, t))
        /\ PrunedTotal(u, t) = AmountIn(PrunedCharges(u, t))
        /\ PrunedTotal(u, t) \in Nat
    BY <1>2, <2>3, PruneCounts DEF Pruned
  <2>5. /\ PrunedRequests(u, t) \in [DOMAIN PrunedRequests(u, t) -> Nat]
        /\ PrunedCharges(u, t) \in [DOMAIN PrunedCharges(u, t) -> Charge]
        /\ IsFiniteSet(DOMAIN PrunedRequests(u, t))
        /\ IsFiniteSet(DOMAIN PrunedCharges(u, t))
    BY <1>2, PruneFormed
  <2>6. /\ DOMAIN PrunedRequests(u, t) \subseteq DOMAIN requests[u]
        /\ DOMAIN PrunedCharges(u, t) \subseteq DOMAIN charges[u]
    BY <1>2, PruneThins DEF Thins
  <2>7. backend = "memory" => count'[u] = Cardinality(DOMAIN requests'[u])
    <3>1. CASE u = t /\ limits.requests > 0 /\ backend = "memory"
      <4>1. requests'[u] = Add(PrunedRequests(u, t), token, now) /\ count'[u] = PrunedCount(u, t) + 1
        BY <1>2, <3>1 DEF Write
      <4>2. DOMAIN requests'[u] = DOMAIN PrunedRequests(u, t) \cup {token}
        BY <4>1 DEF Add
      <4>3. token \notin DOMAIN PrunedRequests(u, t)
        BY <2>2, <2>6, <3>1
      <4>4. Cardinality(DOMAIN PrunedRequests(u, t) \cup {token}) = Cardinality(DOMAIN PrunedRequests(u, t)) + 1
        BY <2>5, <4>3, FS_AddElement
      <4>5. QED BY <2>4, <3>1, <4>1, <4>2, <4>4
    <3>2. CASE ~(u = t /\ limits.requests > 0) /\ backend = "memory"
      <4>1. requests'[u] = PrunedRequests(u, t) /\ count'[u] = PrunedCount(u, t)
        BY <1>2, <3>2 DEF Write
      <4>2. QED BY <2>4, <3>2, <4>1
    <3>3. QED BY <3>1, <3>2
  <2>8. total'[u] = AmountIn(charges'[u])
    <3>1. CASE u = t /\ limits.tokens > 0
      <4>1. charges'[u] = Add(PrunedCharges(u, t), token, charge) /\ total'[u] = PrunedTotal(u, t) + estimate
        BY <1>2, <3>1 DEF Write, charge
      <4>2. token \notin DOMAIN PrunedCharges(u, t)
        BY <2>2, <2>6, <3>1
      <4>3. AmountIn(Add(PrunedCharges(u, t), token, charge)) = AmountIn(PrunedCharges(u, t)) + charge.amount
        BY <1>2, <2>5, <4>2, AmountInAdd
      <4>4. QED BY <1>2, <2>4, <4>1, <4>3
    <3>2. CASE ~(u = t /\ limits.tokens > 0)
      <4>1. charges'[u] = PrunedCharges(u, t) /\ total'[u] = PrunedTotal(u, t)
        BY <1>2, <3>2 DEF Write
      <4>2. QED BY <2>4, <4>1
    <3>3. QED BY <3>1, <3>2
  <2>9. QED BY <2>7, <2>8
<1>4. QED BY <1>1, <1>3 DEF Tallied, Counted

\* A rejection takes what it prunes off the counters.
LEMMA RejectTallies ==
    ASSUME Sound, Tallied, NEW c \in Call, NEW estimate \in Estimates, Reject(c, estimate)
    PROVE  Tallied'
<1> DEFINE t == TenantOf[c]
<1>1. Prune(t) /\ UNCHANGED <<backend, unique>>
  BY DEF Reject
<1>2. ASSUME NEW u \in Tenant, unique
      PROVE  /\ backend = "memory" => count'[u] = Cardinality(DOMAIN requests'[u])
             /\ total'[u] = AmountIn(charges'[u])
  <2>1. /\ backend = "memory" => count[u] = Cardinality(DOMAIN requests[u])
        /\ total[u] = AmountIn(charges[u])
    BY <1>2 DEF Tallied, Counted
  <2>2. /\ backend = "memory" => PrunedCount(u, t) = Cardinality(DOMAIN PrunedRequests(u, t))
        /\ PrunedTotal(u, t) = AmountIn(PrunedCharges(u, t))
    BY <2>1, PruneCounts DEF Pruned, Sound
  <2>3. QED BY <1>1, <2>2 DEF Prune
<1>3. QED BY <1>1, <1>2 DEF Tallied, Counted

\* The charge a settlement replaces leaves the total with what it held.
LEMMA SettleTallies ==
    ASSUME Sound, Tallied, NEW c \in Call, NEW actual \in Actual, Settle(c, actual)
    PROVE  Tallied'
<1> DEFINE t == TenantOf[c]
           token == call[c].token
           kept(u) == IF backend = "memory" THEN DOMAIN charges[u] \ StaleCharges(u) ELSE DOMAIN charges[u]
<1>1. /\ UNCHANGED <<backend, requests, count, unique>> /\ Formed /\ actual \in Nat
  BY ConstantsAssumption DEF Settle, Sound
<1>2. CASE limits.tokens = 0
  <2>1. UNCHANGED <<charges, total>>
    BY <1>2 DEF Settle
  <2>2. QED BY <1>1, <2>1 DEF Tallied, Counted
<1>3. ASSUME limits.tokens # 0, unique, NEW u \in Tenant
      PROVE  total'[u] = AmountIn(charges'[u])
  <2> DEFINE S == DOMAIN charges[u]
             old == charges[u]
             rest == Restrict(old, S \ (S \ kept(u)))
             prior == IF u = t THEN IF token \in kept(t) THEN charges[t][token].amount ELSE 0 ELSE 0
             added == IF u = t THEN actual ELSE 0
  <2>1. /\ old \in [S -> Charge] /\ IsFiniteSet(S) /\ total[u] = AmountIn(old) /\ total[u] \in Nat
    BY <1>1, <1>3 DEF Formed, MapsFormed, Tallied, Counted
  <2>2. kept(u) \subseteq S /\ S \ (S \ kept(u)) = kept(u)
    OBVIOUS
  <2>3. /\ AmountIn(old) = AmountIn(rest) + Amounts(u, S \ kept(u))
        /\ AmountIn(rest) \in Nat /\ Amounts(u, S \ kept(u)) \in Nat
    BY <2>1, <2>2, AmountInKept DEF Amounts
  <2>4. total'[u] = MaxOf(0, total[u] - Amounts(u, S \ kept(u)) - prior) + added
    <3>1. total'[u] = SettledTotal(u, t, token, actual)
      BY <1>3, SettleTotals
    <3>2. QED BY <3>1 DEF SettledTotal
  <2>5. /\ rest \in [kept(u) -> Charge] /\ IsFiniteSet(kept(u))
        /\ \A k \in kept(u) : rest[k] = old[k]
    BY <2>1, <2>2, FS_Subset DEF Restrict
  <2>6. charges' = [v \in Tenant |->
             IF v = t THEN Restrict(Resettled(t, token, actual),
                                    (kept(t) \cup {token}) \cap DOMAIN Resettled(t, token, actual))
             ELSE Restrict(charges[v], kept(v))]
    BY <1>3 DEF Settle
  <2>7. CASE u # t
    <3>1. charges'[u] = rest /\ prior = 0 /\ added = 0
      BY <2>2, <2>6, <2>7
    <3> HIDE DEF rest, prior, added, S, old
    <3>2. QED BY <2>1, <2>3, <2>4, <3>1 DEF MaxOf
  <2>8. CASE u = t
    <3> DEFINE less == Restrict(rest, kept(u) \ {token})
               charge == Resettlement(t, token, actual)
    <3>1. AmountIn(rest) = AmountIn(less) + prior /\ AmountIn(less) \in Nat /\ prior \in Nat
      <4>1. CASE token \in kept(u)
        <5>1. /\ AmountIn(rest) = AmountIn(less) + TotalOf([k \in {token} |-> rest[k].amount])
              /\ AmountIn(less) \in Nat
          <6>1. {token} \in SUBSET kept(u)
            BY <4>1
          <6> HIDE DEF kept, rest
          <6>2. QED BY <2>5, <6>1, AmountInKept
        <5>2. rest[token].amount = prior /\ prior \in Nat
          BY <2>1, <2>5, <2>8, <4>1 DEF Charge
        <5>3. [k \in {token} |-> rest[k].amount] = [k \in {token} |-> prior]
          BY <5>2
        <5> HIDE DEF rest, prior
        <5>4. TotalOf([k \in {token} |-> prior]) = prior
          BY <5>2, TotalOfOne
        <5>5. QED BY <5>1, <5>2, <5>3, <5>4
      <4>2. CASE token \notin kept(u)
        <5>1. less = rest /\ prior = 0
          <6>1. kept(u) \ {token} = kept(u)
            BY <4>2
          <6>2. prior = 0
            BY <4>2, <2>8
          <6> HIDE DEF kept, prior
          <6>3. less = rest
            BY <6>1, <2>5 DEF Restrict
          <6>4. QED BY <6>2, <6>3
        <5> HIDE DEF rest, less, prior
        <5>2. QED BY <5>1, <2>3
      <4>3. QED BY <4>1, <4>2
    <3>2. charges'[u] = Add(less, token, charge)
      <4> DEFINE new == Resettled(t, token, actual)
      <4>1. /\ DOMAIN new = S \cup {token} /\ new[token] = charge
            /\ \A k \in S \ {token} : new[k] = old[k]
        <5>1. CASE token \in DOMAIN charges[t] \ StaleCharges(t)
          <6>1. charges[t][token] \in [at : Nat, amount : Nat]
            BY <5>1, <2>1, <2>8 DEF Charge
          <6>2. [charges[t][token] EXCEPT !.amount = actual] = charge
            BY <6>1, <5>1 DEF Resettlement
          <6>3. new = Add(old, token, charge)
            BY <6>2, <5>1, <2>8 DEF Resettled
          <6> HIDE DEF new, charge
          <6>4. QED BY <6>3 DEF Add
        <5>2. CASE token \notin DOMAIN charges[t] \ StaleCharges(t)
          <6>1. [at |-> now, amount |-> actual] = charge
            BY <5>2 DEF Resettlement
          <6>2. new = Add(old, token, charge)
            BY <6>1, <5>2, <2>8 DEF Resettled
          <6> HIDE DEF new, charge
          <6>3. QED BY <6>2 DEF Add
        <5>3. QED BY <5>1, <5>2
      <4>2. charges'[u] = Restrict(new, (kept(u) \cup {token}) \cap DOMAIN new)
        BY <2>6, <2>8
      <4> HIDE DEF new, charge, S, old, kept, rest
      <4>3. (kept(u) \cup {token}) \cap DOMAIN new = kept(u) \cup {token}
        BY <4>1, <2>2
      <4>4. charges'[u] = [k \in kept(u) \cup {token} |-> new[k]]
        BY <4>2, <4>3 DEF Restrict
      <4>5. less = [k \in kept(u) \ {token} |-> rest[k]]
        BY DEF Restrict
      <4>6. Add(less, token, charge) = [k \in (kept(u) \ {token}) \cup {token} |-> IF k = token THEN charge ELSE rest[k]]
        BY <4>5 DEF Add
      <4>7. \A k \in kept(u) \cup {token} : new[k] = IF k = token THEN charge ELSE rest[k]
        BY <4>1, <2>2, <2>5
      <4>8. (kept(u) \ {token}) \cup {token} = kept(u) \cup {token}
        OBVIOUS
      <4>9. QED BY <4>4, <4>6, <4>7, <4>8
    <3>3. charge \in Charge /\ charge.amount = actual
      <4>1. now \in Nat
        BY DEF Sound, IInv, Typed
      <4>2. (IF token \in DOMAIN charges[t] \ StaleCharges(t) THEN charges[t][token].at ELSE now) \in Nat
        BY <4>1, <2>1, <2>8 DEF Charge
      <4>3. QED BY <4>2, <1>1 DEF Resettlement, Charge
    <3>4. AmountIn(Add(less, token, charge)) = AmountIn(less) + actual
      <4>1. less \in [kept(u) \ {token} -> Charge] /\ IsFiniteSet(kept(u) \ {token})
        <5> HIDE DEF kept, rest
        <5>1. IsFiniteSet(kept(u) \ {token})
          BY <2>5, FS_Subset
        <5>2. less \in [kept(u) \ {token} -> Charge]
          BY <2>5 DEF Restrict
        <5>3. QED BY <5>1, <5>2
      <4>2. token \notin kept(u) \ {token}
        OBVIOUS
      <4> HIDE DEF kept, less, charge
      <4>3. QED BY <3>3, <4>1, <4>2, AmountInAdd
    <3>5. added = actual
      BY <2>8
    <3> HIDE DEF less, charge, rest, prior, added, S, old
    <3>6. total[u] - Amounts(u, S \ kept(u)) - prior = AmountIn(less)
      BY <2>1, <2>3, <3>1
    <3>7. QED BY <2>4, <3>1, <3>2, <3>4, <3>5, <3>6 DEF MaxOf
  <2>9. QED BY <2>7, <2>8
<1>4. CASE limits.tokens # 0
  BY <1>1, <1>3, <1>4 DEF Tallied, Counted
<1>5. QED BY <1>2, <1>4

\* A total expires with its charges.
LEMMA TickTallies ==
    ASSUME Sound, Tallied, Tick
    PROVE  Tallied'
<1>1. UNCHANGED <<backend, count, unique>>
  BY DEF Tick, history
<1>2. ASSUME NEW t \in Tenant, unique
      PROVE  /\ backend = "memory" => count[t] = Cardinality(DOMAIN requests'[t])
             /\ total'[t] = AmountIn(charges'[t])
  <2>1. /\ backend = "memory" => requests'[t] = requests[t]
        /\ \/ charges'[t] = Empty /\ total'[t] = 0
           \/ charges'[t] = charges[t] /\ total'[t] = total[t]
    BY TickMaps DEF Sound
  <2>2. AmountIn(Empty) = 0
    BY TotalOfNone DEF AmountIn, Empty
  <2>3. QED BY <1>2, <2>1, <2>2 DEF Tallied, Counted
<1>3. QED BY <1>1, <1>2 DEF Tallied, Counted

-----------------------------------------------------------------------------
\* The inductive invariant behind QuotaRecovers.
Ledgers == Sound /\ Dated /\ Held /\ Tallied

\* An empty ledger is in order.
LEMMA InitLedgers == Init => Ledgers
<1> SUFFICES ASSUME Init
             PROVE  Ledgers
  OBVIOUS
<1>1. IInv
  BY InitInv
<1>2. /\ \A t \in Tenant : permits[t] = Empty /\ requests[t] = Empty /\ charges[t] = Empty
      /\ DOMAIN Empty = {} /\ Empty \in [{} -> Nat] /\ Empty \in [{} -> Charge] /\ IsFiniteSet({})
      /\ Cardinality({}) = 0
  BY FS_EmptySet DEF Init, Empty
<1>3. \A t \in Tenant : MapsFormed(t)
  BY <1>2 DEF MapsFormed
<1>4. \A c \in Call : grants[c] = NewGrant /\ call[c] = NewCall /\ refused[c] = "none"
  BY DEF Init
<1>5. \A t \in Tenant : IsFiniteSet(GrantedOf(t))
  <2>1. \A t \in Tenant : GrantedOf(t) = {}
    BY <1>4 DEF GrantedOf, NewGrant
  <2>2. QED BY <2>1, FS_EmptySet
<1>6. Formed
  <2>1. grants \in [Call -> Promise!Grant] /\ refused \in [Call -> Reasons]
    BY DEF Init, NewGrant, Promise!Grant, Reasons
  <2>2. limits \in [in_flight : Nat, requests : Nat, tokens : Nat]
    BY ConstantsAssumption DEF Init
  <2>3. QED BY <1>3, <1>5, <2>1, <2>2 DEF Formed, Init
<1>7. CallsAgree
  BY <1>4 DEF CallsAgree, Bearing, NewGrant, NewCall
<1>8. Dated
  BY <1>2 DEF Dated, RequestsDated, ChargesDated, PermitsDated
<1>9. Held
  <2>1. \A c \in Call : ChargeHeld(c)
    BY <1>4 DEF ChargeHeld, NewCall
  <2>2. \A t \in Tenant : live[t].slots = 0 /\ live[t].requests = 0 /\ live[t].charges = 0
                          /\ now = 0 /\ total[t] = 0
    BY DEF Init
  <2>3. \A t \in Tenant : KeptLong(t) /\ NotLonger(t)
    BY <1>2, <2>2, ConstantsAssumption DEF KeptLong, NotLonger
  <2>4. QED BY <2>1, <2>3 DEF Held
<1>10. Tallied
  <2>1. AmountIn(Empty) = 0
    BY <1>2, TotalOfNone DEF AmountIn, Empty
  <2>2. QED BY <1>2, <2>1 DEF Tallied, Counted, Init
<1>11. QED BY <1>1, <1>6, <1>7, <1>8, <1>9, <1>10 DEF Ledgers, Sound

\* Every step keeps the ledger in order.
LEMMA StepLedgers ==
    ASSUME Ledgers, [Next]_vars
    PROVE  Ledgers'
<1>0. IInv'
  BY StepKeeps DEF Ledgers, Sound
<1>1. ASSUME NEW c \in Call, NEW estimate \in Estimates, Grant(c, estimate)
      PROVE  Ledgers'
  BY <1>0, <1>1, GrantForms, GrantDates, GrantHolds, GrantTallies DEF Ledgers, Sound
<1>2. ASSUME NEW c \in Call, NEW estimate \in Estimates, GrantUnlimited(c, estimate)
      PROVE  Ledgers'
  <2>1. Tallied'
    BY <1>2 DEF GrantUnlimited, ledger, Ledgers, Tallied, Counted
  <2>2. QED BY <1>0, <1>2, <2>1, GrantUnlimitedForms, GrantUnlimitedDates, GrantUnlimitedHolds DEF Ledgers, Sound
<1>3. ASSUME NEW c \in Call, NEW estimate \in Estimates, Reject(c, estimate)
      PROVE  Ledgers'
  BY <1>0, <1>3, RejectForms, RejectDates, RejectHolds, RejectTallies DEF Ledgers, Sound
<1>4. ASSUME NEW c \in Call, NEW actual \in Actual, Settle(c, actual)
      PROVE  Ledgers'
  BY <1>0, <1>4, SettleForms, SettleDates, SettleTallies DEF Ledgers, Sound
<1>5. ASSUME NEW c \in Call, Release(c)
      PROVE  Ledgers'
  <2>1. Tallied'
    BY <1>5 DEF Release, Ledgers, Tallied, Counted
  <2>2. QED BY <1>0, <1>5, <2>1, ReleaseForms, ReleaseDates, ReleaseHolds DEF Ledgers, Sound
<1>6. ASSUME NEW c \in Call, ReleaseLost(c)
      PROVE  Ledgers'
  <2>1. Tallied'
    BY <1>6 DEF ReleaseLost, ledger, history, Ledgers, Tallied, Counted
  <2>2. QED BY <1>0, <1>6, <2>1, ReleaseLostForms, ReleaseLostDates, ReleaseHolds DEF Ledgers, Sound
<1>7. CASE Tick
  BY <1>0, <1>7, TickForms, TickDates, TickHolds, TickTallies DEF Ledgers, Sound
<1>8. CASE UNCHANGED vars
  <2>1. UNCHANGED <<backend, limits, now, ticket, permits, requests, count, charges, total, live, call,
                    grants, refused, unique>>
    BY <1>8 DEF vars, ledger, history
  <2>2. Formed'
    BY <2>1 DEF Ledgers, Sound, Formed, MapsFormed, GrantedOf
  <2>3. CallsAgree'
    BY <2>1 DEF Ledgers, Sound, CallsAgree, Bearing
  <2>4. Dated'
    BY <2>1 DEF Ledgers, Dated, RequestsDated, ChargesDated, PermitsDated, GrantedOf, Bearing
  <2>5. Held'
    BY <2>1 DEF Ledgers, Held, ChargeHeld, KeptLong, NotLonger, GrantedOf
  <2>6. Tallied'
    BY <2>1 DEF Ledgers, Tallied, Counted
  <2>7. QED BY <1>0, <2>2, <2>3, <2>4, <2>5, <2>6 DEF Ledgers, Sound
<1>9. QED BY <1>1, <1>2, <1>3, <1>4, <1>5, <1>6, <1>7, <1>8 DEF Next

-----------------------------------------------------------------------------
(* A tenant recovers.                                                       *)

\* In a ledger in order a quiet tenant is refused nothing: its maps hold only what is stale.
LEMMA LedgersRecover == Ledgers => QuotaRecovers
<1> SUFFICES ASSUME Ledgers, NEW t \in Tenant,
                    Quiet(t, IF unique THEN Minute ELSE 3 * Minute),
                    NEW estimate \in Estimates,
                    limits.tokens > 0 => estimate <= limits.tokens
             PROVE  Rejection(t, estimate) = "none"
  BY DEF QuotaRecovers
<1> DEFINE wait == IF unique THEN Minute ELSE 3 * Minute
<1>1. /\ now \in Nat /\ Minute \in Nat \ {0} /\ Lease \in Nat \ {0} /\ estimate \in Nat
      /\ Formed /\ MapsFormed(t)
      /\ limits.in_flight \in Nat /\ limits.requests \in Nat /\ limits.tokens \in Nat
      /\ wait \in Nat /\ Minute <= wait
  BY ConstantsAssumption DEF Ledgers, Sound, Formed, IInv, Typed
<1>2. ASSUME NEW c \in GrantedOf(t)
      PROVE  /\ grants[c].at \in Nat /\ grants[c].dated \in Nat
             /\ grants[c].dated + wait <= now /\ grants[c].at + Minute <= now /\ grants[c].at + Lease <= now
             /\ ~Bearing(c)
  <2>1. grants[c].at \in Nat /\ grants[c].dated \in Nat
    BY <1>1 DEF GrantedOf, Formed, Promise!Grant
  <2>2. /\ now >= grants[c].dated + wait /\ now >= grants[c].at + MaxOf(Lease, Minute)
        /\ call[c].phase \in {"new", "ended"}
    BY DEF GrantedOf, Quiet
  <2> HIDE DEF wait
  <2>3. QED BY <1>1, <2>1, <2>2 DEF MaxOf, Bearing
<1> HIDE DEF wait
<1>3. limits.in_flight > 0 => ~(Cardinality(DOMAIN PrunedPermits(t, t)) >= limits.in_flight)
  <2>1. DOMAIN PrunedPermits(t, t) = DOMAIN permits[t] \ StaleSlots(t)
    BY <1>1, PruneThins
  <2>2. ASSUME NEW k \in DOMAIN permits[t]
        PROVE  k \in StaleSlots(t)
    <3>1. CASE backend = "redis"
      <4>1. PICK c \in GrantedOf(t) : permits[t][k] = grants[c].at + Lease
        BY <3>1 DEF Ledgers, Dated, PermitsDated
      <4>2. QED BY <1>1, <1>2, <4>1 DEF StaleSlots
    <3>2. CASE backend = "memory"
      <4>1. PICK c \in GrantedOf(t) : Bearing(c)
        BY <3>2 DEF Ledgers, Dated, PermitsDated
      <4>2. QED BY <1>2, <4>1
    <3>3. QED BY <3>1, <3>2 DEF Ledgers, Sound, IInv, Typed
  <2>3. Cardinality(DOMAIN PrunedPermits(t, t)) = 0
    <3>1. DOMAIN PrunedPermits(t, t) = {}
      BY <2>1, <2>2
    <3>2. QED BY <3>1, FS_EmptySet
  <2>4. QED BY <1>1, <2>3
<1>4. DOMAIN PrunedRequests(t, t) = {} /\ Cardinality(DOMAIN PrunedRequests(t, t)) = 0
  <2>1. DOMAIN PrunedRequests(t, t) = DOMAIN requests[t] \ StaleRequests(t)
    BY <1>1, PruneThins
  <2>2. ASSUME NEW k \in DOMAIN requests[t]
        PROVE  k \in StaleRequests(t)
    <3>1. PICK c \in GrantedOf(t) : requests[t][k] = grants[c].at
      BY DEF Ledgers, Dated, RequestsDated
    <3>2. QED BY <1>2, <3>1 DEF StaleRequests
  <2>3. DOMAIN PrunedRequests(t, t) = {}
    BY <2>1, <2>2
  <2>4. QED BY <2>3, FS_EmptySet
<1>5. backend = "memory" => unique
  BY DEF Ledgers, Sound, IInv, Expired
<1>6. RequestCount(t) = 0
  <2>1. CASE backend = "memory"
    <3>1. count[t] = Cardinality(DOMAIN requests[t])
      BY <1>5, <2>1 DEF Ledgers, Tallied, Counted
    <3>2. PrunedCount(t, t) = Cardinality(DOMAIN PrunedRequests(t, t))
      BY <1>1, <3>1, PruneCounts DEF Pruned
    <3>3. QED BY <1>4, <2>1, <3>2 DEF RequestCount
  <2>2. CASE backend # "memory"
    BY <1>4, <2>2 DEF RequestCount
  <2>3. QED BY <2>1, <2>2
<1>7. PrunedTotal(t, t) = 0
  <2>1. CASE unique
    <3>1. total[t] = AmountIn(charges[t])
      BY <2>1 DEF Ledgers, Tallied, Counted
    <3>2. PrunedTotal(t, t) = AmountIn(PrunedCharges(t, t))
      BY <1>1, <3>1, PruneCounts
    <3>3. DOMAIN PrunedCharges(t, t) = DOMAIN charges[t] \ StaleCharges(t)
      BY <1>1, PruneThins
    <3>4. ASSUME NEW k \in DOMAIN charges[t]
          PROVE  k \in StaleCharges(t)
      <4>1. PICK c \in GrantedOf(t) : charges[t][k].at <= grants[c].dated
        BY DEF Ledgers, Dated, ChargesDated
      <4>2. charges[t][k].at \in Nat
        BY <1>1 DEF MapsFormed, Charge
      <4>3. QED BY <1>1, <1>2, <4>1, <4>2 DEF StaleCharges
    <3>5. DOMAIN PrunedCharges(t, t) = {}
      BY <3>3, <3>4
    <3>6. AmountIn(PrunedCharges(t, t)) = 0
      BY <3>5, TotalOfNone DEF AmountIn
    <3>7. QED BY <3>2, <3>6
\* Where a token has been given out twice the keys of Redis have expired by now.
  <2>2. CASE ~unique
    <3>1. backend = "redis" /\ KeptLong(t) /\ wait = 3 * Minute
      BY <1>5, <2>2 DEF Ledgers, Held, Sound, IInv, Typed, wait
    <3>2. live[t].charges \in Nat
      BY DEF Ledgers, Sound, IInv, Typed, Keys
    <3>3. live[t].charges = 0 \/ \E c \in GrantedOf(t) : live[t].charges <= grants[c].dated + 3 * Minute
      BY <3>1 DEF KeptLong
    <3>4. live[t].charges <= now
      BY <1>1, <1>2, <3>1, <3>2, <3>3
    <3>5. total[t] = 0
      BY <3>1, <3>4 DEF KeptLong
    <3>6. QED BY <1>1, <3>5, PrunedNone
  <2>3. QED BY <2>1, <2>2
<1>8. limits.requests > 0 => ~(RequestCount(t) >= limits.requests)
  BY <1>1, <1>6
<1>9. limits.tokens > 0 => ~(PrunedTotal(t, t) + estimate > limits.tokens)
  BY <1>1, <1>7
<1>10. QED BY <1>3, <1>8, <1>9 DEF Rejection

\* No tenant stays charged for calls that are over, lost or never settled, in either
\* repository (prune_requests, prune_tokens, RESERVE and the PEXPIREs of its keys), for
\* any calls, tenants, limits, lease and window, and for as long as the gateway runs.
THEOREM Recovers == Spec => []QuotaRecovers
<1>1. Init => Ledgers
  BY InitLedgers
<1>2. Ledgers /\ [Next]_vars => Ledgers'
  BY StepLedgers
<1>3. Ledgers => QuotaRecovers
  BY LedgersRecover
<1>4. QED BY <1>1, <1>2, <1>3, PTL DEF Spec

-----------------------------------------------------------------------------
(* The book: which token each call bore.                                    *)

\* A book of which token each call bore: its keys in the tenant's maps are those of the
\* calls that still count, and say of them what QuotaPromise knows.
RequestsBooked(bears, t) ==
    /\ \A k \in DOMAIN requests[t] :
          \E c \in GrantedOf(t) : k # 0 /\ bears[c] = k /\ requests[t][k] = grants[c].at
    /\ limits.requests > 0 =>
          \A c \in GrantedOf(t) : grants[c].at + Minute > now => bears[c] \in DOMAIN requests[t]

\* The same of the charges, with their tokens,
ChargesBooked(bears, t) ==
    limits.tokens > 0 =>
       /\ \A k \in DOMAIN charges[t] :
             \E c \in GrantedOf(t) : /\ k # 0 /\ bears[c] = k
                                     /\ charges[t][k].at = grants[c].dated
                                     /\ charges[t][k].amount = grants[c].tokens
       /\ \A c \in GrantedOf(t) : grants[c].dated + Minute > now => bears[c] \in DOMAIN charges[t]

\* When the slot of a granted call is given up.
SlotOf(c) == IF backend = "redis" THEN grants[c].at + Lease ELSE Never

\* and of the slots of the open calls.
PermitsBooked(bears, t) ==
    /\ \A k \in DOMAIN permits[t] :
          \E c \in GrantedOf(t) : /\ k # 0 /\ bears[c] = k
                                  /\ grants[c].open /\ permits[t][k] = SlotOf(c)
    /\ limits.in_flight > 0 =>
          \A c \in GrantedOf(t) : grants[c].open /\ SlotOf(c) > now => bears[c] \in DOMAIN permits[t]

\* bears gives every call the token it bore, or 0 once another call has drawn that one.
Book(bears) ==
    /\ bears \in [Call -> Nat]
    /\ \A c, d \in Call : TenantOf[c] = TenantOf[d] /\ bears[c] = bears[d] /\ bears[c] # 0 => c = d
    /\ ~Unlimited => \A c \in Call : Bearing(c) => call[c].token = bears[c] /\ bears[c] # 0
    /\ \A t \in Tenant : RequestsBooked(bears, t) /\ ChargesBooked(bears, t) /\ PermitsBooked(bears, t)

\* What the refinement needs besides Ledgers.
Booked == (unique => \E bears : Book(bears)) /\ now <= MaxTime

-----------------------------------------------------------------------------
\* A key of a map is that of one call.
LEMMA BookTells ==
    ASSUME NEW bears, Book(bears), NEW t \in Tenant, NEW c \in GrantedOf(t)
    PROVE  /\ bears[c] \in DOMAIN requests[t] => bears[c] # 0 /\ requests[t][bears[c]] = grants[c].at
           /\ limits.tokens > 0 /\ bears[c] \in DOMAIN charges[t] =>
                 /\ bears[c] # 0 /\ charges[t][bears[c]].at = grants[c].dated
                 /\ charges[t][bears[c]].amount = grants[c].tokens
           /\ bears[c] \in DOMAIN permits[t] =>
                 bears[c] # 0 /\ permits[t][bears[c]] = SlotOf(c) /\ grants[c].open
<1>1. \A d \in GrantedOf(t) : bears[d] = bears[c] /\ bears[c] # 0 => d = c
  BY DEF Book, GrantedOf
<1>2. RequestsBooked(bears, t) /\ ChargesBooked(bears, t) /\ PermitsBooked(bears, t)
  BY DEF Book
<1>3. bears[c] \in DOMAIN requests[t] => bears[c] # 0 /\ requests[t][bears[c]] = grants[c].at
  BY <1>1, <1>2 DEF RequestsBooked
<1>4. limits.tokens > 0 /\ bears[c] \in DOMAIN charges[t] =>
         /\ bears[c] # 0 /\ charges[t][bears[c]].at = grants[c].dated
         /\ charges[t][bears[c]].amount = grants[c].tokens
  BY <1>1, <1>2 DEF ChargesBooked
<1>5. bears[c] \in DOMAIN permits[t] =>
         bears[c] # 0 /\ permits[t][bears[c]] = SlotOf(c) /\ grants[c].open
  BY <1>1, <1>2 DEF PermitsBooked
<1>6. QED BY <1>3, <1>4, <1>5

\* The calls of a tenant that a book has in a map, and that map's keys.
LEMMA BookCounts ==
    ASSUME NEW S, IsFiniteSet(S), NEW T, NEW bears, NEW f,
           f = [c \in S |-> bears[c]],
           \A c, d \in S : bears[c] = bears[d] => c = d,
           \A c \in S : bears[c] \in T,
           \A k \in T : \E c \in S : bears[c] = k
    PROVE  f \in Bijection(S, T) /\ IsFiniteSet(T) /\ Cardinality(T) = Cardinality(S)
<1>1. f \in Bijection(S, T)
  BY DEF Bijection, Injection, Surjection, IsInjective
<1>2. QED BY <1>1, FS_Bijection DEF ExistsBijection

\* The slots kept are those of the calls in flight.
LEMMA InFlightCounted ==
    ASSUME Ledgers, Booked, NEW bears, Book(bears), NEW t \in Tenant, limits.in_flight > 0
    PROVE  Cardinality(DOMAIN PrunedPermits(t, t)) = Cardinality(Promise!InFlight(t))
<1> DEFINE S == Promise!InFlight(t)
           T == DOMAIN PrunedPermits(t, t)
<1>1. S = {c \in GrantedOf(t) : grants[c].open /\ SlotOf(c) > now}
  <2>1. now < Never
    BY ConstantsAssumption DEF Booked, Never, Ledgers, Sound, IInv, Typed
  <2>2. CASE backend = "redis"
    BY <2>2 DEF Promise!InFlight, Promise!Granted, GrantedOf, SlotOf
  <2>3. CASE backend # "redis"
    BY <2>1, <2>3 DEF Promise!InFlight, Promise!Granted, GrantedOf, SlotOf, Never
  <2>4. QED BY <2>2, <2>3
<1>2. T = DOMAIN permits[t] \ StaleSlots(t)
  BY PruneThins DEF Ledgers, Sound
<1>3. IsFiniteSet(S)
  BY <1>1, FS_Subset DEF Ledgers, Sound, Formed
<1>4. /\ \A k \in DOMAIN permits[t] :
            \E c \in GrantedOf(t) : /\ k # 0 /\ bears[c] = k
                                    /\ grants[c].open /\ permits[t][k] = SlotOf(c)
      /\ \A c \in GrantedOf(t) : grants[c].open /\ SlotOf(c) > now => bears[c] \in DOMAIN permits[t]
  BY DEF Book, PermitsBooked
<1>5. ASSUME NEW c \in S
      PROVE  bears[c] \in T /\ bears[c] # 0
  <2>1. bears[c] \in DOMAIN permits[t] /\ SlotOf(c) > now /\ c \in GrantedOf(t)
    BY <1>1, <1>4
  <2>2. bears[c] # 0 /\ permits[t][bears[c]] = SlotOf(c)
    BY <2>1, BookTells
  <2>3. permits[t][bears[c]] \in Nat /\ now \in Nat
    BY <2>1 DEF Ledgers, Sound, Formed, MapsFormed, IInv, Typed
  <2>4. QED BY <1>2, <2>1, <2>2, <2>3 DEF StaleSlots
<1>6. ASSUME NEW k \in T
      PROVE  \E c \in S : bears[c] = k
  <2>1. k \in DOMAIN permits[t] /\ ~(permits[t][k] <= now)
    BY <1>2 DEF StaleSlots
  <2>2. PICK c \in GrantedOf(t) : bears[c] = k /\ grants[c].open /\ permits[t][k] = SlotOf(c)
    BY <1>4, <2>1
  <2>3. permits[t][k] \in Nat /\ now \in Nat
    BY <2>1 DEF Ledgers, Sound, Formed, MapsFormed, IInv, Typed
  <2>4. SlotOf(c) > now
    BY <2>1, <2>2, <2>3
  <2>5. QED BY <1>1, <2>2, <2>4
<1>7. \A c, d \in S : bears[c] = bears[d] => c = d
  BY <1>1, <1>5 DEF Book, GrantedOf
<1> HIDE DEF S, T
<1>8. [c \in S |-> bears[c]] = [c \in S |-> bears[c]]
  OBVIOUS
<1>9. Cardinality(T) = Cardinality(S)
  BY <1>3, <1>5, <1>6, <1>7, <1>8, BookCounts
<1>10. QED BY <1>9 DEF S, T

\* The requests kept are those of the calls of the last minute.
LEMMA RequestsCounted ==
    ASSUME Ledgers, NEW bears, Book(bears), NEW t \in Tenant, limits.requests > 0
    PROVE  Cardinality(DOMAIN PrunedRequests(t, t)) = Cardinality(Promise!Requests(t))
<1> DEFINE S == Promise!Requests(t)
           T == DOMAIN PrunedRequests(t, t)
<1>1. S = {c \in GrantedOf(t) : grants[c].at + Minute > now}
  BY DEF Promise!Requests, Promise!Granted, GrantedOf
<1>2. T = DOMAIN requests[t] \ StaleRequests(t)
  BY PruneThins DEF Ledgers, Sound
<1>3. IsFiniteSet(S)
  BY <1>1, FS_Subset DEF Ledgers, Sound, Formed
<1>4. /\ \A k \in DOMAIN requests[t] :
            \E c \in GrantedOf(t) : k # 0 /\ bears[c] = k /\ requests[t][k] = grants[c].at
      /\ \A c \in GrantedOf(t) : grants[c].at + Minute > now => bears[c] \in DOMAIN requests[t]
  BY DEF Book, RequestsBooked
<1>a. Minute \in Nat /\ now \in Nat /\ \A k \in DOMAIN requests[t] : requests[t][k] \in Nat
  BY ConstantsAssumption DEF Ledgers, Sound, Formed, MapsFormed, IInv, Typed
<1>5. ASSUME NEW c \in S
      PROVE  bears[c] \in T /\ bears[c] # 0
  <2>1. bears[c] \in DOMAIN requests[t] /\ grants[c].at + Minute > now /\ c \in GrantedOf(t)
    BY <1>1, <1>4
  <2>2. bears[c] # 0 /\ requests[t][bears[c]] = grants[c].at
    BY <2>1, BookTells
  <2>3. QED BY <1>2, <1>a, <2>1, <2>2 DEF StaleRequests
<1>6. ASSUME NEW k \in T
      PROVE  \E c \in S : bears[c] = k
  <2>1. k \in DOMAIN requests[t] /\ ~(requests[t][k] + Minute <= now)
    BY <1>2 DEF StaleRequests
  <2>2. PICK c \in GrantedOf(t) : bears[c] = k /\ requests[t][k] = grants[c].at
    BY <1>4, <2>1
  <2>3. grants[c].at + Minute > now
    BY <1>a, <2>1, <2>2
  <2>4. QED BY <1>1, <2>2, <2>3
<1>7. \A c, d \in S : bears[c] = bears[d] => c = d
  BY <1>1, <1>5 DEF Book, GrantedOf
<1> HIDE DEF S, T
<1>8. [c \in S |-> bears[c]] = [c \in S |-> bears[c]]
  OBVIOUS
<1>9. Cardinality(T) = Cardinality(S)
  BY <1>3, <1>5, <1>6, <1>7, <1>8, BookCounts
<1>10. QED BY <1>9 DEF S, T

\* The instance counts as the ledger does.
LEMMA SameCardinality == \A S : Promise!Cardinality(S) = Cardinality(S)
BY DEF Promise!Cardinality, Cardinality, Promise!IsFiniteSet, IsFiniteSet

\* And sums as it does.
LEMMA SameTotals == \A f : Promise!TotalOf(f) = TotalOf(f)
BY SameCardinality DEF Promise!TotalOf, Promise!Units, TotalOf, Units

\* The charges kept are the tokens of the calls of the last minute.
LEMMA TokensCounted ==
    ASSUME Ledgers, NEW bears, Book(bears), NEW t \in Tenant, limits.tokens > 0
    PROVE  AmountIn(PrunedCharges(t, t)) = Promise!TokensUsed(t)
<1> DEFINE S == {c \in GrantedOf(t) : grants[c].dated + Minute > now}
           g == PrunedCharges(t, t)
           T == DOMAIN g
           used == [c \in S |-> grants[c].tokens]
           held == [k \in T |-> g[k].amount]
           b == [c \in S |-> bears[c]]
<1>1. Promise!TokensUsed(t) = TotalOf(used)
  BY SameTotals DEF Promise!TokensUsed, Promise!Granted, GrantedOf
<1>2. /\ T = DOMAIN charges[t] \ StaleCharges(t)
      /\ \A k \in T : g[k] = charges[t][k]
  BY PruneThins DEF Ledgers, Sound, Thins
<1>3. IsFiniteSet(S)
  BY FS_Subset DEF Ledgers, Sound, Formed
<1>4. /\ \A k \in DOMAIN charges[t] :
            \E c \in GrantedOf(t) : /\ k # 0 /\ bears[c] = k
                                    /\ charges[t][k].at = grants[c].dated
                                    /\ charges[t][k].amount = grants[c].tokens
      /\ \A c \in GrantedOf(t) : grants[c].dated + Minute > now => bears[c] \in DOMAIN charges[t]
  BY DEF Book, ChargesBooked
<1>a. /\ Minute \in Nat /\ now \in Nat
      /\ \A k \in DOMAIN charges[t] : charges[t][k].at \in Nat /\ charges[t][k].amount \in Nat
      /\ \A c \in Call : grants[c].tokens \in Nat
  BY ConstantsAssumption DEF Ledgers, Sound, Formed, MapsFormed, Charge, IInv, Typed, Promise!Grant
<1>5. ASSUME NEW c \in S
      PROVE  bears[c] \in T /\ bears[c] # 0 /\ g[bears[c]].amount = grants[c].tokens
  <2>1. bears[c] \in DOMAIN charges[t] /\ grants[c].dated + Minute > now /\ c \in GrantedOf(t)
    BY <1>4
  <2>2. /\ bears[c] # 0 /\ charges[t][bears[c]].at = grants[c].dated
        /\ charges[t][bears[c]].amount = grants[c].tokens
    BY <2>1, BookTells
  <2>3. bears[c] \in T
    BY <1>2, <1>a, <2>1, <2>2 DEF StaleCharges
  <2>4. QED BY <1>2, <2>2, <2>3
<1>6. ASSUME NEW k \in T
      PROVE  \E c \in S : bears[c] = k
  <2>1. k \in DOMAIN charges[t] /\ ~(charges[t][k].at + Minute <= now)
    BY <1>2 DEF StaleCharges
  <2>2. PICK c \in GrantedOf(t) : bears[c] = k /\ charges[t][k].at = grants[c].dated
    BY <1>4, <2>1
  <2>3. grants[c].dated + Minute > now
    BY <1>a, <2>1, <2>2
  <2>4. QED BY <2>2, <2>3
<1>7. \A c, d \in S : bears[c] = bears[d] => c = d
  BY <1>5 DEF Book, GrantedOf
<1>8. used \in [S -> Nat] /\ held \in [T -> Nat] /\ \A c \in S : held[bears[c]] = used[c]
  BY <1>2, <1>a, <1>5 DEF GrantedOf
<1>9. AmountIn(g) = TotalOf(held)
  BY DEF AmountIn
<1>10. \A c \in S : b[c] = bears[c]
  OBVIOUS
<1>b. b = [c \in S |-> bears[c]]
  OBVIOUS
<1> HIDE DEF S, T, g, used, held, b
<1>11. b \in Bijection(S, T)
  BY <1>3, <1>5, <1>6, <1>7, <1>b, BookCounts
<1>12. \A c \in S : held[b[c]] = used[c]
  BY <1>8, <1>10
<1>13. TotalOf(held) = TotalOf(used)
  BY <1>3, <1>8, <1>11, <1>12, TotalRenamed
<1>14. QED BY <1>1, <1>9, <1>13 DEF g

\* While tokens tell the calls apart, a reservation is judged as the calls have it.
LEMMA SameJudgement ==
    ASSUME Ledgers, Booked, unique, NEW t \in Tenant, NEW estimate \in Estimates
    PROVE  Rejection(t, estimate) = Promise!Breach(t, estimate)
<1>1. PICK bears : Book(bears)
  BY DEF Booked
<1>2. limits.in_flight > 0 =>
         Cardinality(DOMAIN PrunedPermits(t, t)) = Cardinality(Promise!InFlight(t))
  BY <1>1, InFlightCounted
<1>3. limits.requests > 0 => RequestCount(t) = Cardinality(Promise!Requests(t))
  <2>1. ASSUME limits.requests > 0
        PROVE  Cardinality(DOMAIN PrunedRequests(t, t)) = Cardinality(Promise!Requests(t))
    BY <1>1, <2>1, RequestsCounted
  <2>2. CASE backend = "memory"
    <3>1. count[t] = Cardinality(DOMAIN requests[t])
      BY <2>2 DEF Ledgers, Tallied, Counted
    <3>2. PrunedCount(t, t) = Cardinality(DOMAIN PrunedRequests(t, t))
      BY <3>1, PruneCounts DEF Pruned, Ledgers, Sound
    <3>3. QED BY <2>1, <2>2, <3>2 DEF RequestCount
  <2>3. CASE backend # "memory"
    BY <2>1, <2>3 DEF RequestCount
  <2>4. QED BY <2>2, <2>3
<1>4. limits.tokens > 0 => PrunedTotal(t, t) = Promise!TokensUsed(t)
  <2>1. total[t] = AmountIn(charges[t])
    BY DEF Ledgers, Tallied, Counted
  <2>2. PrunedTotal(t, t) = AmountIn(PrunedCharges(t, t))
    BY <2>1, PruneCounts DEF Ledgers, Sound
  <2>3. QED BY <1>1, <2>2, TokensCounted
<1>5. QED BY <1>2, <1>3, <1>4, SameCardinality DEF Rejection, Promise!Breach

-----------------------------------------------------------------------------
(* Every step keeps the book.                                               *)

\* Steps that keep the book: a map loses only what no longer counts.
LEMMA RequestsBookedKept ==
    ASSUME Ledgers, Formed', Grown, NEW bears, Book(bears), NEW t \in Tenant,
           limits' = limits, now <= now', now' \in Nat,
           limits.requests > 0 => GrantedOf(t)' = GrantedOf(t),
           \A k \in DOMAIN requests'[t] : k \in DOMAIN requests[t] /\ requests'[t][k] = requests[t][k],
           \A k \in DOMAIN requests[t] \ DOMAIN requests'[t] : requests[t][k] + Minute <= now'
    PROVE  RequestsBooked(bears, t)'
<1>1. \A c \in GrantedOf(t) : c \in GrantedOf(t)' /\ grants'[c].at = grants[c].at
  BY DEF GrantedOf, Grown
<1>2. ASSUME NEW k \in DOMAIN requests'[t]
      PROVE  \E c \in GrantedOf(t)' : k # 0 /\ bears[c] = k /\ requests'[t][k] = grants'[c].at
  <2>1. PICK c \in GrantedOf(t) : k # 0 /\ bears[c] = k /\ requests[t][k] = grants[c].at
    BY DEF Book, RequestsBooked
  <2>2. QED BY <1>1, <2>1
<1>3. ASSUME limits.requests > 0, NEW c \in GrantedOf(t), grants[c].at + Minute > now'
      PROVE  bears[c] \in DOMAIN requests'[t]
  <2>1. /\ now \in Nat /\ grants[c].at \in Nat /\ Minute \in Nat
    BY ConstantsAssumption DEF Ledgers, Sound, Formed, IInv, Typed, Promise!Grant, GrantedOf
  <2>2. bears[c] \in DOMAIN requests[t]
    <3>1. grants[c].at + Minute > now
      BY <1>3, <2>1
    <3>2. QED BY <1>3, <3>1 DEF Book, RequestsBooked
  <2>3. requests[t][bears[c]] = grants[c].at
    BY <2>2, BookTells
  <2>4. QED BY <1>3, <2>1, <2>2, <2>3
<1>4. QED BY <1>1, <1>2, <1>3 DEF RequestsBooked

\* The same of the charges.
LEMMA ChargesBookedKept ==
    ASSUME Ledgers, Formed', Grown, NEW bears, Book(bears), NEW t \in Tenant,
           limits' = limits, now <= now', now' \in Nat,
           limits.tokens > 0 => GrantedOf(t)' = GrantedOf(t),
           \A c \in GrantedOf(t) : grants'[c].dated = grants[c].dated /\ grants'[c].tokens = grants[c].tokens,
           \A k \in DOMAIN charges'[t] : k \in DOMAIN charges[t] /\ charges'[t][k] = charges[t][k],
           \A k \in DOMAIN charges[t] \ DOMAIN charges'[t] : charges[t][k].at + Minute <= now'
    PROVE  ChargesBooked(bears, t)'
<1>1. \A c \in GrantedOf(t) : c \in GrantedOf(t)'
  BY DEF GrantedOf, Grown
<1>2. ASSUME limits.tokens > 0, NEW k \in DOMAIN charges'[t]
      PROVE  \E c \in GrantedOf(t)' : /\ k # 0 /\ bears[c] = k
                                      /\ charges'[t][k].at = grants'[c].dated
                                      /\ charges'[t][k].amount = grants'[c].tokens
  <2>1. PICK c \in GrantedOf(t) : /\ k # 0 /\ bears[c] = k
                                  /\ charges[t][k].at = grants[c].dated
                                  /\ charges[t][k].amount = grants[c].tokens
    BY <1>2 DEF Book, ChargesBooked
  <2>2. QED BY <1>1, <2>1
<1>3. ASSUME limits.tokens > 0, NEW c \in GrantedOf(t), grants[c].dated + Minute > now'
      PROVE  bears[c] \in DOMAIN charges'[t]
  <2>1. /\ now \in Nat /\ grants[c].dated \in Nat /\ Minute \in Nat
    BY ConstantsAssumption DEF Ledgers, Sound, Formed, IInv, Typed, Promise!Grant, GrantedOf
  <2>2. bears[c] \in DOMAIN charges[t]
    <3>1. grants[c].dated + Minute > now
      BY <1>3, <2>1
    <3>2. QED BY <1>3, <3>1 DEF Book, ChargesBooked
  <2>3. charges[t][bears[c]].at = grants[c].dated
    BY <1>3, <2>2, BookTells
  <2>4. QED BY <1>3, <2>1, <2>2, <2>3
<1>4. QED BY <1>1, <1>2, <1>3 DEF ChargesBooked

\* The same of the slots.
LEMMA PermitsBookedKept ==
    ASSUME Ledgers, Formed', Grown, NEW bears, Book(bears), NEW t \in Tenant,
           UNCHANGED <<limits, backend>>, now <= now', now' \in Nat,
           limits.in_flight > 0 => GrantedOf(t)' = GrantedOf(t),
           \A c \in GrantedOf(t) : grants'[c].open = grants[c].open,
           \A k \in DOMAIN permits'[t] : k \in DOMAIN permits[t] /\ permits'[t][k] = permits[t][k],
           \A k \in DOMAIN permits[t] \ DOMAIN permits'[t] : permits[t][k] <= now'
    PROVE  PermitsBooked(bears, t)'
<1>1. \A c \in GrantedOf(t) : c \in GrantedOf(t)' /\ SlotOf(c)' = SlotOf(c)
  BY DEF GrantedOf, Grown, SlotOf
<1>2. ASSUME NEW k \in DOMAIN permits'[t]
      PROVE  \E c \in GrantedOf(t)' : /\ k # 0 /\ bears[c] = k
                                      /\ grants'[c].open /\ permits'[t][k] = SlotOf(c)'
  <2>1. PICK c \in GrantedOf(t) : /\ k # 0 /\ bears[c] = k
                                  /\ grants[c].open /\ permits[t][k] = SlotOf(c)
    BY DEF Book, PermitsBooked
  <2>2. QED BY <1>1, <2>1
<1>3. ASSUME limits.in_flight > 0, NEW c \in GrantedOf(t), grants[c].open, SlotOf(c) > now'
      PROVE  bears[c] \in DOMAIN permits'[t]
  <2>1. /\ now \in Nat /\ SlotOf(c) \in Nat
    BY ConstantsAssumption
       DEF Ledgers, Sound, Formed, IInv, Typed, Promise!Grant, GrantedOf, SlotOf, Never
  <2>2. bears[c] \in DOMAIN permits[t]
    <3>1. SlotOf(c) > now
      BY <1>3, <2>1
    <3>2. QED BY <1>3, <3>1 DEF Book, PermitsBooked
  <2>3. permits[t][bears[c]] = SlotOf(c)
    BY <2>2, BookTells
  <2>4. QED BY <1>3, <2>1, <2>2, <2>3
<1>4. QED BY <1>1, <1>2, <1>3 DEF PermitsBooked

\* A step that keeps the three entries of the book keeps the book.
LEMMA BookKept ==
    ASSUME Ledgers, Formed', Grown, NEW bears, Book(bears),
           UNCHANGED <<limits, backend>>, now <= now', now' \in Nat,
           ~Unlimited => \A c \in Call : /\ grants'[c] = grants[c]
                                         /\ Bearing(c)' => Bearing(c) /\ call'[c].token = call[c].token,
           \A c \in Call : grants[c].granted => grants'[c] = grants[c],
           \A t \in Tenant :
              /\ \A k \in DOMAIN permits'[t] : k \in DOMAIN permits[t] /\ permits'[t][k] = permits[t][k]
              /\ \A k \in DOMAIN requests'[t] : k \in DOMAIN requests[t] /\ requests'[t][k] = requests[t][k]
              /\ \A k \in DOMAIN charges'[t] : k \in DOMAIN charges[t] /\ charges'[t][k] = charges[t][k]
              /\ \A k \in DOMAIN permits[t] \ DOMAIN permits'[t] : permits[t][k] <= now'
              /\ \A k \in DOMAIN requests[t] \ DOMAIN requests'[t] : requests[t][k] + Minute <= now'
              /\ \A k \in DOMAIN charges[t] \ DOMAIN charges'[t] : charges[t][k].at + Minute <= now'
    PROVE  Book(bears)'
<1>1. ASSUME NEW t \in Tenant
      PROVE  RequestsBooked(bears, t)' /\ ChargesBooked(bears, t)' /\ PermitsBooked(bears, t)'
  <2>1. /\ limits.requests > 0 => GrantedOf(t)' = GrantedOf(t)
        /\ limits.tokens > 0 => GrantedOf(t)' = GrantedOf(t)
        /\ limits.in_flight > 0 => GrantedOf(t)' = GrantedOf(t)
    <3>1. ~Unlimited => GrantedOf(t)' = GrantedOf(t)
      BY DEF GrantedOf
    <3>2. limits.requests > 0 \/ limits.tokens > 0 \/ limits.in_flight > 0 => ~Unlimited
      BY DEF Unlimited
    <3>3. QED BY <3>1, <3>2
  <2>2. \A c \in GrantedOf(t) : grants'[c] = grants[c]
    BY DEF GrantedOf
  <2>3. RequestsBooked(bears, t)'
    BY <2>1, RequestsBookedKept
  <2>4. ChargesBooked(bears, t)'
    BY <2>1, <2>2, ChargesBookedKept
  <2>5. PermitsBooked(bears, t)'
    BY <2>1, <2>2, PermitsBookedKept
  <2>6. QED BY <2>3, <2>4, <2>5
<1>2. ~Unlimited' => \A c \in Call : Bearing(c)' => call'[c].token = bears[c] /\ bears[c] # 0
  BY DEF Book, Unlimited
<1>3. QED BY <1>1, <1>2 DEF Book

\* A rejection prunes what no longer counts.
LEMMA RejectBooks ==
    ASSUME Ledgers, Booked, NEW c \in Call, NEW estimate \in Estimates, Reject(c, estimate)
    PROVE  Booked'
<1>1. /\ UNCHANGED <<backend, limits, now, grants, unique>> /\ call' = [call EXCEPT ![c] = Ended]
  BY DEF Reject
<1>2. /\ Formed' /\ Grown
  BY RejectForms DEF Ledgers
<1>3. \A d \in Call : Bearing(d)' => call'[d] = call[d]
  BY <1>1 DEF Ledgers, Sound, IInv, Typed, Bearing, Ended, NewCall
<1>4. \A t \in Tenant : /\ Thins(permits'[t], permits[t], StaleSlots(t))
                        /\ Thins(requests'[t], requests[t], StaleRequests(t))
                        /\ Thins(charges'[t], charges[t], StaleCharges(t))
  BY RejectMaps DEF Ledgers, Sound
<1>5. now <= now' /\ now' \in Nat
  BY <1>1 DEF Ledgers, Sound, IInv, Typed
<1>6. ASSUME NEW bears, Book(bears)
      PROVE  Book(bears)'
  <2>1. \A t \in Tenant :
              /\ \A k \in DOMAIN permits'[t] : k \in DOMAIN permits[t] /\ permits'[t][k] = permits[t][k]
              /\ \A k \in DOMAIN requests'[t] : k \in DOMAIN requests[t] /\ requests'[t][k] = requests[t][k]
              /\ \A k \in DOMAIN charges'[t] : k \in DOMAIN charges[t] /\ charges'[t][k] = charges[t][k]
    BY <1>4 DEF Thins
  <2>2. \A t \in Tenant :
              /\ \A k \in DOMAIN permits[t] \ DOMAIN permits'[t] : permits[t][k] <= now'
              /\ \A k \in DOMAIN requests[t] \ DOMAIN requests'[t] : requests[t][k] + Minute <= now'
              /\ \A k \in DOMAIN charges[t] \ DOMAIN charges'[t] : charges[t][k].at + Minute <= now'
    BY <1>1, <1>4 DEF Thins, StaleSlots, StaleRequests, StaleCharges
  <2>3. \A d \in Call : Bearing(d)' => Bearing(d) /\ call'[d].token = call[d].token
    BY <1>3 DEF Bearing
  <2>4. QED BY <1>1, <1>2, <1>5, <1>6, <2>1, <2>2, <2>3, BookKept
<1>7. QED BY <1>1, <1>6 DEF Booked

\* Without limits nothing is entered.
LEMMA GrantUnlimitedBooks ==
    ASSUME Ledgers, Booked, NEW c \in Call, NEW estimate \in Estimates, GrantUnlimited(c, estimate)
    PROVE  Booked'
<1>1. /\ UNCHANGED <<backend, limits, now, unique, permits, requests, charges>> /\ Unlimited
      /\ call[c].phase = "new" /\ grants' = [grants EXCEPT ![c] = Fresh(estimate)]
  BY DEF GrantUnlimited, ledger, Fresh
<1>2. /\ Formed' /\ Grown
  BY GrantUnlimitedForms DEF Ledgers
<1>3. \A d \in Call : grants[d].granted => grants'[d] = grants[d]
  BY <1>1, Begun DEF Ledgers
<1>4. now <= now' /\ now' \in Nat
  BY <1>1 DEF Ledgers, Sound, IInv, Typed
<1>5. ASSUME NEW bears, Book(bears)
      PROVE  Book(bears)'
  BY <1>1, <1>2, <1>3, <1>4, <1>5, BookKept
<1>6. QED BY <1>1, <1>5 DEF Booked

\* A lost release leaves the book as it is.
LEMMA ReleaseLostBooks ==
    ASSUME Ledgers, Booked, NEW c \in Call, ReleaseLost(c)
    PROVE  Booked'
<1>1. /\ UNCHANGED <<backend, limits, now, unique, permits, requests, charges, grants>>
      /\ call' = [call EXCEPT ![c] = Ended]
  BY DEF ReleaseLost, ledger, history
<1>2. /\ Formed' /\ Grown
  BY ReleaseLostForms DEF Ledgers
<1>3. \A d \in Call : Bearing(d)' => Bearing(d) /\ call'[d].token = call[d].token
  BY <1>1 DEF Ledgers, Sound, IInv, Typed, Bearing, Ended, NewCall
<1>4. now <= now' /\ now' \in Nat
  BY <1>1 DEF Ledgers, Sound, IInv, Typed
<1>5. ASSUME NEW bears, Book(bears)
      PROVE  Book(bears)'
  BY <1>1, <1>2, <1>3, <1>4, <1>5, BookKept
<1>6. QED BY <1>1, <1>5 DEF Booked

\* A key that Redis drops holds nothing that still counts.
LEMMA TickBooks ==
    ASSUME Ledgers, Booked, Tick
    PROVE  Booked'
<1>1. /\ now' = now + 1 /\ now < MaxTime /\ UNCHANGED <<backend, limits, call, live, grants, unique>>
  BY DEF Tick, history
<1>2. Formed' /\ Grown
  BY TickForms DEF Ledgers
<1>3. now <= now' /\ now' \in Nat /\ now' <= MaxTime
  BY <1>1, ConstantsAssumption DEF Ledgers, Sound, IInv, Typed
<1>4. ASSUME NEW t \in Tenant
      PROVE  /\ \A k \in DOMAIN permits'[t] : k \in DOMAIN permits[t] /\ permits'[t][k] = permits[t][k]
             /\ \A k \in DOMAIN requests'[t] : k \in DOMAIN requests[t] /\ requests'[t][k] = requests[t][k]
             /\ \A k \in DOMAIN charges'[t] : k \in DOMAIN charges[t] /\ charges'[t][k] = charges[t][k]
             /\ \A k \in DOMAIN permits[t] \ DOMAIN permits'[t] : permits[t][k] <= now'
             /\ \A k \in DOMAIN requests[t] \ DOMAIN requests'[t] : requests[t][k] + Minute <= now'
             /\ \A k \in DOMAIN charges[t] \ DOMAIN charges'[t] : charges[t][k].at + Minute <= now'
  <2>1. /\ permits'[t] = permits[t] \/ (backend = "redis" /\ live[t].slots = now + 1 /\ permits'[t] = Empty)
        /\ \/ requests'[t] = requests[t]
           \/ backend = "redis" /\ live[t].requests = now + 1 /\ requests'[t] = Empty
        /\ \/ charges'[t] = charges[t]
           \/ backend = "redis" /\ live[t].charges = now + 1 /\ charges'[t] = Empty
    BY TickMaps DEF Ledgers, Sound
  <2>2. DOMAIN Empty = {}
    BY DEF Empty
  <2>3. KeptLong(t)
    BY DEF Ledgers, Held
  <2>4. QED BY <1>1, <2>1, <2>2, <2>3 DEF KeptLong
<1>5. \A d \in Call : Bearing(d)' => Bearing(d) /\ call'[d].token = call[d].token
  BY <1>1 DEF Bearing
<1>6. ASSUME NEW bears, Book(bears)
      PROVE  Book(bears)'
  BY <1>1, <1>2, <1>3, <1>4, <1>5, <1>6, BookKept
<1>7. QED BY <1>1, <1>3, <1>6 DEF Booked

\* A release gives back the slot of its call, and of no other.
LEMMA ReleaseBooks ==
    ASSUME Ledgers, Booked, NEW c \in Call, Release(c)
    PROVE  Booked'
<1>1. /\ UNCHANGED <<backend, limits, now, unique, requests, charges>>
      /\ call[c].phase \in {"held", "settled"} /\ call' = [call EXCEPT ![c] = Ended]
      /\ grants' = [grants EXCEPT ![c].open = FALSE]
  BY DEF Release
<1>2. Formed' /\ Grown /\ grants \in [Call -> Promise!Grant]
  BY ReleaseForms DEF Ledgers, Sound, Formed
<1>3. \A d \in Call : Bearing(d)' => Bearing(d) /\ call'[d].token = call[d].token
  BY <1>1 DEF Ledgers, Sound, IInv, Typed, Bearing, Ended, NewCall
<1>4. now <= now' /\ now' \in Nat
  BY <1>1 DEF Ledgers, Sound, IInv, Typed
<1>5. /\ \A d \in Call : /\ grants'[d].granted = grants[d].granted /\ grants'[d].at = grants[d].at
                         /\ grants'[d].dated = grants[d].dated /\ grants'[d].tokens = grants[d].tokens
                         /\ d # c => grants'[d] = grants[d]
      /\ grants'[c].open = FALSE
  <2> DEFINE closed == [grants[c] EXCEPT !.open = FALSE]
  <2>1. grants[c] \in Promise!Grant
    BY <1>2
  <2>2. /\ closed.open = FALSE /\ closed.granted = grants[c].granted /\ closed.at = grants[c].at
        /\ closed.dated = grants[c].dated /\ closed.tokens = grants[c].tokens
    BY <2>1 DEF Promise!Grant
  <2>3. grants' = [grants EXCEPT ![c] = closed]
    BY <1>1
  <2> HIDE DEF closed
  <2>4. QED BY <1>2, <2>2, <2>3
<1>6. \A t \in Tenant : GrantedOf(t)' = GrantedOf(t)
  BY <1>5 DEF GrantedOf
<1>7. ASSUME NEW bears, Book(bears)
      PROVE  Book(bears)'
  <2>1. ASSUME NEW t \in Tenant
        PROVE  RequestsBooked(bears, t)'
    BY <1>1, <1>2, <1>4, <1>6, <1>7, RequestsBookedKept
  <2>2. ASSUME NEW t \in Tenant
        PROVE  ChargesBooked(bears, t)'
    <3>1. \A d \in GrantedOf(t) : grants'[d].dated = grants[d].dated /\ grants'[d].tokens = grants[d].tokens
      BY <1>5 DEF GrantedOf
    <3>2. QED BY <1>1, <1>2, <1>4, <1>6, <1>7, <3>1, ChargesBookedKept
  <2>3. ASSUME NEW t \in Tenant
        PROVE  PermitsBooked(bears, t)'
    <3>1. IF t = TenantOf[c] /\ call[c].counted
          THEN permits'[t] = Restrict(permits[t], DOMAIN permits[t] \ {call[c].token})
          ELSE permits'[t] = permits[t]
      BY ReleaseMaps DEF Ledgers, Sound
    <3>2. \A d \in GrantedOf(t) : SlotOf(d)' = SlotOf(d)
      BY <1>1, <1>5 DEF SlotOf, GrantedOf
    <3>3. \A k \in DOMAIN permits[t] : limits.in_flight > 0
      BY DEF Ledgers, Dated, PermitsDated
    <3>4. limits.in_flight > 0 => call[c].counted /\ call[c].token = bears[c] /\ bears[c] # 0
      BY <1>1, <1>7 DEF Ledgers, Sound, CallsAgree, Bearing, Book, Unlimited
    <3>5. ASSUME NEW k \in DOMAIN permits'[t]
          PROVE  \E d \in GrantedOf(t)' : /\ k # 0 /\ bears[d] = k
                                          /\ grants'[d].open /\ permits'[t][k] = SlotOf(d)'
      <4>1. k \in DOMAIN permits[t] /\ permits'[t][k] = permits[t][k]
        BY <3>1 DEF Restrict
      <4>2. limits.in_flight > 0
        BY <3>3, <4>1
      <4>3. t = TenantOf[c] => k # bears[c]
        BY <3>1, <3>4, <4>2 DEF Restrict
      <4>4. PICK d \in GrantedOf(t) : k # 0 /\ bears[d] = k /\ grants[d].open /\ permits[t][k] = SlotOf(d)
        BY <1>7, <4>1 DEF Book, PermitsBooked
      <4>5. d # c
        BY <4>3, <4>4 DEF GrantedOf
      <4>6. QED BY <1>5, <1>6, <3>2, <4>1, <4>4, <4>5 DEF GrantedOf
    <3>6. ASSUME limits.in_flight > 0, NEW d \in GrantedOf(t), grants'[d].open, SlotOf(d) > now
          PROVE  bears[d] \in DOMAIN permits'[t]
      <4>1. d # c /\ grants[d].open
        BY <1>5, <3>6 DEF GrantedOf
      <4>2. bears[d] \in DOMAIN permits[t]
        BY <1>7, <3>6, <4>1 DEF Book, PermitsBooked
      <4>3. t = TenantOf[c] => bears[d] # call[c].token
        BY <1>7, <3>4, <3>6, <4>1 DEF Book, GrantedOf
      <4>4. QED BY <3>1, <4>2, <4>3 DEF Restrict
    <3>7. QED BY <1>1, <1>6, <3>2, <3>5, <3>6 DEF PermitsBooked
  <2>4. ~Unlimited' => \A d \in Call : Bearing(d)' => call'[d].token = bears[d] /\ bears[d] # 0
    BY <1>1, <1>3, <1>7 DEF Book, Unlimited
  <2>5. QED BY <1>7, <2>1, <2>2, <2>3, <2>4 DEF Book
<1>8. QED BY <1>1, <1>7 DEF Booked

\* A settlement changes the charge of its call as its grant is changed.
LEMMA SettleBooks ==
    ASSUME Ledgers, Booked, NEW c \in Call, NEW actual \in Actual, Settle(c, actual)
    PROVE  Booked'
<1> DEFINE t == TenantOf[c]
           token == call[c].token
<1>1. /\ call[c].phase = "held" /\ UNCHANGED <<backend, limits, now, permits, requests, count, refused, unique>>
      /\ call'[c].phase = "settled" /\ call'[c].token = call[c].token /\ call'[c].counted = call[c].counted
      /\ \A d \in Call : d # c => call'[d] = call[d] /\ grants'[d] = grants[d]
      /\ grants' \in [Call -> Promise!Grant]
      /\ grants'[c] = [granted |-> grants[c].granted, at |-> grants[c].at,
                       dated |-> IF grants[c].dated + Minute > now THEN grants[c].dated ELSE now,
                       tokens |-> actual, open |-> grants[c].open]
      /\ grants[c].granted /\ grants[c].open
  BY SettleCalls DEF Ledgers
<1>2. Formed' /\ Grown
  BY SettleForms DEF Ledgers
<1>3. /\ now <= now' /\ now' \in Nat /\ now \in Nat /\ Minute \in Nat /\ Minute > 0 /\ t \in Tenant
      /\ \A d \in Call : grants[d].dated \in Nat
  BY <1>1, ConstantsAssumption DEF Ledgers, Sound, IInv, Typed, Formed, Promise!Grant
<1>4. /\ grants'[c].granted = grants[c].granted /\ grants'[c].at = grants[c].at /\ grants'[c].open = grants[c].open
      /\ grants'[c].tokens = actual
      /\ grants'[c].dated = IF grants[c].dated + Minute > now THEN grants[c].dated ELSE now
  BY <1>1
<1>5. \A u \in Tenant : GrantedOf(u)' = GrantedOf(u)
  BY <1>1, <1>4 DEF GrantedOf
<1>6. \A d \in Call : Bearing(d)' => Bearing(d) /\ call'[d].token = call[d].token
  BY <1>1 DEF Bearing
<1> HIDE DEF token
<1>7. ASSUME NEW u \in Tenant
      PROVE  /\ limits.tokens = 0 => charges' = charges
             /\ limits.tokens > 0 =>
                   IF u = t
                   THEN Puts(charges'[u], charges[u], StaleCharges(u), token, Resettlement(t, token, actual))
                   ELSE Thins(charges'[u], charges[u], StaleCharges(u))
  BY SettleMaps DEF Ledgers, Sound, token
<1>8. limits.tokens = 0 \/ limits.tokens > 0
  BY DEF Ledgers, Sound, Formed
<1>9. ASSUME NEW bears, Book(bears)
      PROVE  Book(bears)'
  <2>1. ASSUME NEW u \in Tenant
        PROVE  RequestsBooked(bears, u)'
    BY <1>1, <1>2, <1>3, <1>5, <1>9, RequestsBookedKept
  <2>2. ASSUME NEW u \in Tenant
        PROVE  PermitsBooked(bears, u)'
    <3>1. \A d \in GrantedOf(u) : grants'[d].open = grants[d].open
      BY <1>1, <1>4 DEF GrantedOf
    <3>2. QED BY <1>1, <1>2, <1>3, <1>5, <1>9, <3>1, PermitsBookedKept
  <2>3. ASSUME NEW u \in Tenant
        PROVE  ChargesBooked(bears, u)'
    <3>0. limits.tokens > 0 =>
             /\ \A k \in DOMAIN charges[u] :
                   \E d \in GrantedOf(u) : /\ k # 0 /\ bears[d] = k
                                           /\ charges[u][k].at = grants[d].dated
                                           /\ charges[u][k].amount = grants[d].tokens
             /\ \A d \in GrantedOf(u) : grants[d].dated + Minute > now => bears[d] \in DOMAIN charges[u]
      BY <1>9 DEF Book, ChargesBooked
    <3>1. CASE limits.tokens = 0
      BY <1>1, <3>1 DEF ChargesBooked
    <3>2. CASE limits.tokens > 0 /\ u # t
      <4>1. \A d \in GrantedOf(u) : grants'[d] = grants[d]
        BY <1>1, <3>2 DEF GrantedOf
      <4>2. /\ \A k \in DOMAIN charges'[u] : k \in DOMAIN charges[u] /\ charges'[u][k] = charges[u][k]
            /\ \A k \in DOMAIN charges[u] \ DOMAIN charges'[u] : charges[u][k].at + Minute <= now'
        BY <1>1, <1>7, <3>2 DEF Thins, StaleCharges
      <4>3. QED BY <1>1, <1>2, <1>3, <1>5, <1>9, <4>1, <4>2, ChargesBookedKept
    <3>3. CASE limits.tokens > 0 /\ u = t
      <4>1. token = bears[c] /\ token # 0
        BY <1>1, <1>9, <3>3 DEF Book, Bearing, Unlimited, token
      <4>2. c \in GrantedOf(t)
        BY <1>1 DEF GrantedOf
      <4>3. Puts(charges'[u], charges[u], StaleCharges(u), token, Resettlement(t, token, actual))
        BY <1>7, <3>3
      <4>4. Resettlement(t, token, actual).at = grants'[c].dated
        <5>1. token \in DOMAIN charges[t] => charges[t][token].at = grants[c].dated
          BY <1>3, <1>9, <3>3, <4>1, <4>2, BookTells
        <5>2. grants[c].dated + Minute > now => token \in DOMAIN charges[t]
          BY <3>0, <3>3, <4>1, <4>2
        <5>3. CASE grants[c].dated + Minute > now
          <6>1. token \in DOMAIN charges[t] \ StaleCharges(t)
            BY <1>3, <5>1, <5>2, <5>3 DEF StaleCharges
          <6>2. QED BY <1>4, <5>1, <5>3, <6>1 DEF Resettlement
        <5>4. CASE ~(grants[c].dated + Minute > now)
          <6>1. token \notin DOMAIN charges[t] \ StaleCharges(t)
            BY <1>3, <5>1, <5>4 DEF StaleCharges
          <6>2. QED BY <1>4, <5>4, <6>1 DEF Resettlement
        <5>5. QED BY <5>3, <5>4
      <4>5. Resettlement(t, token, actual).amount = actual
        BY DEF Resettlement
      <4>6. ASSUME NEW k \in DOMAIN charges'[u]
            PROVE  \E d \in GrantedOf(u)' : /\ k # 0 /\ bears[d] = k
                                            /\ charges'[u][k].at = grants'[d].dated
                                            /\ charges'[u][k].amount = grants'[d].tokens
        <5>1. CASE k = token
          <6>1. charges'[u][k] = Resettlement(t, token, actual)
            BY <4>3, <5>1 DEF Puts
          <6>2. c \in GrantedOf(u)'
            BY <1>5, <3>3, <4>2
          <6>3. QED BY <1>4, <4>1, <4>4, <4>5, <5>1, <6>1, <6>2
        <5>2. CASE k # token
          <6>1. k \in DOMAIN charges[u] /\ charges'[u][k] = charges[u][k]
            BY <4>3, <5>2 DEF Puts
          <6>2. PICK d \in GrantedOf(u) : /\ k # 0 /\ bears[d] = k
                                          /\ charges[u][k].at = grants[d].dated
                                          /\ charges[u][k].amount = grants[d].tokens
            BY <3>0, <3>3, <6>1
          <6>3. d # c
            BY <4>1, <5>2, <6>2
          <6>4. d \in GrantedOf(u)' /\ grants'[d] = grants[d]
            BY <1>1, <1>5, <6>3 DEF GrantedOf
          <6>5. QED BY <6>1, <6>2, <6>4
        <5>3. QED BY <5>1, <5>2
      <4>7. ASSUME NEW d \in GrantedOf(u), grants'[d].dated + Minute > now
            PROVE  bears[d] \in DOMAIN charges'[u]
        <5>1. CASE d = c
          BY <4>1, <4>3, <5>1 DEF Puts
        <5>2. CASE d # c
          <6>1. grants'[d] = grants[d] /\ d \in Call
            BY <1>1, <5>2 DEF GrantedOf
          <6>2. bears[d] \in DOMAIN charges[u]
            BY <3>0, <3>3, <4>7, <6>1
          <6>3. charges[u][bears[d]].at = grants[d].dated
            BY <1>9, <3>3, <6>2, BookTells
          <6>4. bears[d] \notin StaleCharges(u)
            BY <1>3, <4>7, <6>1, <6>3 DEF StaleCharges
          <6>5. QED BY <4>3, <6>2, <6>4 DEF Puts
        <5>3. QED BY <5>1, <5>2
      <4>8. QED BY <1>1, <1>5, <4>6, <4>7 DEF ChargesBooked
    <3>4. QED BY <1>8, <3>1, <3>2, <3>3
  <2>4. ~Unlimited' => \A d \in Call : Bearing(d)' => call'[d].token = bears[d] /\ bears[d] # 0
    BY <1>1, <1>6, <1>9 DEF Book, Unlimited
  <2>5. QED BY <1>9, <2>1, <2>2, <2>3, <2>4 DEF Book
<1>10. QED BY <1>1, <1>9 DEF Booked

\* A grant enters its call under a token that is in no map and borne by no call of its
\* tenant; whoever bore it before counts no more.
LEMMA GrantBooks ==
    ASSUME Ledgers, Booked, NEW c \in Call, NEW estimate \in Estimates, Grant(c, estimate)
    PROVE  Booked'
<1> DEFINE t == TenantOf[c]
           token == NextTickets(t)[t]
<1>1. /\ t \in Tenant
      /\ UNCHANGED <<backend, limits, now, refused>>
      /\ grants' = [grants EXCEPT ![c] = Fresh(estimate)]
      /\ call[c].phase = "new"
      /\ \A d \in Call : d # c => call'[d] = call[d]
      /\ \/ call'[c] = [phase |-> "held", token |-> token, counted |-> limits.in_flight > 0]
         \/ call'[c] = Ended
      /\ unique' = (unique /\ token \notin Borne(t))
      /\ ~Unlimited
  BY GrantCalls DEF Ledgers
<1>2. /\ grants'[c] = Fresh(estimate) /\ ~grants[c].granted
      /\ \A d \in Call : d # c => grants'[d] = grants[d]
  BY <1>1, Begun DEF Ledgers
<1>3. token \in Nat /\ token # 0
  BY <1>1 DEF NextTickets, Ledgers, Sound, IInv, Typed
<1>4. /\ now \in Nat /\ Minute \in Nat
      /\ \A d \in Call : grants[d].at \in Nat /\ grants[d].dated \in Nat /\ SlotOf(d) \in Nat
  BY ConstantsAssumption
     DEF Ledgers, Sound, IInv, Typed, Formed, Promise!Grant, SlotOf, Never
<1> HIDE DEF token
<1>5. /\ c \in GrantedOf(t)' /\ grants'[c].at = now /\ grants'[c].dated = now
      /\ grants'[c].tokens = estimate /\ grants'[c].open /\ SlotOf(c)' = SlotUntil
  BY <1>1, <1>2 DEF GrantedOf, Fresh, SlotOf, SlotUntil, Never
<1>6. ASSUME NEW u \in Tenant
      PROVE  /\ IF u = t /\ limits.in_flight > 0
                THEN Puts(permits'[u], permits[u], StaleSlots(u), token, SlotUntil)
                ELSE Thins(permits'[u], permits[u], StaleSlots(u))
             /\ IF u = t /\ limits.requests > 0
                THEN Puts(requests'[u], requests[u], StaleRequests(u), token, now)
                ELSE Thins(requests'[u], requests[u], StaleRequests(u))
             /\ IF u = t /\ limits.tokens > 0
                THEN Puts(charges'[u], charges[u], StaleCharges(u), token, [at |-> now, amount |-> estimate])
                ELSE Thins(charges'[u], charges[u], StaleCharges(u))
  BY GrantMaps DEF Ledgers, Sound, token
<1>7. ASSUME NEW u \in Tenant, NEW d \in GrantedOf(u)
      PROVE  d \in GrantedOf(u)' /\ d # c /\ grants'[d] = grants[d] /\ SlotOf(d)' = SlotOf(d)
  BY <1>1, <1>2 DEF GrantedOf, SlotOf, Never
<1>8. ASSUME NEW u \in Tenant, NEW d \in GrantedOf(u)'
      PROVE  d \in GrantedOf(u) \/ (d = c /\ u = t)
  BY <1>1, <1>2 DEF GrantedOf
<1>9. ASSUME unique', NEW old, Book(old)
      PROVE  \E bears : Book(bears)'
  <2>1. token \notin Borne(t)
    BY <1>1, <1>9, Zenon
  <2>2. /\ token \notin DOMAIN permits[t] /\ token \notin DOMAIN requests[t] /\ token \notin DOMAIN charges[t]
        /\ \A d \in Call : TenantOf[d] = t /\ Bearing(d) => call[d].token # token
    BY <2>1 DEF Borne, Bearing
  <2>3. old \in [Call -> Nat]
    BY <1>9 DEF Book
  <2>4. PICK bears \in [Call -> Nat] :
           /\ bears[c] = token
           /\ \A d \in Call : d # c /\ (TenantOf[d] # t \/ old[d] # token) => bears[d] = old[d]
           /\ \A d \in Call : d # c => bears[d] = old[d] \/ bears[d] = 0
           /\ \A d \in Call : d # c /\ TenantOf[d] = t => bears[d] # token
    <3> DEFINE new == [d \in Call |-> IF d = c THEN token
                                      ELSE IF TenantOf[d] = t /\ old[d] = token THEN 0 ELSE old[d]]
    <3>1. new \in [Call -> Nat]
      BY <1>3, <2>3
    <3>2. QED BY <1>3, <3>1
  <2>5. \A d, e \in Call : TenantOf[d] = TenantOf[e] /\ bears[d] = bears[e] /\ bears[d] # 0 => d = e
    <3>1. \A d, e \in Call : TenantOf[d] = TenantOf[e] /\ old[d] = old[e] /\ old[d] # 0 => d = e
      BY <1>9 DEF Book
    <3>2. QED BY <2>4, <3>1
  <2>6. ~Unlimited' => \A d \in Call : Bearing(d)' => call'[d].token = bears[d] /\ bears[d] # 0
    <3>1. ASSUME NEW d \in Call, Bearing(d)'
          PROVE  call'[d].token = bears[d] /\ bears[d] # 0
      <4>1. CASE d = c
        <5>1. call'[c] # Ended
          BY <3>1, <4>1 DEF Bearing, Ended, NewCall
        <5>2. call'[c].token = token
          BY <1>1, <5>1
        <5>3. QED BY <1>3, <2>4, <4>1, <5>2
      <4>2. CASE d # c
        <5>1. call'[d] = call[d] /\ Bearing(d)
          BY <1>1, <3>1, <4>2 DEF Bearing
        <5>2. call[d].token = old[d] /\ old[d] # 0
          BY <1>1, <1>9, <5>1 DEF Book
        <5>3. TenantOf[d] # t \/ old[d] # token
          BY <2>2, <5>1, <5>2
        <5>4. QED BY <2>4, <4>2, <5>1, <5>2, <5>3
      <4>3. QED BY <4>1, <4>2
    <3>2. QED BY <3>1
\* The entry of a call that has one is still that of the call.
  <2>7. ASSUME NEW u \in Tenant, NEW d \in GrantedOf(u),
               old[d] \in DOMAIN permits[u] \/ old[d] \in DOMAIN requests[u] \/ old[d] \in DOMAIN charges[u]
        PROVE  bears[d] = old[d] /\ (u = t => bears[d] # token)
    BY <1>7, <2>2, <2>4, <2>7 DEF GrantedOf
  <2>8. ASSUME NEW u \in Tenant
        PROVE  RequestsBooked(bears, u)'
    <3>1. /\ \A k \in DOMAIN requests[u] :
                \E d \in GrantedOf(u) : k # 0 /\ old[d] = k /\ requests[u][k] = grants[d].at
          /\ limits.requests > 0 =>
                \A d \in GrantedOf(u) : grants[d].at + Minute > now => old[d] \in DOMAIN requests[u]
      BY <1>9 DEF Book, RequestsBooked
    <3>2. ASSUME NEW k \in DOMAIN requests'[u]
          PROVE  \E d \in GrantedOf(u)' : k # 0 /\ bears[d] = k /\ requests'[u][k] = grants'[d].at
      <4>1. CASE u = t /\ k = token
        <5>1. requests'[u][k] = now
          BY <1>6, <2>2, <4>1 DEF Puts, Thins
        <5>2. QED BY <1>3, <1>5, <2>4, <4>1, <5>1
      <4>2. CASE ~(u = t /\ k = token)
        <5>1. k \in DOMAIN requests[u] /\ requests'[u][k] = requests[u][k]
          BY <1>6, <4>2 DEF Puts, Thins
        <5>2. PICK d \in GrantedOf(u) : k # 0 /\ old[d] = k /\ requests[u][k] = grants[d].at
          BY <3>1, <5>1
        <5>3. bears[d] = k
          BY <2>7, <5>1, <5>2
        <5>4. QED BY <1>7, <5>1, <5>2, <5>3
      <4>3. QED BY <4>1, <4>2
    <3>3. ASSUME limits.requests > 0, NEW d \in GrantedOf(u)', grants'[d].at + Minute > now
          PROVE  bears[d] \in DOMAIN requests'[u]
      <4>1. CASE d = c /\ u = t
        BY <1>6, <2>4, <3>3, <4>1 DEF Puts
      <4>2. CASE d \in GrantedOf(u)
        <5>1. grants'[d] = grants[d]
          BY <1>7, <4>2
        <5>2. old[d] \in DOMAIN requests[u]
          BY <3>1, <3>3, <4>2, <5>1
        <5>3. requests[u][old[d]] = grants[d].at /\ bears[d] = old[d]
          BY <1>9, <2>7, <4>2, <5>2, BookTells
        <5>4. bears[d] \notin StaleRequests(u) /\ bears[d] \in DOMAIN requests[u]
          BY <1>4, <3>3, <4>2, <5>1, <5>2, <5>3 DEF StaleRequests, GrantedOf
        <5>5. QED BY <1>6, <5>4 DEF Puts, Thins
      <4>3. QED BY <1>8, <4>1, <4>2
    <3>4. QED BY <1>1, <3>2, <3>3 DEF RequestsBooked
  <2>9. ASSUME NEW u \in Tenant
        PROVE  ChargesBooked(bears, u)'
    <3>0. CASE ~(limits.tokens > 0)
      BY <1>1, <3>0 DEF ChargesBooked
    <3>a. CASE limits.tokens > 0
     <4>1. /\ \A k \in DOMAIN charges[u] :
                 \E d \in GrantedOf(u) : /\ k # 0 /\ old[d] = k
                                         /\ charges[u][k].at = grants[d].dated
                                         /\ charges[u][k].amount = grants[d].tokens
           /\ \A d \in GrantedOf(u) : grants[d].dated + Minute > now => old[d] \in DOMAIN charges[u]
      BY <1>9, <3>a DEF Book, ChargesBooked
     <4>2. ASSUME NEW k \in DOMAIN charges'[u]
           PROVE  \E d \in GrantedOf(u)' : /\ k # 0 /\ bears[d] = k
                                           /\ charges'[u][k].at = grants'[d].dated
                                           /\ charges'[u][k].amount = grants'[d].tokens
      <5>1. CASE u = t /\ k = token
        <6>1. charges'[u][k] = [at |-> now, amount |-> estimate]
          BY <1>6, <3>a, <5>1 DEF Puts
        <6>2. charges'[u][k].at = now /\ charges'[u][k].amount = estimate
          BY <6>1
        <6>3. QED BY <1>3, <1>5, <2>4, <5>1, <6>2
      <5>2. CASE ~(u = t /\ k = token)
        <6>1. k \in DOMAIN charges[u] /\ charges'[u][k] = charges[u][k]
          BY <1>6, <5>2 DEF Puts, Thins
        <6>2. PICK d \in GrantedOf(u) : /\ k # 0 /\ old[d] = k
                                        /\ charges[u][k].at = grants[d].dated
                                        /\ charges[u][k].amount = grants[d].tokens
          BY <4>1, <6>1
        <6>3. bears[d] = k
          BY <2>7, <6>1, <6>2
        <6>4. QED BY <1>7, <6>1, <6>2, <6>3
      <5>3. QED BY <5>1, <5>2
     <4>3. ASSUME NEW d \in GrantedOf(u)', grants'[d].dated + Minute > now
           PROVE  bears[d] \in DOMAIN charges'[u]
      <5>1. CASE d = c /\ u = t
        BY <1>6, <2>4, <3>a, <5>1 DEF Puts
      <5>2. CASE d \in GrantedOf(u)
        <6>1. grants'[d] = grants[d]
          BY <1>7, <5>2
        <6>2. old[d] \in DOMAIN charges[u]
          BY <4>1, <4>3, <5>2, <6>1
        <6>3. charges[u][old[d]].at = grants[d].dated /\ bears[d] = old[d]
          BY <1>9, <2>7, <3>a, <5>2, <6>2, BookTells
        <6>4. bears[d] \notin StaleCharges(u) /\ bears[d] \in DOMAIN charges[u]
          BY <1>4, <4>3, <5>2, <6>1, <6>2, <6>3 DEF StaleCharges, GrantedOf
        <6>5. QED BY <1>6, <6>4 DEF Puts, Thins
      <5>3. QED BY <1>8, <5>1, <5>2
     <4>4. QED BY <1>1, <4>2, <4>3 DEF ChargesBooked
    <3>b. QED BY <3>0, <3>a
  <2>10. ASSUME NEW u \in Tenant
         PROVE  PermitsBooked(bears, u)'
    <3>1. /\ \A k \in DOMAIN permits[u] :
                \E d \in GrantedOf(u) : /\ k # 0 /\ old[d] = k
                                        /\ grants[d].open /\ permits[u][k] = SlotOf(d)
          /\ limits.in_flight > 0 =>
                \A d \in GrantedOf(u) : grants[d].open /\ SlotOf(d) > now => old[d] \in DOMAIN permits[u]
      BY <1>9 DEF Book, PermitsBooked
    <3>2. ASSUME NEW k \in DOMAIN permits'[u]
          PROVE  \E d \in GrantedOf(u)' : /\ k # 0 /\ bears[d] = k
                                          /\ grants'[d].open /\ permits'[u][k] = SlotOf(d)'
      <4>1. CASE u = t /\ k = token
        <5>1. permits'[u][k] = SlotUntil
          BY <1>6, <2>2, <4>1 DEF Puts, Thins
        <5>2. QED BY <1>3, <1>5, <2>4, <4>1, <5>1
      <4>2. CASE ~(u = t /\ k = token)
        <5>1. k \in DOMAIN permits[u] /\ permits'[u][k] = permits[u][k]
          BY <1>6, <4>2 DEF Puts, Thins
        <5>2. PICK d \in GrantedOf(u) : /\ k # 0 /\ old[d] = k
                                        /\ grants[d].open /\ permits[u][k] = SlotOf(d)
          BY <3>1, <5>1
        <5>3. bears[d] = k
          BY <2>7, <5>1, <5>2
        <5>4. QED BY <1>7, <5>1, <5>2, <5>3
      <4>3. QED BY <4>1, <4>2
    <3>3. ASSUME limits.in_flight > 0, NEW d \in GrantedOf(u)', grants'[d].open, SlotOf(d)' > now
          PROVE  bears[d] \in DOMAIN permits'[u]
      <4>1. CASE d = c /\ u = t
        BY <1>6, <2>4, <3>3, <4>1 DEF Puts
      <4>2. CASE d \in GrantedOf(u)
        <5>1. grants'[d] = grants[d] /\ SlotOf(d)' = SlotOf(d)
          BY <1>7, <4>2
        <5>2. old[d] \in DOMAIN permits[u]
          BY <3>1, <3>3, <4>2, <5>1
        <5>3. permits[u][old[d]] = SlotOf(d) /\ bears[d] = old[d]
          BY <1>9, <2>7, <4>2, <5>2, BookTells
        <5>4. bears[d] \notin StaleSlots(u) /\ bears[d] \in DOMAIN permits[u]
          BY <1>4, <3>3, <4>2, <5>1, <5>2, <5>3 DEF StaleSlots, GrantedOf
        <5>5. QED BY <1>6, <5>4 DEF Puts, Thins
      <4>3. QED BY <1>8, <4>1, <4>2
    <3>4. QED BY <1>1, <3>2, <3>3 DEF PermitsBooked
  <2>11. Book(bears)'
    BY <2>4, <2>5, <2>6, <2>8, <2>9, <2>10 DEF Book
  <2>12. QED BY <2>11
<1>10. unique' => unique
  BY <1>1, Zenon
<1>11. QED BY <1>1, <1>9, <1>10 DEF Booked

\* The book is empty at first.
LEMMA InitBooked == Init => Booked
<1> SUFFICES ASSUME Init
             PROVE  Booked
  OBVIOUS
<1> DEFINE bears == [c \in Call |-> 0]
<1>1. /\ \A t \in Tenant : DOMAIN permits[t] = {} /\ DOMAIN requests[t] = {} /\ DOMAIN charges[t] = {}
      /\ \A c \in Call : ~grants[c].granted /\ ~Bearing(c)
      /\ now = 0
  BY DEF Init, Empty, NewGrant, NewCall, Bearing
<1>2. \A t \in Tenant : GrantedOf(t) = {}
  BY <1>1 DEF GrantedOf
<1>3. bears \in [Call -> Nat] /\ \A c \in Call : bears[c] = 0
  OBVIOUS
<1> HIDE DEF bears
<1>4. Book(bears)
  BY <1>1, <1>2, <1>3 DEF Book, RequestsBooked, ChargesBooked, PermitsBooked
<1>5. now <= MaxTime
  BY <1>1, ConstantsAssumption
<1>6. QED BY <1>4, <1>5 DEF Booked

\* Every step keeps the book.
LEMMA StepBooked ==
    ASSUME Ledgers, Booked, [Next]_vars
    PROVE  Booked'
<1>1. CASE UNCHANGED vars
  <2>1. UNCHANGED <<backend, limits, now, permits, requests, charges, call, grants, unique>>
    BY <1>1 DEF vars, ledger, history
  <2>2. ASSUME NEW bears, Book(bears)
        PROVE  Book(bears)'
    <3>1. \A t \in Tenant : RequestsBooked(bears, t)' /\ ChargesBooked(bears, t)' /\ PermitsBooked(bears, t)'
      BY <2>1, <2>2 DEF Book, RequestsBooked, ChargesBooked, PermitsBooked, GrantedOf, SlotOf
    <3>2. QED BY <2>1, <2>2, <3>1 DEF Book, Bearing, Unlimited
  <2>3. QED BY <2>1, <2>2 DEF Booked
<1>2. QED BY <1>1, GrantBooks, GrantUnlimitedBooks, RejectBooks, SettleBooks, ReleaseBooks,
             ReleaseLostBooks, TickBooks DEF Next

-----------------------------------------------------------------------------
(* The refinement of QuotaPromise, step by step.                            *)

\* A fresh grant within the limits is an admission.
LEMMA FreshAdmits ==
    ASSUME NEW c \in Call, NEW estimate, UNCHANGED <<now, refused>>,
           grants'[c] = Fresh(estimate), ~grants[c].granted, refused[c] = "none",
           \A d \in Call : d # c => grants'[d] = grants[d],
           Promise!Breach(TenantOf[c], estimate) = "none"
    PROVE  Promise!Others(c) /\ Promise!Admit(c)
<1>1. grants'[c].granted /\ grants'[c].tokens = estimate
  BY DEF Fresh
<1>2. grants'[c] = [granted |-> TRUE, at |-> now, dated |-> now,
                    tokens |-> grants'[c].tokens, open |-> TRUE]
  BY <1>1 DEF Fresh
<1>3. Promise!Breach(TenantOf[c], grants'[c].tokens) = "none"
  BY <1>1
<1>4. refused' = refused /\ now' = now
  OBVIOUS
<1>5. Promise!Admit(c)
  BY <1>1, <1>2, <1>3, <1>4, Zenon DEF Promise!Admit
<1>6. QED BY <1>4, <1>5 DEF Promise!Others

\* reserve grants: the promise admits the call.
LEMMA GrantAdmits ==
    ASSUME Ledgers, Booked, NEW c \in Call, NEW estimate \in Estimates, Grant(c, estimate), unique'
    PROVE  Promise!Others(c) /\ Promise!Admit(c)
<1> DEFINE t == TenantOf[c]
           token == NextTickets(t)[t]
<1>1. /\ t \in Tenant
      /\ UNCHANGED <<backend, limits, now, refused>>
      /\ grants' = [grants EXCEPT ![c] = Fresh(estimate)]
      /\ call[c].phase = "new"
      /\ unique' = (unique /\ token \notin Borne(t))
  BY GrantCalls DEF Ledgers
<1>2. unique
  BY <1>1, Zenon
<1>3. /\ grants'[c] = Fresh(estimate) /\ ~grants[c].granted /\ refused[c] = "none"
      /\ \A d \in Call : d # c => grants'[d] = grants[d]
  BY <1>1, Begun DEF Ledgers
<1>4. Rejection(t, estimate) = "none"
  BY DEF Grant
<1>5. Promise!Breach(t, estimate) = "none"
  BY <1>1, <1>2, <1>4, SameJudgement
<1>6. QED BY <1>1, <1>3, <1>5, FreshAdmits

\* Without limits every call is admitted.
LEMMA GrantUnlimitedAdmits ==
    ASSUME Ledgers, NEW c \in Call, NEW estimate \in Estimates, GrantUnlimited(c, estimate)
    PROVE  Promise!Others(c) /\ Promise!Admit(c)
<1>1. /\ UNCHANGED <<backend, limits, now, refused>>
      /\ grants' = [grants EXCEPT ![c] = Fresh(estimate)]
      /\ call[c].phase = "new" /\ Unlimited
  BY DEF GrantUnlimited, Fresh
<1>2. /\ grants'[c] = Fresh(estimate) /\ ~grants[c].granted /\ refused[c] = "none"
      /\ \A d \in Call : d # c => grants'[d] = grants[d]
  BY <1>1, Begun DEF Ledgers
<1>3. Promise!Breach(TenantOf[c], estimate) = "none"
  BY <1>1 DEF Unlimited, Promise!Breach
<1>4. QED BY <1>1, <1>2, <1>3, FreshAdmits

\* reserve rejects: the promise refuses the call, for the same limit.
LEMMA RejectRefuses ==
    ASSUME Ledgers, Booked, NEW c \in Call, NEW estimate \in Estimates, Reject(c, estimate), unique'
    PROVE  Promise!Others(c) /\ Promise!Refuse(c)
<1> DEFINE t == TenantOf[c]
<1>1. /\ t \in Tenant
      /\ UNCHANGED <<backend, limits, now, grants, unique>>
      /\ refused' = [refused EXCEPT ![c] = Rejection(t, estimate)]
      /\ call[c].phase = "new" /\ Rejection(t, estimate) # "none"
  BY ConstantsAssumption DEF Reject
<1>2. ~grants[c].granted /\ refused[c] = "none" /\ refused \in [Call -> Reasons]
  BY <1>1 DEF Ledgers, Sound, CallsAgree, Formed
<1>3. Rejection(t, estimate) = Promise!Breach(t, estimate)
  BY <1>1, SameJudgement
<1>4. /\ refused'[c] = Rejection(t, estimate)
      /\ \A d \in Call : d # c => refused'[d] = refused[d]
  BY <1>1, <1>2
<1>5. QED BY <1>1, <1>2, <1>3, <1>4 DEF Promise!Others, Promise!Refuse

\* settle: the tokens used replace the estimate.
LEMMA SettleSettles ==
    ASSUME Ledgers, NEW c \in Call, NEW actual \in Actual, Settle(c, actual)
    PROVE  Promise!Others(c) /\ Promise!Settle(c)
<1>1. /\ UNCHANGED <<now, refused>>
      /\ \A d \in Call : d # c => grants'[d] = grants[d]
      /\ grants'[c] = [granted |-> grants[c].granted, at |-> grants[c].at,
                       dated |-> IF grants[c].dated + Minute > now THEN grants[c].dated ELSE now,
                       tokens |-> actual, open |-> grants[c].open]
      /\ grants[c].granted
  BY SettleCalls DEF Ledgers
<1>2. grants[c] \in Promise!Grant
  BY DEF Ledgers, Sound, Formed
<1>a. now \in Nat /\ actual \in Nat
  BY ConstantsAssumption DEF Ledgers, Sound, IInv, Typed
<1> DEFINE g == grants[c]
           due == IF g.dated + Minute > now THEN g.dated ELSE now
           new == [g EXCEPT !.tokens = actual, !.dated = due]
<1>b. g \in Promise!Grant /\ due \in Nat
  BY <1>2, <1>a DEF Promise!Grant
<1>3. grants'[c] = [granted |-> g.granted, at |-> g.at, dated |-> due,
                    tokens |-> actual, open |-> g.open]
  BY <1>1
<1> HIDE DEF g, due
<1>4. new \in Promise!Grant
  BY <1>a, <1>b DEF Promise!Grant
<1>5. /\ new.granted = g.granted /\ new.at = g.at /\ new.open = g.open
      /\ new.dated = due /\ new.tokens = actual
  BY <1>b DEF Promise!Grant
<1> HIDE DEF new
<1>6. new = [granted |-> new.granted, at |-> new.at, dated |-> new.dated, tokens |-> new.tokens,
             open |-> new.open]
  BY <1>4 DEF Promise!Grant
<1>7. grants'[c] = new /\ grants'[c].tokens = actual
  BY <1>3, <1>5, <1>6
<1>8. grants'[c] = [grants[c] EXCEPT
           !.tokens = grants'[c].tokens,
           !.dated = IF @ + Minute > now THEN @ ELSE now]
  BY <1>7, Zenon DEF new, g, due
<1>9. QED BY <1>1, <1>8 DEF Promise!Others, Promise!Settle

\* release: the slot is given back.
LEMMA ReleaseReleases ==
    ASSUME Ledgers, NEW c \in Call, Release(c)
    PROVE  Promise!Others(c) /\ Promise!Release(c)
<1>1. /\ UNCHANGED <<now, refused>>
      /\ grants' = [grants EXCEPT ![c].open = FALSE]
      /\ call[c].phase \in {"held", "settled"}
  BY DEF Release
<1>2. grants \in [Call -> Promise!Grant] /\ grants[c].open
  BY <1>1 DEF Ledgers, Sound, Formed, CallsAgree, Bearing
<1>3. /\ grants'[c] = [grants[c] EXCEPT !.open = FALSE]
      /\ \A d \in Call : d # c => grants'[d] = grants[d]
  BY <1>1, <1>2
<1>4. QED BY <1>1, <1>2, <1>3 DEF Promise!Others, Promise!Release

\* Every step of the ledger, of either repository, is one the promise allows, or none.
LEMMA StepKeepsPromise ==
    ASSUME Ledgers, Booked, [Next]_vars
    PROVE  /\ [unique' => Promise!Step]_(Promise!vars)
           /\ [UNCHANGED <<limits, backend = "redis">>]_(Promise!vars)
<1>1. CASE UNCHANGED vars
  <2>1. UNCHANGED Promise!vars
    BY <1>1 DEF vars, history, Promise!vars
  <2>2. QED BY <2>1
<1>2. ASSUME NEW c \in Call, NEW estimate \in Estimates, Grant(c, estimate)
      PROVE  (unique' => Promise!Step) /\ UNCHANGED <<limits, backend>>
  BY <1>2, GrantAdmits DEF Promise!Step, Grant
<1>3. ASSUME NEW c \in Call, NEW estimate \in Estimates, GrantUnlimited(c, estimate)
      PROVE  Promise!Step /\ UNCHANGED <<limits, backend>>
  BY <1>3, GrantUnlimitedAdmits DEF Promise!Step, GrantUnlimited
<1>4. ASSUME NEW c \in Call, NEW estimate \in Estimates, Reject(c, estimate)
      PROVE  (unique' => Promise!Step) /\ UNCHANGED <<limits, backend>>
  BY <1>4, RejectRefuses DEF Promise!Step, Reject
<1>5. ASSUME NEW c \in Call, NEW actual \in Actual, Settle(c, actual)
      PROVE  Promise!Step /\ UNCHANGED <<limits, backend>>
  BY <1>5, SettleSettles DEF Promise!Step, Settle
<1>6. ASSUME NEW c \in Call, Release(c)
      PROVE  Promise!Step /\ UNCHANGED <<limits, backend>>
  BY <1>6, ReleaseReleases DEF Promise!Step, Release
<1>7. ASSUME NEW c \in Call, ReleaseLost(c)
      PROVE  UNCHANGED Promise!vars
  BY <1>7 DEF ReleaseLost, history, Promise!vars
<1>8. ASSUME Tick
      PROVE  Promise!Step /\ UNCHANGED <<limits, backend>>
  BY <1>8 DEF Tick, history, Promise!Step, Promise!Pass
<1>9. QED BY <1>1, <1>2, <1>3, <1>4, <1>5, <1>6, <1>7, <1>8 DEF Next

\* Both repositories keep the promise: a call is admitted, or refused and for which
\* limit, as the calls in flight, those of the last minute and their tokens have it,
\* for any calls, tenants, limits, lease and window; whatever is pruned, settled late,
\* released late or never (reserve, settle and release of MemoryQuotaRepository, and
\* RESERVE and SETTLE_TOKENS with the keys that Redis drops).
THEOREM Promised == Spec => KeepsPromise
<1>1. Init => Ledgers /\ Booked /\ Promise!Init
  BY InitLedgers, InitBooked DEF Init, Promise!Init, NewGrant, Promise!NoGrant
<1>2. Ledgers /\ Booked /\ [Next]_vars => Ledgers' /\ Booked'
  BY StepLedgers, StepBooked
<1>3. Ledgers /\ Booked /\ [Next]_vars =>
         /\ [unique' => Promise!Step]_(Promise!vars)
         /\ [UNCHANGED <<limits, backend = "redis">>]_(Promise!vars)
  BY StepKeepsPromise
<1>4. QED BY <1>1, <1>2, <1>3, PTL DEF Spec, KeepsPromise, Promise!Spec
=============================================================================
