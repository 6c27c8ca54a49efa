---------------------------- MODULE ServiceProofs ----------------------------
(***************************************************************************)
(* The state that outlives a request or its process: the shared circuit     *)
(* breaker and the feedback of a served process.                            *)
(*                                                                         *)
(* The probe slot of a shared circuit has at most one unexpired holder, for *)
(* any number of processes, deployments and scopes and any cooldown and     *)
(* window, provided that no two gateway processes have the same process id; *)
(* that no hash expires early needs no proviso.                             *)
(*                                                                         *)
(* Feedback that was erased stays gone, a restart reads what memory held,   *)
(* and records show it, for any turns, records, calls, deletions, clients,  *)
(* queue and file: memory, the queue, the file and the snapshots of the     *)
(* erasures are kept in step by the order of the commands in the queue.     *)
(* And the dry run of a configuration foretells its start.                  *)
(***************************************************************************)
EXTENDS Service, SharedCircuit, FiniteSetTheorems, SequenceTheorems, WellFoundedInduction, TLAPS

\* The tokens "{pid}-{ticket}" of two processes differ (circuit.rs:158-161).
PidsDistinct == \A g, h \in Process : Pid[g] = Pid[h] => g = h

\* A grant is out exactly as its circuit records it: under its token, for the
\* time it has left.
GrantsRecorded ==
    \A g \in granted : /\ circuit[g.key].token = TokenOf(g)
                       /\ circuit[g.key].probe = g.left

\* The slots a permit was granted are on circuits that gate its deployment.
GrantsWithinPermit ==
    \A p \in permits, g \in granted : SameHolder(p, g) => g.key \in Keys(p.deployment)

\* What holds whatever process ids the gateways have.
Sound ==
    /\ TypeOK
    /\ GrantsWithinPermit
    /\ TtlCoversDeadlines

\* What holds when they have distinct ones.
IInv ==
    /\ Sound
    /\ GrantsRecorded
    /\ NoPhantomProbe

-----------------------------------------------------------------------------
(* What the scripts do to one circuit.                                       *)

\* What the lemmas below use of the constants; a hash lives at least four cooldowns.
LEMMA Ranges ==
    /\ Cooldown \in Nat /\ Cooldown > 0 /\ Window \in Nat
    /\ StateTtl \in Nat /\ StateTtl > Cooldown
    /\ -1 \in -1..Cooldown /\ 0 \in -1..Cooldown /\ Cooldown \in -1..Cooldown
    /\ 0 \in 0..Cooldown /\ Cooldown \in 0..Cooldown
    /\ 0 \in 0..(Window + 1) /\ Window + 1 \in 0..(Window + 1)
    /\ 0 \in Nat
<1>1. Cooldown \in Nat /\ Cooldown > 0 /\ Window \in Nat
  BY ConstantsAssumption
<1>2. StateTtl \in Nat /\ StateTtl > Cooldown
  BY <1>1 DEF StateTtl
<1>3. QED BY <1>1, <1>2

\* ACQUIRE's second loop on a circuit its first loop lets pass.
LEMMA ProbedCircuit ==
    ASSUME NEW c \in Circuit, NEW t \in Token, Admits(c), DeadlinesCovered(c)
    PROVE  /\ Probed(c, t) \in Circuit
           /\ DeadlinesCovered(Probed(c, t))
           /\ c.open >= 0 => /\ c.probe = 0
                             /\ Probed(c, t).token = t
                             /\ Probed(c, t).probe = Cooldown
           /\ ~(c.open >= 0) => Probed(c, t) = c
<1>1. CASE c.open >= 0
  <2>1. c.open = 0 /\ c.probe = 0
    BY <1>1 DEF Admits
  <2>2. Probed(c, t) = [c EXCEPT !.token = t, !.probe = Cooldown, !.ttl = StateTtl]
    BY <1>1 DEF Probed
  <2>3. Probed(c, t) \in Circuit
    <3>1. Cooldown \in 0..Cooldown /\ StateTtl \in Nat
      BY Ranges
    <3>2. QED BY <2>2, <3>1 DEF Circuit
  <2>4. DeadlinesCovered(Probed(c, t))
    BY <2>1, <2>2, Ranges DEF Circuit, DeadlinesCovered
  <2>5. QED BY <2>1, <2>2, <2>3, <2>4 DEF Circuit
<1>2. CASE ~(c.open >= 0)
  BY <1>2 DEF Probed
<1>3. QED BY <1>1, <1>2

\* The scripts that end a permit free the slot if it is theirs and no other slot.
Frees(c, e, t) ==
    /\ e \in Circuit
    /\ DeadlinesCovered(e)
    /\ c.token = t => e.probe = 0
    /\ c.token # t => e.token = c.token /\ e.probe = c.probe

\* Giving up a probe frees the slot of that token, and no other.
LEMMA UnprobedCircuit ==
    ASSUME NEW c \in Circuit, NEW t, DeadlinesCovered(c)
    PROVE  Frees(c, Unprobed(c, t), t)
<1>1. CASE c.token = t
  <2>1. Unprobed(c, t) = [c EXCEPT !.token = NoToken, !.probe = 0]
    BY <1>1 DEF Unprobed
  <2>2. 0 \in 0..Cooldown
    BY Ranges
  <2>3. Unprobed(c, t) \in Circuit
    BY <2>1, <2>2 DEF Circuit
  <2>4. QED BY <1>1, <2>1, <2>3 DEF Circuit, Frees, DeadlinesCovered
<1>2. CASE c.token # t
  BY <1>2 DEF Frees, Unprobed
<1>3. QED BY <1>1, <1>2

\* A window that rolls over does not touch the probe.
LEMMA RolledCircuit ==
    ASSUME NEW c \in Circuit
    PROVE  /\ Rolled(c) \in Circuit
           /\ Rolled(c).token = c.token
           /\ Rolled(c).probe = c.probe
<1>1. Window + 1 \in 0..(Window + 1) /\ 0 \in Nat
  BY Ranges
<1>2. QED BY <1>1 DEF Circuit, Rolled

\* FINISH with success frees the slot of that token, and no other.
LEMMA SucceededCircuit ==
    ASSUME NEW c \in Circuit, NEW t, DeadlinesCovered(c)
    PROVE  Frees(c, Succeeded(c, t), t)
<1> DEFINE u == Unprobed(c, t)
           r == Rolled(u)
<1>1. Frees(c, u, t)
  BY UnprobedCircuit
<1>2. r \in Circuit /\ r.token = u.token /\ r.probe = u.probe
  BY <1>1, RolledCircuit DEF Frees
<1>3. /\ Succeeded(c, t) = [r EXCEPT !.successes = @ + 1, !.open = -1, !.ttl = StateTtl]
  BY DEF Succeeded
<1> HIDE DEF r
<1>4. /\ Succeeded(c, t) \in Circuit
      /\ Succeeded(c, t).token = r.token
      /\ Succeeded(c, t).probe = r.probe
      /\ DeadlinesCovered(Succeeded(c, t))
  <2>1. r.successes + 1 \in Nat /\ -1 \in -1..Cooldown /\ StateTtl \in Nat
    BY <1>2, Ranges DEF Circuit
  <2>2. Succeeded(c, t) \in Circuit
    BY <1>2, <1>3, <2>1 DEF Circuit
  <2>3. QED BY <1>2, <1>3, <2>2, Ranges DEF Circuit, DeadlinesCovered
<1>5. QED BY <1>1, <1>2, <1>4 DEF Frees

\* Charging a failure may open the circuit and does not touch the probe.
LEMMA ChargedCircuit ==
    ASSUME NEW c \in Circuit, NEW kind, NEW n
    PROVE  /\ Charged(c, kind, n) \in Circuit
           /\ Charged(c, kind, n).token = c.token
           /\ Charged(c, kind, n).probe = c.probe
<1> DEFINE opens == n > 1 /\ (ForceOpen(kind) \/
                      (((c.failures + 1) * 1000) \div (c.successes + (c.failures + 1))) >= Threshold)
<1>1. Charged(c, kind, n) =
        [c EXCEPT !.failures = c.failures + 1, !.open = IF opens THEN Cooldown ELSE @]
  BY DEF Charged
<1> HIDE DEF opens
<1>2. c.failures + 1 \in Nat /\ Cooldown \in -1..Cooldown
  BY Ranges DEF Circuit
<1>3. QED BY <1>1, <1>2 DEF Circuit

\* FINISH with a failure, charged or not, frees the slot of that token only.
LEMMA FailedCircuit ==
    ASSUME NEW c \in Circuit, NEW t, NEW charged \in BOOLEAN, NEW kind, NEW n,
           DeadlinesCovered(c)
    PROVE  Frees(c, Failed(c, t, charged, kind, n), t)
<1> DEFINE u == Unprobed(c, t)
           r == Rolled(u)
           e == IF charged THEN Charged(r, kind, n) ELSE r
           f == Failed(c, t, charged, kind, n)
<1>1. Frees(c, u, t)
  BY UnprobedCircuit
<1>2. r \in Circuit /\ r.token = u.token /\ r.probe = u.probe
  BY <1>1, RolledCircuit DEF Frees
<1>3. e \in Circuit /\ e.token = r.token /\ e.probe = r.probe
  BY <1>2, ChargedCircuit
<1>4. f = [e EXCEPT !.ttl = StateTtl]
  BY DEF Failed
<1> HIDE DEF e, f
<1>5. /\ f \in Circuit
      /\ f.token = e.token
      /\ f.probe = e.probe
      /\ DeadlinesCovered(f)
  <2>1. StateTtl \in Nat
    BY Ranges
  <2>2. f \in Circuit
    BY <1>3, <1>4, <2>1 DEF Circuit
  <2>3. QED BY <1>3, <1>4, <2>2, Ranges DEF Circuit, DeadlinesCovered
<1>6. QED BY <1>1, <1>2, <1>3, <1>5 DEF Frees, f

\* One tick of Redis TIME on one circuit.
LEMMA ElapsedCircuit ==
    ASSUME NEW c \in Circuit, DeadlinesCovered(c)
    PROVE  /\ Elapsed(c) \in Circuit
           /\ DeadlinesCovered(Elapsed(c))
           /\ c.probe > 0 => Elapsed(c).probe = c.probe - 1 /\ Elapsed(c).token = c.token
           /\ c.probe = 0 => Elapsed(c).probe = 0
<1>1. CASE c.ttl = 1
  <2>1. Elapsed(c) = Absent /\ c.probe = 0
    BY <1>1 DEF Circuit, DeadlinesCovered, Elapsed
  <2>2. Absent \in Circuit
    BY Ranges DEF Circuit, Absent
  <2>3. QED BY <2>1, <2>2 DEF DeadlinesCovered, Absent
<1>2. CASE c.ttl # 1
  <2>1. Elapsed(c) = [c EXCEPT !.open = Sooner(c.open), !.probe = Sooner(c.probe),
                               !.window = Sooner(c.window), !.ttl = Sooner(c.ttl)]
    BY <1>2 DEF Elapsed
  <2>2. /\ Sooner(c.open) \in -1..Cooldown
        /\ Sooner(c.probe) \in 0..Cooldown
        /\ Sooner(c.window) \in 0..(Window + 1)
        /\ Sooner(c.ttl) \in Nat
    BY Ranges DEF Circuit, Sooner
  <2>3. Elapsed(c) \in Circuit
    BY <2>1, <2>2 DEF Circuit
  <2>4. /\ Elapsed(c).open = Sooner(c.open) /\ Elapsed(c).probe = Sooner(c.probe)
        /\ Elapsed(c).ttl = Sooner(c.ttl) /\ Elapsed(c).token = c.token
    BY <2>1 DEF Circuit
  <2>5. QED BY <1>2, <2>3, <2>4, Ranges DEF Circuit, DeadlinesCovered, Sooner
<1>3. QED BY <1>1, <1>2

-----------------------------------------------------------------------------
(* The invariant is inductive.                                               *)

\* RedisCircuitRepository::token makes tokens.
LEMMA TokenOfType ==
    ASSUME NEW p, p.process \in Process, p.ticket \in Nat
    PROVE  TokenOf(p) \in Token
BY ConstantsAssumption DEF TokenOf, Token

\* With distinct pids, a token tells which grant it belongs to.
LEMMA TokenIdentifiesHolder ==
    ASSUME PidsDistinct, NEW p, NEW g, p.process \in Process, g.process \in Process,
           TokenOf(p) = TokenOf(g)
    PROVE  SameHolder(p, g)
BY DEF PidsDistinct, TokenOf, SameHolder

\* No hash and no grant is there at the start.
LEMMA InitIInv == Init => IInv
<1> SUFFICES ASSUME Init PROVE IInv
  OBVIOUS
<1>1. Absent \in Circuit
  BY Ranges DEF Circuit, Absent
<1>2. QED
  BY <1>1 DEF Init, IInv, Sound, TypeOK, GrantsRecorded, NoPhantomProbe, TtlCoversDeadlines,
              GrantsWithinPermit, DeadlinesCovered, Absent

\* A permit ends and its scripts touch circuits only as Frees allows.
Ends(p) ==
    /\ permits' = permits \ {p}
    /\ granted' = {g \in granted : ~SameHolder(p, g)}
    /\ UNCHANGED <<ticket, alive>>
    /\ circuit' \in [Key -> Circuit]
    /\ \A k \in Key : \/ circuit'[k] = circuit[k] /\ k \notin Keys(p.deployment)
                      \/ Frees(circuit[k], circuit'[k], TokenOf(p))

\* finish with Ok ends its own grant and frees its own slots.
LEMMA SucceedEnds ==
    ASSUME Sound, NEW p \in permits, Succeed(p)
    PROVE  Ends(p)
<1>1. circuit \in [Key -> Circuit] /\ \A k \in Key : DeadlinesCovered(circuit[k])
  BY DEF Sound, TypeOK, TtlCoversDeadlines
<1>2. ASSUME NEW k \in Key
      PROVE  /\ circuit'[k] \in Circuit
             /\ \/ circuit'[k] = circuit[k] /\ k \notin Keys(p.deployment)
                \/ Frees(circuit[k], circuit'[k], TokenOf(p))
  <2>1. CASE k \in Keys(p.deployment)
    <3>1. circuit'[k] = Succeeded(circuit[k], TokenOf(p))
      BY <2>1 DEF Succeed
    <3>2. QED BY <1>1, <3>1, SucceededCircuit DEF Frees
  <2>2. CASE k \notin Keys(p.deployment)
    BY <1>1, <2>2 DEF Succeed
  <2>3. QED BY <2>1, <2>2
<1>3. circuit' \in [Key -> Circuit]
  BY <1>2 DEF Succeed
<1>4. QED BY <1>2, <1>3 DEF Succeed, Ends

\* finish with Err does so as well, whatever it charges.
LEMMA FailEnds ==
    ASSUME Sound, NEW p \in permits, NEW kind \in Kind, NEW n \in TierSize, Fail(p, kind, n)
    PROVE  Ends(p)
<1>1. circuit \in [Key -> Circuit] /\ \A k \in Key : DeadlinesCovered(circuit[k])
  BY DEF Sound, TypeOK, TtlCoversDeadlines
<1>2. ASSUME NEW k \in Key
      PROVE  /\ circuit'[k] \in Circuit
             /\ \/ circuit'[k] = circuit[k] /\ k \notin Keys(p.deployment)
                \/ Frees(circuit[k], circuit'[k], TokenOf(p))
  <2>1. CASE k \in Keys(p.deployment)
    <3> DEFINE charged == k = Target[p.deployment][FailureScope(kind)]
    <3>1. circuit'[k] = Failed(circuit[k], TokenOf(p), charged, kind, n)
      BY <2>1 DEF Fail
    <3>2. charged \in BOOLEAN
      OBVIOUS
    <3> HIDE DEF charged
    <3>3. QED BY <1>1, <3>1, <3>2, FailedCircuit DEF Frees
  <2>2. CASE k \notin Keys(p.deployment)
    BY <1>1, <2>2 DEF Fail
  <2>3. QED BY <2>1, <2>2
<1>3. circuit' \in [Key -> Circuit]
  BY <1>2 DEF Fail
<1>4. QED BY <1>2, <1>3 DEF Fail, Ends

\* abandon does so without an outcome.
LEMMA AbandonEnds ==
    ASSUME Sound, NEW p \in permits, Abandon(p)
    PROVE  Ends(p)
<1>1. circuit \in [Key -> Circuit] /\ \A k \in Key : DeadlinesCovered(circuit[k])
  BY DEF Sound, TypeOK, TtlCoversDeadlines
<1>2. ASSUME NEW k \in Key
      PROVE  /\ circuit'[k] \in Circuit
             /\ \/ circuit'[k] = circuit[k] /\ k \notin Keys(p.deployment)
                \/ Frees(circuit[k], circuit'[k], TokenOf(p))
  <2>1. CASE k \in Keys(p.deployment)
    <3>1. circuit'[k] = Unprobed(circuit[k], TokenOf(p))
      BY <2>1 DEF Abandon
    <3>2. QED BY <1>1, <3>1, UnprobedCircuit DEF Frees
  <2>2. CASE k \notin Keys(p.deployment)
    BY <1>1, <2>2 DEF Abandon
  <2>3. QED BY <2>1, <2>2
<1>3. circuit' \in [Key -> Circuit]
  BY <1>2 DEF Abandon
<1>4. QED BY <1>2, <1>3 DEF Abandon, Ends

\* The end of a permit keeps types and deadlines, whosever slots it frees.
LEMMA EndKeepsSound ==
    ASSUME Sound, NEW p \in permits, Ends(p)
    PROVE  Sound'
<1>1. TypeOK'
  BY DEF Sound, Ends, TypeOK
<1>2. TtlCoversDeadlines'
  BY DEF Sound, Ends, TtlCoversDeadlines, Frees
<1>3. GrantsWithinPermit'
  BY DEF Sound, Ends, GrantsWithinPermit, SameHolder
<1>4. QED BY <1>1, <1>2, <1>3 DEF Sound

\* With distinct pids it frees the slots of its own grants, and of no others.
LEMMA EndKeepsIInv ==
    ASSUME PidsDistinct, IInv, NEW p \in permits, Ends(p)
    PROVE  IInv'
<1>1. p \in Permit
  BY DEF IInv, Sound, TypeOK
<1>2. Sound'
  BY EndKeepsSound DEF IInv
<1>3. ASSUME NEW g \in granted'
      PROVE  circuit'[g.key].token = TokenOf(g) /\ circuit'[g.key].probe = g.left
  <2>1. g \in granted /\ g \in Grant /\ ~SameHolder(p, g)
    BY <1>3 DEF IInv, Sound, TypeOK, Ends
  <2>2. g.key \in Key /\ g.process \in Process /\ p.process \in Process
    BY <1>1, <2>1 DEF Grant, Permit
  <2>3. circuit[g.key].token = TokenOf(g) /\ circuit[g.key].probe = g.left
    BY <2>1 DEF IInv, GrantsRecorded
  <2>4. TokenOf(p) # TokenOf(g)
    BY <2>1, <2>2, TokenIdentifiesHolder
  <2>5. QED BY <2>2, <2>3, <2>4 DEF Frees, Ends
<1>4. ASSUME NEW k \in Key, circuit'[k].probe > 0
      PROVE  \E g \in granted' : g.key = k /\ g.left = circuit'[k].probe
  <2>1. CASE circuit'[k] = circuit[k] /\ k \notin Keys(p.deployment)
    <3>1. PICK g \in granted : g.key = k /\ g.left = circuit[k].probe
      BY <1>4, <2>1 DEF IInv, NoPhantomProbe
    <3>2. ~SameHolder(p, g)
      BY <2>1, <3>1 DEF IInv, Sound, GrantsWithinPermit
    <3>3. QED BY <2>1, <3>1, <3>2 DEF Ends
  <2>2. CASE Frees(circuit[k], circuit'[k], TokenOf(p))
    <3>1. circuit[k].token # TokenOf(p) /\ circuit'[k].probe = circuit[k].probe
      BY <1>4, <2>2 DEF Frees
    <3>2. PICK g \in granted : g.key = k /\ g.left = circuit[k].probe
      BY <1>4, <3>1 DEF IInv, NoPhantomProbe
    <3>3. TokenOf(g) # TokenOf(p)
      BY <3>1, <3>2 DEF IInv, GrantsRecorded
    <3>4. ~SameHolder(p, g)
      BY <3>3 DEF SameHolder, TokenOf
    <3>5. QED BY <3>1, <3>2, <3>4 DEF Ends
  <2>3. QED BY <2>1, <2>2 DEF Ends
<1>5. QED BY <1>2, <1>3, <1>4 DEF IInv, GrantsRecorded, NoPhantomProbe, TokenOf

\* A grant whose end never reaches Redis leaves its slots to expire.
LEMMA LeaveKeeps ==
    ASSUME permits' \subseteq permits, alive' \subseteq alive,
           UNCHANGED <<circuit, ticket, granted>>
    PROVE  /\ Sound => Sound'
           /\ IInv => IInv'
<1>1. Sound => Sound'
  BY DEF Sound, TypeOK, GrantsWithinPermit, TtlCoversDeadlines
<1>2. IInv => IInv'
  BY <1>1 DEF IInv, GrantsRecorded, NoPhantomProbe
<1>3. QED BY <1>1, <1>2

\* Time runs down the deadlines of a circuit.
LEMMA TickOnKey ==
    ASSUME Sound, Tick, NEW k \in Key
    PROVE  /\ circuit'[k] \in Circuit
           /\ DeadlinesCovered(circuit'[k])
           /\ circuit[k].probe \in 0..Cooldown
           /\ circuit[k].probe > 0 => /\ circuit'[k].probe = circuit[k].probe - 1
                                      /\ circuit'[k].token = circuit[k].token
           /\ circuit[k].probe = 0 => circuit'[k].probe = 0
<1>1. circuit[k] \in Circuit /\ DeadlinesCovered(circuit[k])
  BY DEF Sound, TypeOK, TtlCoversDeadlines
<1>2. QED BY <1>1, ElapsedCircuit DEF Tick, Circuit

\* Every grant that survives was one tick longer before.
LEMMA TickOnGrant ==
    ASSUME Sound, Tick, NEW g \in granted'
    PROVE  \E h \in granted : /\ h.left > 1 /\ g = [h EXCEPT !.left = h.left - 1]
                              /\ h \in Grant /\ g \in Grant /\ g.left = h.left - 1
                              /\ g.key = h.key /\ g.process = h.process /\ g.ticket = h.ticket
<1>1. PICK h \in granted : h.left > 1 /\ g = [h EXCEPT !.left = h.left - 1]
  BY DEF Tick, Aged
<1>2. h \in Grant
  BY DEF Sound, TypeOK
<1>3. h.left - 1 \in 1..Cooldown
  BY <1>1, <1>2, Ranges DEF Grant
<1>4. g \in Grant
  BY <1>1, <1>2, <1>3 DEF Grant
<1>5. QED BY <1>1, <1>2, <1>4 DEF Grant

\* Time keeps types and deadlines.
LEMMA TickKeepsSound ==
    ASSUME Sound, Tick
    PROVE  Sound'
<1>1. \A k \in Key : circuit'[k] \in Circuit /\ DeadlinesCovered(circuit'[k])
  BY TickOnKey
<1>2. circuit' \in [Key -> Circuit]
  BY <1>1 DEF Tick
<1>3. \A g \in granted' : \E h \in granted :
          g \in Grant /\ g.key = h.key /\ g.process = h.process /\ g.ticket = h.ticket
  BY TickOnGrant
<1>4. TypeOK'
  BY <1>2, <1>3 DEF Sound, TypeOK, Tick
<1>5. GrantsWithinPermit'
  BY <1>3 DEF Sound, GrantsWithinPermit, SameHolder, Tick
<1>6. QED BY <1>1, <1>4, <1>5 DEF Sound, TtlCoversDeadlines

\* Time runs down deadlines, grants and keys together.
LEMMA TickKeepsIInv ==
    ASSUME IInv, Tick
    PROVE  IInv'
<1>1. Sound
  BY DEF IInv
<1>2. GrantsRecorded'
  <2> SUFFICES ASSUME NEW g \in granted'
               PROVE  circuit'[g.key].token = TokenOf(g) /\ circuit'[g.key].probe = g.left
    BY DEF GrantsRecorded, TokenOf
  <2>1. PICK h \in granted : /\ h.left > 1 /\ h \in Grant /\ g.left = h.left - 1
                             /\ g.key = h.key /\ g.process = h.process /\ g.ticket = h.ticket
    BY <1>1, TickOnGrant
  <2>2. h.key \in Key /\ circuit[h.key].probe = h.left /\ circuit[h.key].token = TokenOf(h)
    BY <2>1 DEF IInv, GrantsRecorded, Grant
  <2>3. circuit[h.key].probe > 0
    BY <2>1, <2>2 DEF Grant
  <2>4. QED BY <1>1, <2>1, <2>2, <2>3, TickOnKey DEF TokenOf
<1>3. NoPhantomProbe'
  <2> SUFFICES ASSUME NEW k \in Key, circuit'[k].probe > 0
               PROVE  \E g \in granted' : g.key = k /\ g.left = circuit'[k].probe
    BY DEF NoPhantomProbe
  <2>1. /\ circuit[k].probe > 0 /\ circuit'[k].probe = circuit[k].probe - 1
        /\ circuit[k].probe \in 0..Cooldown
    BY <1>1, TickOnKey
  <2>2. PICK h \in granted : h.key = k /\ h.left = circuit[k].probe
    BY <2>1 DEF IInv, NoPhantomProbe
  <2>3. h \in Grant
    BY <1>1 DEF Sound, TypeOK
  <2>4. h.left > 1
    BY <2>1, <2>2
  <2> DEFINE g == [h EXCEPT !.left = h.left - 1]
  <2>5. g \in granted'
    BY <2>4 DEF Tick, Aged
  <2>6. g.key = k /\ g.left = circuit'[k].probe
    BY <2>1, <2>2, <2>3 DEF Grant
  <2>7. QED BY <2>5, <2>6
<1>4. QED BY <1>1, <1>2, <1>3, TickKeepsSound DEF IInv

\* A granted ACQUIRE of process g for deployment d: its permit and its probe slots.
Taken(g, d) == [process |-> g, ticket |-> ticket[g], deployment |-> d]
Slots(g, d) == {[process |-> g, ticket |-> ticket[g], key |-> k, left |-> Cooldown] :
                   k \in {j \in Keys(d) : circuit[j].open >= 0}}

\* What a granted ACQUIRE does to the permits and the grants.
LEMMA AcquireTakes ==
    ASSUME Sound, NEW g \in Process, NEW d \in Deployment, Acquire(g, d),
           \A k \in Keys(d) : Admits(circuit[k])
    PROVE  /\ permits' = permits \cup {Taken(g, d)}
           /\ granted' = granted \cup Slots(g, d)
           /\ Taken(g, d) \in Permit /\ Taken(g, d).process = g
           /\ Taken(g, d).ticket = ticket[g] /\ Taken(g, d).deployment = d
           /\ \A h \in Slots(g, d) :
                /\ h \in Grant /\ h.process = g /\ h.ticket = ticket[g] /\ h.left = Cooldown
                /\ h.key \in Keys(d) /\ h.key \in Key /\ circuit[h.key].open >= 0
<1>1. ticket[g] \in Nat /\ Keys(d) \subseteq Key
  BY DEF Sound, TypeOK, Key
<1>2. permits' = permits \cup {Taken(g, d)} /\ granted' = granted \cup Slots(g, d)
  BY DEF Acquire, Taken, Slots
<1>3. /\ Taken(g, d) \in Permit /\ Taken(g, d).process = g
      /\ Taken(g, d).ticket = ticket[g] /\ Taken(g, d).deployment = d
  BY <1>1 DEF Taken, Permit
<1>4. ASSUME NEW h \in Slots(g, d)
      PROVE  /\ h \in Grant /\ h.process = g /\ h.ticket = ticket[g] /\ h.left = Cooldown
             /\ h.key \in Keys(d) /\ h.key \in Key /\ circuit[h.key].open >= 0
  <2>1. PICK k \in Keys(d) : /\ circuit[k].open >= 0
                             /\ h = [process |-> g, ticket |-> ticket[g], key |-> k,
                                    left |-> Cooldown]
    BY <1>4 DEF Slots
  <2>2. Cooldown \in 1..Cooldown /\ k \in Key
    BY <1>1, Ranges
  <2>3. QED BY <1>1, <2>1, <2>2 DEF Grant
<1>5. QED BY <1>2, <1>3, <1>4

\* What it does to each circuit it looks at, and that it looks at no other.
LEMMA AcquireOnKey ==
    ASSUME Sound, NEW g \in Process, NEW d \in Deployment, Acquire(g, d),
           \A k \in Keys(d) : Admits(circuit[k]), NEW k \in Key
    PROVE  /\ circuit'[k] \in Circuit
           /\ DeadlinesCovered(circuit'[k])
           /\ \/ circuit'[k] = circuit[k] /\ ~(k \in Keys(d) /\ circuit[k].open >= 0)
              \/ /\ k \in Keys(d) /\ circuit[k].open >= 0 /\ circuit[k].probe = 0
                 /\ circuit'[k].token = TokenOf(Taken(g, d)) /\ circuit'[k].probe = Cooldown
<1>1. circuit[k] \in Circuit /\ DeadlinesCovered(circuit[k])
  BY DEF Sound, TypeOK, TtlCoversDeadlines
<1>2. TokenOf(Taken(g, d)) \in Token
  BY TokenOfType DEF Sound, TypeOK, Taken
<1>3. circuit' = [j \in Key |-> IF j \in Keys(d) THEN Probed(circuit[j], TokenOf(Taken(g, d)))
                                ELSE circuit[j]]
  BY DEF Acquire, Taken
<1>4. CASE k \in Keys(d)
  <2>1. circuit'[k] = Probed(circuit[k], TokenOf(Taken(g, d))) /\ Admits(circuit[k])
    BY <1>3, <1>4
  <2>2. QED BY <1>1, <1>2, <1>4, <2>1, ProbedCircuit
<1>5. CASE k \notin Keys(d)
  BY <1>1, <1>3, <1>5
<1>6. QED BY <1>4, <1>5

\* acquire keeps types and deadlines, and draws a ticket nobody of its process has.
LEMMA AcquireKeepsSound ==
    ASSUME Sound, NEW g \in Process, NEW d \in Deployment, Acquire(g, d)
    PROVE  Sound'
<1>1. circuit \in [Key -> Circuit] /\ ticket \in [Process -> Nat]
  BY DEF Sound, TypeOK
<1>2. ticket' = [ticket EXCEPT ![g] = ticket[g] + 1] /\ alive' = alive
  BY DEF Acquire
<1>3. /\ ticket' \in [Process -> Nat]
      /\ ticket'[g] = ticket[g] + 1
      /\ \A h \in Process : ticket[h] <= ticket'[h]
  BY <1>1, <1>2
<1>4. CASE ~(\A k \in Keys(d) : Admits(circuit[k]))
  <2>1. UNCHANGED <<circuit, permits, granted, alive>>
    BY <1>4 DEF Acquire
  <2>2. TypeOK'
    BY <1>3, <2>1 DEF Sound, TypeOK, Permit, Grant
  <2>3. QED BY <2>1, <2>2 DEF Sound, GrantsWithinPermit, TtlCoversDeadlines
<1>5. CASE \A k \in Keys(d) : Admits(circuit[k])
  <2> DEFINE p == Taken(g, d)
             new == Slots(g, d)
  <2>1. permits' = permits \cup {p} /\ granted' = granted \cup new
    BY <1>5, AcquireTakes
  <2>2. p \in Permit /\ p.process = g /\ p.ticket = ticket[g] /\ p.deployment = d
    BY <1>5, AcquireTakes
  <2>3. \A h \in new : /\ h \in Grant /\ h.process = g /\ h.ticket = ticket[g]
                       /\ h.key \in Keys(d)
    BY <1>5, AcquireTakes
  <2>4. \A k \in Key : circuit'[k] \in Circuit /\ DeadlinesCovered(circuit'[k])
    BY <1>5, AcquireOnKey
  <2> HIDE DEF p, new
  <2>5. circuit' \in [Key -> Circuit]
    BY <1>5, <2>4 DEF Acquire
  <2>6. TypeOK'
    <3>1. permits' \subseteq Permit /\ granted' \subseteq Grant
      BY <2>1, <2>2, <2>3 DEF Sound, TypeOK
    <3>2. \A q \in permits' : q.ticket < ticket'[q.process]
      BY <1>1, <1>3, <2>1, <2>2 DEF Sound, TypeOK, Permit
    <3>3. \A h \in granted' : h.ticket < ticket'[h.process]
      <4>1. ASSUME NEW h \in granted PROVE h.ticket < ticket'[h.process]
        BY <1>1, <1>3 DEF Sound, TypeOK, Grant
      <4>2. ASSUME NEW h \in new PROVE h.ticket < ticket'[h.process]
        BY <1>1, <1>3, <2>3
      <4>3. QED BY <2>1, <4>1, <4>2
    <3>4. QED BY <1>2, <1>3, <2>5, <3>1, <3>2, <3>3 DEF Sound, TypeOK
  <2>7. GrantsWithinPermit'
    <3> SUFFICES ASSUME NEW q \in permits', NEW h \in granted', SameHolder(q, h)
                 PROVE  h.key \in Keys(q.deployment)
      BY DEF GrantsWithinPermit, SameHolder
    <3>1. CASE q \in permits /\ h \in granted
      BY <3>1 DEF Sound, GrantsWithinPermit
    <3>2. CASE q \in permits /\ h \in new
      <4>1. q.ticket < ticket[q.process]
        BY <3>2 DEF Sound, TypeOK
      <4>2. q.process = g /\ q.ticket = ticket[g]
        BY <2>3, <3>2 DEF SameHolder
      <4>3. QED BY <1>1, <4>1, <4>2
    <3>3. CASE q = p /\ h \in granted
      <4>1. h.ticket < ticket[h.process]
        BY <3>3 DEF Sound, TypeOK
      <4>2. h.process = g /\ h.ticket = ticket[g]
        BY <2>2, <3>3 DEF SameHolder
      <4>3. QED BY <1>1, <4>1, <4>2
    <3>4. CASE q = p /\ h \in new
      BY <2>2, <2>3, <3>4
    <3>5. QED BY <2>1, <3>1, <3>2, <3>3, <3>4
  <2>8. TtlCoversDeadlines'
    BY <2>4 DEF TtlCoversDeadlines
  <2>9. QED BY <2>6, <2>7, <2>8 DEF Sound
<1>6. QED BY <1>4, <1>5

\* acquire takes a slot only where no unexpired probe is.
LEMMA AcquireKeepsIInv ==
    ASSUME IInv, NEW g \in Process, NEW d \in Deployment, Acquire(g, d)
    PROVE  IInv'
<1>1. Sound /\ Sound'
  BY AcquireKeepsSound DEF IInv
<1>2. CASE ~(\A k \in Keys(d) : Admits(circuit[k]))
  <2>1. UNCHANGED <<circuit, granted>>
    BY <1>2 DEF Acquire
  <2>2. QED BY <1>1, <2>1 DEF IInv, GrantsRecorded, NoPhantomProbe, TokenOf
<1>3. CASE \A k \in Keys(d) : Admits(circuit[k])
  <2> DEFINE p == Taken(g, d)
             new == Slots(g, d)
  <2>1. granted' = granted \cup new
    BY <1>1, <1>3, AcquireTakes
  <2>2. p.process = g /\ p.ticket = ticket[g]
    BY <1>1, <1>3, AcquireTakes
  <2>3. \A h \in new : /\ h.process = g /\ h.ticket = ticket[g] /\ h.left = Cooldown
                       /\ h.key \in Keys(d) /\ h.key \in Key /\ circuit[h.key].open >= 0
    BY <1>1, <1>3, AcquireTakes
  <2>4. \A k \in Key :
          \/ circuit'[k] = circuit[k] /\ ~(k \in Keys(d) /\ circuit[k].open >= 0)
          \/ /\ k \in Keys(d) /\ circuit[k].open >= 0 /\ circuit[k].probe = 0
             /\ circuit'[k].token = TokenOf(p) /\ circuit'[k].probe = Cooldown
    BY <1>1, <1>3, AcquireOnKey
  <2>5. \A k \in Keys(d) : circuit[k].open >= 0 =>
          [process |-> g, ticket |-> ticket[g], key |-> k, left |-> Cooldown] \in new
    BY DEF Slots
  <2> HIDE DEF p, new
  <2>6. GrantsRecorded'
    <3> SUFFICES ASSUME NEW h \in granted'
                 PROVE  circuit'[h.key].token = TokenOf(h) /\ circuit'[h.key].probe = h.left
      BY DEF GrantsRecorded, TokenOf
    <3>1. CASE h \in granted
      <4>1. h.key \in Key /\ h.left > 0
        BY <1>1, <3>1, Ranges DEF Sound, TypeOK, Grant
      <4>2. circuit[h.key].token = TokenOf(h) /\ circuit[h.key].probe = h.left
        BY <3>1 DEF IInv, GrantsRecorded
      <4>3. QED BY <2>4, <4>1, <4>2
    <3>2. CASE h \in new
      <4>1. TokenOf(p) = TokenOf(h)
        BY <2>2, <2>3, <3>2 DEF TokenOf
      <4>2. /\ h.key \in Key /\ h.key \in Keys(d)
            /\ circuit[h.key].open >= 0 /\ h.left = Cooldown
        BY <2>3, <3>2
      <4>3. QED BY <2>4, <4>1, <4>2
    <3>3. QED BY <2>1, <3>1, <3>2
  <2>7. NoPhantomProbe'
    <3> SUFFICES ASSUME NEW k \in Key, circuit'[k].probe > 0
                 PROVE  \E h \in granted' : h.key = k /\ h.left = circuit'[k].probe
      BY DEF NoPhantomProbe
    <3>1. CASE circuit'[k] = circuit[k]
      BY <2>1, <3>1 DEF IInv, NoPhantomProbe
    <3>2. CASE /\ k \in Keys(d) /\ circuit[k].open >= 0 /\ circuit'[k].probe = Cooldown
      <4> DEFINE h == [process |-> g, ticket |-> ticket[g], key |-> k, left |-> Cooldown]
      <4>1. h \in new
        BY <2>5, <3>2
      <4>2. h.key = k /\ h.left = circuit'[k].probe
        BY <3>2
      <4>3. QED BY <2>1, <4>1, <4>2
    <3>3. QED BY <2>4, <3>1, <3>2
  <2>8. QED BY <1>1, <2>6, <2>7 DEF IInv
<1>4. QED BY <1>2, <1>3

\* Every step keeps types and deadlines, whatever the process ids.
LEMMA NextKeepsSound ==
    ASSUME Sound, [Next]_vars
    PROVE  Sound'
<1>1. ASSUME NEW g \in Process, NEW d \in Deployment, Acquire(g, d) PROVE Sound'
  BY <1>1, AcquireKeepsSound
<1>2. ASSUME NEW p \in permits, Succeed(p) PROVE Sound'
  BY <1>2, SucceedEnds, EndKeepsSound
<1>3. ASSUME NEW p \in permits, NEW kind \in Kind, NEW n \in TierSize, Fail(p, kind, n)
      PROVE  Sound'
  BY <1>3, FailEnds, EndKeepsSound
<1>4. ASSUME NEW p \in permits, Abandon(p) PROVE Sound'
  BY <1>4, AbandonEnds, EndKeepsSound
<1>5. ASSUME NEW p \in permits, Lose(p) PROVE Sound'
  BY <1>5, LeaveKeeps DEF Lose
<1>6. ASSUME NEW g \in Process, Crash(g) PROVE Sound'
  BY <1>6, LeaveKeeps DEF Crash
<1>7. CASE Tick
  BY <1>7, TickKeepsSound
<1>8. CASE UNCHANGED vars
  BY <1>8, LeaveKeeps DEF vars
<1>9. QED
  BY <1>1, <1>2, <1>3, <1>4, <1>5, <1>6, <1>7, <1>8 DEF Next

\* With distinct pids every step keeps the whole invariant, action by action.
LEMMA NextKeepsIInv ==
    ASSUME PidsDistinct, IInv, [Next]_vars
    PROVE  IInv'
<1>0. Sound
  BY DEF IInv
<1>1. ASSUME NEW g \in Process, NEW d \in Deployment, Acquire(g, d) PROVE IInv'
  BY <1>1, AcquireKeepsIInv
<1>2. ASSUME NEW p \in permits, Succeed(p) PROVE IInv'
  BY <1>0, <1>2, SucceedEnds, EndKeepsIInv
<1>3. ASSUME NEW p \in permits, NEW kind \in Kind, NEW n \in TierSize, Fail(p, kind, n)
      PROVE  IInv'
  BY <1>0, <1>3, FailEnds, EndKeepsIInv
<1>4. ASSUME NEW p \in permits, Abandon(p) PROVE IInv'
  BY <1>0, <1>4, AbandonEnds, EndKeepsIInv
<1>5. ASSUME NEW p \in permits, Lose(p) PROVE IInv'
  BY <1>5, LeaveKeeps DEF Lose
<1>6. ASSUME NEW g \in Process, Crash(g) PROVE IInv'
  BY <1>6, LeaveKeeps DEF Crash
<1>7. CASE Tick
  BY <1>7, TickKeepsIInv
<1>8. CASE UNCHANGED vars
  BY <1>8, LeaveKeeps DEF vars
<1>9. QED
  BY <1>1, <1>2, <1>3, <1>4, <1>5, <1>6, <1>7, <1>8 DEF Next

-----------------------------------------------------------------------------
(* The theorems.                                                             *)

\* The invariant holds in every behaviour of the scripts (circuit.rs:178-289).
THEOREM InductiveInvariant == ASSUME PidsDistinct PROVE Spec => []IInv
<1>1. Init => IInv
  BY InitIInv
<1>2. IInv /\ [Next]_vars => IInv'
  BY NextKeepsIInv
<1>3. QED BY <1>1, <1>2, PTL DEF Spec

\* What does not depend on the process ids holds for any of them, equal ones included.
LEMMA SoundHolds == Spec => []Sound
BY InitIInv, NextKeepsSound, PTL DEF Spec, IInv

\* Every variable keeps its type (circuit.rs, the hash fields and the token), whatever
\* process ids the gateways have.
THEOREM TypeCorrect == Spec => []TypeOK
BY SoundHolds, PTL DEF Sound

\* One gateway at a time holds the unexpired probe of a circuit
\* (docs/gateway-m0.md:247-249, ACQUIRE in circuit.rs:178-197).
THEOREM OneProbe == ASSUME PidsDistinct PROVE Spec => []OneUnexpiredProbe
<1>1. IInv => OneUnexpiredProbe
  <2> SUFFICES ASSUME IInv, NEW g \in granted, NEW h \in granted, g.key = h.key
               PROVE  g = h
    BY DEF OneUnexpiredProbe
  <2>1. g \in Grant /\ h \in Grant
    BY DEF IInv, Sound, TypeOK
  <2>2. TokenOf(g) = TokenOf(h) /\ g.left = h.left
    BY DEF IInv, GrantsRecorded
  <2>3. g.process = h.process /\ g.ticket = h.ticket
    BY <2>1, <2>2, TokenIdentifiesHolder DEF SameHolder, Grant
  <2>4. QED BY <2>1, <2>2, <2>3 DEF Grant
<1>2. QED BY <1>1, InductiveInvariant, PTL

\* No circuit refuses requests for a probe that nobody holds (FINISH and ABANDON,
\* circuit.rs:220-289).
THEOREM NoPhantom == ASSUME PidsDistinct PROVE Spec => []NoPhantomProbe
BY InductiveInvariant, PTL DEF IInv

\* No hash expires before the deadlines it holds (state_ttl_millis, circuit.rs:396-398),
\* whatever process ids the gateways have.
THEOREM TtlCovers == Spec => []TtlCoversDeadlines
BY SoundHolds, PTL DEF Sound

-----------------------------------------------------------------------------
(* The feedback of a process.                                                *)

\* The signals of a turn: a strength, in tenths, for some kinds.
Signals == UNION {[kinds -> 0 .. 10] : kinds \in SUBSET SignalKind}

\* An event is a line of the file; it is queued as it is, a rewrite with those it keeps.
Event == [op : {"append"}, turn : Turn, signals : Signals \ {Nothing}]
Line == Event \cup {Torn}
Rewriting == [op : {"rewrite"}, events : Seq(Event), by : Client, id : Nat]
Command == Event \cup Rewriting

\* The steps of a call that ingests signals and of one that erases, and what calls carry.
Posting == {"merge", "read", "upsert", "send", "show"}
Erasing == {"delete", "retained", "shared", "values", "rewrite", "wait"}
Posted == UNION {ToSet(call) : call \in Posts}

PostCall == [pc : Posting, turns : SUBSET Turn, todo : Seq(Posted) \ {<<>>},
             signals : Signals, merged : Signals]
StoreCall == [pc : {"store"}, turns : SUBSET Turn, record : Record, signals : Signals]
EraseCall == [pc : Erasing, turns : SUBSET Turn, records : SUBSET Record, whole : BOOLEAN,
              events : Seq(Event), id : Nat]
Call == {Idle} \cup PostCall \cup StoreCall \cup EraseCall

\* Every variable has the values its declaration says it has.
FeedbackTypeOK ==
    /\ backend \in {"memory", "file", "redis"}
    /\ values \in [Turn -> Signals] /\ shared \in [Turn -> Signals]
    /\ queue \in Seq(Command) /\ file \in Seq(Line) /\ rotated \in Seq(Line)
    /\ shown \in [Record -> Signals \cup {None}]
    /\ client \in [Client -> Call]
    /\ erasures \in Nat
    /\ unsure \in SUBSET Turn /\ erased \in SUBSET Turn

\* What each backend leaves alone.
Elsewhere ==
    /\ backend # "file" => queue = <<>> /\ file = <<>> /\ rotated = <<>>
    /\ backend # "redis" => shared = [t \in Turn |-> Nothing]

\* The turn whose signals a call is ingesting.
Now(k) == Head(k.todo).turn

\* Where a call can be, on this backend and with these turns.
CallSound(k) ==
    /\ k.pc \in Posting =>
          /\ \A i \in DOMAIN k.todo : k.todo[i].turn \in k.turns
          /\ k.pc \in {"merge", "read"} => backend = "redis"
          /\ backend = "file" /\ k.pc \in {"upsert", "send"} => k.signals # Nothing
    /\ k.pc = "store" => k.turns = {TurnOf[k.record]}
    /\ k.pc \in Erasing =>
          /\ k.id < erasures
          /\ k.pc = "retained" => ~k.whole
          /\ k.pc = "shared" => backend = "redis"
          /\ k.pc \in {"rewrite", "wait"} => backend = "file"
          /\ k.whole => \A r \in Record : TurnOf[r] \in k.turns => r \in k.records

CallsSound == \A c \in Client : CallSound(client[c])

\* Whatever two calls at once have to do with is unsure.
Apart == \A c, d \in Client : c # d => Overlap(client[c], client[d]) \subseteq unsure

\* The rewrite at i is the one c waits for.
Awaits(c, i) == queue[i].op = "rewrite" /\ queue[i].by = c /\ queue[i].id = client[c].id

\* No rewrite in the queue is taken for that of a later erasure.
OneRewrite ==
    \A i \in DOMAIN queue : queue[i].op = "rewrite" =>
        /\ queue[i].id < erasures
        /\ \A c \in Client : (client[c].pc \in Erasing /\ Awaits(c, i)) =>
              client[c].pc = "wait" /\ \A j \in DOMAIN queue : Awaits(c, j) => j = i

\* The turns a command has events of; those that the files or the queue have events of.
Named(e) == IF e.op = "append" THEN {e.turn} ELSE TurnsIn(e.events)
Held == TurnsIn(file) \cup TurnsIn(rotated) \cup UNION {Named(queue[i]) : i \in DOMAIN queue}

\* The turns that c is erasing from the file, their signals gone from memory.
Leaving(c) == IF client[c].pc \in {"rewrite", "wait"} THEN client[c].turns ELSE {}

\* What is held of a turn is known, until it is erased.
HeldIsKnown ==
    \A t \in Held \ unsure : values[t] # Nothing \/ \E c \in Client : t \in Leaving(c)

\* A turn whose signals c is about to send or to show.
Sending(c, t) == client[c].pc = "send" /\ t = Now(client[c])
Showing(c, t) == client[c].pc \in {"send", "show"} /\ t = Now(client[c])

\* What a call is about to send or show is in memory, and is all there is of the turn.
IngestedOK ==
    \A c \in Client, t \in Turn \ unsure :
        /\ backend = "file" /\ Sending(c, t) => values[t] # Nothing
        /\ Showing(c, t) => client[c].merged = values[t]

\* An erasure has done what its step says, and nothing undid it.
ErasingOK ==
    \A c \in Client : \A t \in client[c].turns \ unsure :
        /\ client[c].pc \in {"rewrite", "wait"} => values[t] = Nothing
        /\ client[c].pc = "shared" /\ client[c].whole => values[t] = Nothing
        /\ client[c].pc = "values" /\ backend = "redis" /\ ~client[c].whole => shared[t] = Nothing
        /\ client[c].pc = "wait" =>
              \A i, j \in DOMAIN queue : Awaits(c, i) /\ i <= j => t \notin Named(queue[j])
        /\ client[c].pc \in {"shared", "values", "rewrite", "wait"} =>
              \A r \in Record : TurnOf[r] = t => shown[r] = None

\* The snapshot that is about to be written is current for every turn.
SnapshotCurrent ==
    \A c \in Client : client[c].pc = "rewrite" =>
        \A t \in Turn \ unsure : Replay(client[c].events)[t] = values[t]

\* What will be read of a turn from base b on.
Read(b, t) == Replay(From(b))[t]

\* That is to be what memory holds, unless b is the file
\* and t was moved out of it, or t is being erased by a rewrite that comes after b.
Counts(t, b) ==
    /\ b = 0 => t \notin TurnsIn(rotated)
    /\ \A c \in Client :
          t \in Leaving(c) => /\ client[c].pc = "wait"
                              /\ \A i \in DOMAIN queue : Awaits(c, i) => i <= b

FileAgrees ==
    backend = "file" =>
      \A t \in Turn \ unsure, b \in Bases : Counts(t, b) =>
        /\ (\A c \in Client : ~Sending(c, t)) => values[t] = Read(b, t)
        /\ \A c \in Client : Sending(c, t) => values[t] = Merge(Read(b, t), client[c].signals)

\* A record shows what memory holds, unless a call is about to show it; what is about to be
\* stored does.
ShownAgrees ==
    backend = "file" =>
      /\ \A r \in Record :
            (shown[r] # None /\ TurnOf[r] \notin unsure
             /\ \A c \in Client : ~Showing(c, TurnOf[r])) => shown[r] = values[TurnOf[r]]
      /\ \A c \in Client :
            (client[c].pc = "store" /\ TurnOf[client[c].record] \notin unsure)
                => client[c].signals = values[TurnOf[client[c].record]]

\* What was erased is nowhere, nor on its way.
ErasedOK ==
    \A t \in erased :
        /\ values[t] = Nothing /\ shared[t] = Nothing /\ t \notin Held
        /\ \A c \in Client : /\ client[c].pc \in Posting => t \notin client[c].turns
                             /\ client[c].pc = "rewrite" => t \notin TurnsIn(client[c].events)

FeedbackInv ==
    /\ FeedbackTypeOK /\ Elsewhere /\ CallsSound /\ Apart /\ OneRewrite /\ HeldIsKnown
    /\ IngestedOK /\ ErasingOK /\ SnapshotCurrent /\ FileAgrees /\ ShownAgrees /\ ErasedOK

\* Before it serves, nothing has happened.
ServiceInv ==
    /\ FeedbackInv
    /\ phase \notin {"serving", "draining"} => FeedbackInit /\ backend = "memory"
    /\ phase = "checked" => report = DryRun(launch.args, launch.world)

-----------------------------------------------------------------------------
(* What is read of a file of events.                                         *)

\* Of finitely many places one is the last.
LEMMA LastPlace ==
    ASSUME NEW n \in Nat, NEW S \in SUBSET (1 .. n), S # {}
    PROVE  Max(S) \in S /\ \A j \in S : j <= Max(S)
<1> DEFINE bounds == {m \in Nat : \A j \in S : j <= m}
<1>1. n \in bounds /\ bounds \subseteq Nat
  OBVIOUS
<1>2. PICK m \in bounds : \A h \in bounds : m <= h
  <2>1. PICK m \in bounds : \A h \in bounds : <<h, m>> \notin OpToRel(<, Nat)
    BY <1>1, WFMin, NatLessThanWellFounded
  <2>2. \A h \in bounds : ~(h < m)
    BY <2>1, <1>1 DEF OpToRel
  <2> QED
    BY <2>2, <1>1
<1>3. m \in S
  <2> SUFFICES ASSUME m \notin S PROVE FALSE
    OBVIOUS
  <2>1. \A j \in S : j < m /\ j >= 1
    BY <1>2
  <2>0. PICK j \in S : j \in 1 .. n
    OBVIOUS
  <2>2. m - 1 \in bounds
    <3>1. m \in Nat /\ m > 0
      BY <2>0, <2>1, <1>2
    <3>2. \A h \in S : h \in Int /\ h <= m - 1
      BY <2>1, <3>1
    <3> QED
      BY <3>1, <3>2
  <2> QED
    BY <2>2, <1>2
<1>4. \E x \in S : \A y \in S : x >= y
  BY <1>2, <1>3
<1>5. Max(S) \in S /\ \A y \in S : Max(S) >= y
  BY <1>4 DEF Max
<1> QED
  BY <1>5

Entry == Line \cup Rewriting

\* The entries of the queue and of the files, whatever their kind.
LEMMA Entries ==
    /\ Event \subseteq Entry /\ Line \subseteq Entry /\ Command \subseteq Entry
    /\ \A e \in Entry : e.op = "append" => e \in Event /\ e.turn \in Turn
                                             /\ e.signals \in Signals /\ DOMAIN e.signals # {}
    /\ \A e \in Rewriting : e.op = "rewrite" /\ e.events \in Seq(Event) /\ e.id \in Nat
    /\ \A e \in Event : e.op = "append" /\ e.turn \in Turn
    /\ Torn.op = "torn"
<1>1. \A f \in Signals : DOMAIN f = {} => f = Nothing
  BY DEF Signals, Nothing
<1>2. \A e \in Event : /\ e.op = "append" /\ e.turn \in Turn
                       /\ e.signals \in Signals /\ DOMAIN e.signals # {}
  BY <1>1 DEF Event
<1>3. \A e \in Rewriting : e.op = "rewrite" /\ e.events \in Seq(Event) /\ e.id \in Nat
  BY DEF Rewriting
<1>4. Torn.op = "torn"
  BY DEF Torn
<1>5. \A e \in Entry : e \in Event \/ e \in Rewriting \/ e = Torn
  BY DEF Entry, Line
<1>6. \A e \in Entry : e.op = "append" => e \in Event
  BY <1>3, <1>4, <1>5
<1>7. Event \subseteq Entry /\ Line \subseteq Entry /\ Command \subseteq Entry
  BY DEF Entry, Line, Command
<1> QED
  BY <1>2, <1>3, <1>4, <1>6, <1>7

\* The signals of a turn as functions; those of a turn without any.
LEMMA SignalsAre ==
    /\ Nothing \in Signals
    /\ \A f : f \in Signals <=> /\ DOMAIN f \subseteq SignalKind /\ f \in [DOMAIN f -> 0 .. 10]
    /\ \A f \in Signals : f = [k \in DOMAIN f |-> f[k]]
    /\ \A f \in Signals : f = Nothing <=> DOMAIN f = {}
BY DEF Signals, Nothing

\* Signals merged over others are signals, and some if either are.
LEMMA MergeIs ==
    ASSUME NEW f \in Signals, NEW g \in Signals
    PROVE  /\ Merge(f, g) \in Signals
           /\ Merge(Nothing, g) = g /\ Merge(f, Nothing) = f
           /\ f # Nothing \/ g # Nothing => Merge(f, g) # Nothing
<1>1. /\ DOMAIN f \subseteq SignalKind /\ f \in [DOMAIN f -> 0 .. 10]
      /\ DOMAIN g \subseteq SignalKind /\ g \in [DOMAIN g -> 0 .. 10]
  BY SignalsAre
<1>2. DOMAIN Merge(f, g) = DOMAIN f \cup DOMAIN g
  BY DEF Merge
<1>3. Merge(f, g) \in [DOMAIN f \cup DOMAIN g -> 0 .. 10]
  BY <1>1 DEF Merge
<1>4. Merge(f, g) \in Signals
  BY <1>1, <1>2, <1>3 DEF Signals
<1>5. Merge(Nothing, g) = g /\ Merge(f, Nothing) = f
  BY SignalsAre DEF Merge, Nothing
<1> QED
  BY <1>2, <1>4, <1>5, SignalsAre

\* It does not matter in which order three are merged, as long as the newest is on top.
LEMMA MergeJoins ==
    ASSUME NEW f, NEW g, NEW h
    PROVE  Merge(Merge(f, g), h) = Merge(f, Merge(g, h))
BY DEF Merge

\* Each kind has the strength of the newest event that names it.
LEMMA NewestSignal ==
    ASSUME NEW s \in Seq(Entry), NEW t \in Turn
    PROVE  /\ \A k : k \in DOMAIN Replay(s)[t] <=> \E i \in Of(s, t) : k \in DOMAIN s[i].signals
           /\ Replay(s)[t] = [k \in DOMAIN Replay(s)[t] |-> Replay(s)[t][k]]
           /\ \A k \in DOMAIN Replay(s)[t] :
                \E i \in Of(s, t) : /\ k \in DOMAIN s[i].signals
                                    /\ Replay(s)[t][k] = s[i].signals[k]
                                    /\ \A j \in Of(s, t) : k \in DOMAIN s[j].signals => j <= i
<1> DEFINE Having(k) == {i \in Of(s, t) : k \in DOMAIN s[i].signals}
           kinds == UNION {DOMAIN s[i].signals : i \in Of(s, t)}
<1>1. Replay(s)[t] = [k \in kinds |-> s[Max(Having(k))].signals[k]]
  BY DEF Replay
<1>2. Len(s) \in Nat /\ DOMAIN s = 1 .. Len(s)
  OBVIOUS
<1>3. ASSUME NEW k \in kinds
      PROVE  \E i \in Having(k) : /\ Replay(s)[t][k] = s[i].signals[k]
                                  /\ \A j \in Having(k) : j <= i
  <2>1. Having(k) # {} /\ Having(k) \in SUBSET (1 .. Len(s))
    BY <1>2 DEF Of
  <2>2. Max(Having(k)) \in Having(k) /\ \A j \in Having(k) : j <= Max(Having(k))
    BY <2>1, <1>2, LastPlace
  <2> QED
    BY <1>1, <2>2
<1>4. DOMAIN Replay(s)[t] = kinds
  BY <1>1
<1>5. \A k : k \in kinds <=> \E i \in Of(s, t) : k \in DOMAIN s[i].signals
  OBVIOUS
<1> HIDE DEF kinds, Having
<1> QED
  BY <1>1, <1>3, <1>4, <1>5 DEF Having

\* A kind that an event of the turn has is read.
LEMMA ReadsKind ==
    ASSUME NEW s \in Seq(Entry), NEW t \in Turn, NEW i \in Of(s, t), NEW k \in DOMAIN s[i].signals
    PROVE  k \in DOMAIN Replay(s)[t]
<1>1. \E j \in Of(s, t) : k \in DOMAIN s[j].signals
  OBVIOUS
<1> QED
  BY <1>1, NewestSignal

\* A kind that is read is that of the last event of the turn that has it.
LEMMA KindRead ==
    ASSUME NEW s \in Seq(Entry), NEW t \in Turn, NEW k \in DOMAIN Replay(s)[t]
    PROVE  \E i \in Of(s, t) : /\ k \in DOMAIN s[i].signals
                               /\ Replay(s)[t][k] = s[i].signals[k]
                               /\ \A j \in Of(s, t) : k \in DOMAIN s[j].signals => j <= i
BY NewestSignal

\* And that event is the only one to look for.
LEMMA NewestIs ==
    ASSUME NEW s \in Seq(Entry), NEW t \in Turn, NEW k, NEW i \in Of(s, t),
           k \in DOMAIN s[i].signals,
           \A j \in Of(s, t) : k \in DOMAIN s[j].signals => j <= i
    PROVE  k \in DOMAIN Replay(s)[t] /\ Replay(s)[t][k] = s[i].signals[k]
<1>1. k \in DOMAIN Replay(s)[t]
  BY NewestSignal
<1>2. PICK h \in Of(s, t) : /\ k \in DOMAIN s[h].signals
                            /\ Replay(s)[t][k] = s[h].signals[k]
                            /\ \A j \in Of(s, t) : k \in DOMAIN s[j].signals => j <= h
  BY <1>1, NewestSignal
<1>3. h <= i /\ i <= h /\ h \in Int /\ i \in Int
  BY <1>2 DEF Of
<1> QED
  BY <1>1, <1>2, <1>3

\* What is replayed of a file are signals (FeedbackStore::open, persistence.rs).
LEMMA ReplayTyped ==
    ASSUME NEW s \in Seq(Entry)
    PROVE  Replay(s) \in [Turn -> Signals]
<1> SUFFICES ASSUME NEW t \in Turn PROVE Replay(s)[t] \in Signals
  BY DEF Replay
<1>1. \A i \in Of(s, t) : s[i].signals \in Signals
  BY Entries DEF Of
<1>2. \A i \in Of(s, t) : DOMAIN s[i].signals \subseteq SignalKind
                           /\ \A k \in DOMAIN s[i].signals : s[i].signals[k] \in 0 .. 10
  BY <1>1, SignalsAre
<1>3. ASSUME NEW k \in DOMAIN Replay(s)[t] PROVE k \in SignalKind /\ Replay(s)[t][k] \in 0 .. 10
  <2>1. PICK i \in Of(s, t) : k \in DOMAIN s[i].signals /\ Replay(s)[t][k] = s[i].signals[k]
    BY KindRead
  <2> QED
    BY <2>1, <1>2
<1>5. Replay(s)[t] \in [DOMAIN Replay(s)[t] -> 0 .. 10]
  BY <1>3, NewestSignal
<1> QED
  BY <1>3, <1>5, SignalsAre

\* Something is read of the turns an event names, and of no other.
LEMMA ReplayHas ==
    ASSUME NEW s \in Seq(Entry), NEW t \in Turn
    PROVE  t \in TurnsIn(s) <=> Replay(s)[t] # Nothing
<1>1. t \in TurnsIn(s) <=> Of(s, t) # {}
  BY DEF TurnsIn, ToSet, Of
<1>2. \A i \in Of(s, t) : DOMAIN s[i].signals # {}
  BY Entries DEF Of
<1>3. Of(s, t) # {} <=> DOMAIN Replay(s)[t] # {}
  <2>1. ASSUME NEW i \in Of(s, t) PROVE DOMAIN Replay(s)[t] # {}
    <3>1. PICK k : k \in DOMAIN s[i].signals
      BY <1>2
    <3> QED
      BY <3>1, NewestSignal
  <2>2. ASSUME NEW k \in DOMAIN Replay(s)[t] PROVE Of(s, t) # {}
    BY NewestSignal
  <2> QED
    BY <2>1, <2>2
<1>4. Replay(s)[t] \in Signals
  BY ReplayTyped
<1> QED
  BY <1>1, <1>3, <1>4, SignalsAre

\* What follows is read over what precedes it.
LEMMA ReplayJoins ==
    ASSUME NEW x \in Seq(Entry), NEW y \in Seq(Entry), NEW t \in Turn
    PROVE  Replay(x \o y)[t] = Merge(Replay(x)[t], Replay(y)[t])
<1> DEFINE n == Len(x)
           z == x \o y
           ofX == Of(x, t)
           ofY == Of(y, t)
<1>1. /\ z \in Seq(Entry) /\ n \in Nat /\ Len(z) = n + Len(y) /\ Len(y) \in Nat
      /\ \A i \in 1 .. Len(z) : z[i] = IF i <= n THEN x[i] ELSE y[i - n]
  OBVIOUS
<1>2. \A i \in ofX : i \in 1 .. n /\ i \in Of(z, t) /\ z[i] = x[i]
  BY <1>1 DEF Of
<1>3. \A i \in ofY : i \in 1 .. Len(y) /\ i + n \in Of(z, t) /\ z[i + n] = y[i]
  <2> SUFFICES ASSUME NEW i \in ofY
               PROVE  i \in 1 .. Len(y) /\ i + n \in Of(z, t) /\ z[i + n] = y[i]
    OBVIOUS
  <2>1. i \in 1 .. Len(y) /\ y[i].op = "append" /\ y[i].turn = t
    BY DEF Of
  <2>2. i + n \in 1 .. Len(z) /\ ~(i + n <= n) /\ (i + n) - n = i
    BY <2>1, <1>1
  <2>3. z[i + n] = y[i]
    BY <2>2, <1>1
  <2>4. DOMAIN z = 1 .. Len(z)
    BY <1>1
  <2> QED
    BY <2>1, <2>2, <2>3, <2>4 DEF Of
<1>4. \A i \in Of(z, t) : i \in 1 .. Len(z) /\ (IF i <= n THEN i \in ofX ELSE i - n \in ofY)
  <2> SUFFICES ASSUME NEW i \in Of(z, t)
               PROVE  i \in 1 .. Len(z) /\ (IF i <= n THEN i \in ofX ELSE i - n \in ofY)
    OBVIOUS
  <2>1. i \in 1 .. Len(z) /\ z[i].op = "append" /\ z[i].turn = t
    BY <1>1 DEF Of
  <2>2. CASE i <= n
    BY <2>1, <2>2, <1>1 DEF Of
  <2>3. CASE ~(i <= n)
    <3>1. i - n \in 1 .. Len(y) /\ z[i] = y[i - n]
      BY <2>1, <2>3, <1>1
    <3>2. DOMAIN y = 1 .. Len(y)
      OBVIOUS
    <3> QED
      BY <3>1, <3>2, <2>1, <2>3 DEF Of
  <2> QED
    BY <2>2, <2>3
<1>5. DOMAIN Replay(z)[t] = DOMAIN Replay(x)[t] \cup DOMAIN Replay(y)[t]
  <2>1. ASSUME NEW k \in DOMAIN Replay(x)[t] PROVE k \in DOMAIN Replay(z)[t]
    <3>1. PICK i \in ofX : k \in DOMAIN x[i].signals
      BY KindRead
    <3>2. i \in Of(z, t) /\ k \in DOMAIN z[i].signals
      BY <3>1, <1>2
    <3> QED
      BY <3>2, <1>1, ReadsKind
  <2>2. ASSUME NEW k \in DOMAIN Replay(y)[t] PROVE k \in DOMAIN Replay(z)[t]
    <3>1. PICK i \in ofY : k \in DOMAIN y[i].signals
      BY KindRead
    <3>2. i + n \in Of(z, t) /\ k \in DOMAIN z[i + n].signals
      BY <3>1, <1>3
    <3> QED
      BY <3>2, <1>1, ReadsKind
  <2>3. ASSUME NEW k \in DOMAIN Replay(z)[t]
        PROVE  k \in DOMAIN Replay(x)[t] \cup DOMAIN Replay(y)[t]
    <3>1. PICK i \in Of(z, t) : k \in DOMAIN z[i].signals
      BY <1>1, KindRead
    <3>2. CASE i <= n
      <4>1. i \in ofX /\ k \in DOMAIN x[i].signals
        BY <3>1, <3>2, <1>2, <1>4
      <4> QED
        BY <4>1, ReadsKind
    <3>3. CASE ~(i <= n)
      <4>1. i - n \in ofY /\ z[(i - n) + n] = y[i - n] /\ (i - n) + n = i
        BY <3>3, <1>1, <1>3, <1>4
      <4>2. i - n \in ofY /\ k \in DOMAIN y[i - n].signals
        BY <4>1, <3>1
      <4> QED
        BY <4>2, ReadsKind
    <3> QED
      BY <3>2, <3>3
  <2> QED
    BY <2>1, <2>2, <2>3
<1>6. ASSUME NEW k \in DOMAIN Replay(z)[t]
      PROVE  Replay(z)[t][k] = IF k \in DOMAIN Replay(y)[t] THEN Replay(y)[t][k] ELSE Replay(x)[t][k]
  <2>1. CASE k \in DOMAIN Replay(y)[t]
    <3>1. PICK i \in ofY : /\ k \in DOMAIN y[i].signals
                           /\ Replay(y)[t][k] = y[i].signals[k]
                           /\ \A j \in ofY : k \in DOMAIN y[j].signals => j <= i
      BY <2>1, NewestSignal
    <3>2. i + n \in Of(z, t) /\ z[i + n] = y[i] /\ i \in 1 .. Len(y)
      BY <1>3
    <3>3. ASSUME NEW j \in Of(z, t), k \in DOMAIN z[j].signals PROVE j <= i + n
      <4>1. CASE j <= n
        BY <4>1, <3>2, <1>1, <1>4
      <4>2. CASE ~(j <= n)
        <5>1. j - n \in ofY /\ j \in 1 .. Len(z) /\ (j - n) + n = j
          BY <4>2, <1>1, <1>4
        <5>2. z[(j - n) + n] = y[j - n]
          BY <5>1, <1>3
        <5>3. j - n <= i
          BY <3>1, <3>3, <5>1, <5>2
        <5> QED
          BY <5>1, <5>3, <3>2, <1>1
      <4> QED
        BY <4>1, <4>2
    <3>4. Replay(z)[t][k] = z[i + n].signals[k]
      BY <3>1, <3>2, <3>3, <1>1, NewestIs
    <3> QED
      BY <2>1, <3>1, <3>2, <3>4
  <2>2. CASE k \notin DOMAIN Replay(y)[t]
    <3>0. k \in DOMAIN Replay(x)[t]
      BY <2>2, <1>5
    <3>1. PICK i \in ofX : /\ k \in DOMAIN x[i].signals
                           /\ Replay(x)[t][k] = x[i].signals[k]
                           /\ \A j \in ofX : k \in DOMAIN x[j].signals => j <= i
      BY <3>0, NewestSignal
    <3>2. i \in Of(z, t) /\ z[i] = x[i]
      BY <1>2
    <3>3. ASSUME NEW j \in Of(z, t), k \in DOMAIN z[j].signals PROVE j <= i
      <4>1. CASE j <= n
        BY <4>1, <3>1, <3>3, <1>2, <1>4
      <4>2. CASE ~(j <= n)
        <5>1. j - n \in ofY /\ j \in 1 .. Len(z) /\ (j - n) + n = j
          BY <4>2, <1>1, <1>4
        <5>2. z[(j - n) + n] = y[j - n]
          BY <5>1, <1>3
        <5>3. j - n \in ofY /\ k \in DOMAIN y[j - n].signals
          BY <5>1, <5>2, <3>3
        <5>4. k \in DOMAIN Replay(y)[t]
          BY <5>3, ReadsKind
        <5> QED
          BY <5>4, <2>2
      <4> QED
        BY <4>1, <4>2
    <3>4. Replay(z)[t][k] = z[i].signals[k]
      BY <3>1, <3>2, <3>3, <1>1, NewestIs
    <3> QED
      BY <2>2, <3>1, <3>2, <3>4
  <2> QED
    BY <2>1, <2>2
<1>7. Replay(z)[t] = [k \in DOMAIN Replay(z)[t] |-> Replay(z)[t][k]]
  BY <1>1, NewestSignal
<1> QED
  BY <1>5, <1>6, <1>7 DEF Merge

\* One line is read for its turn.
LEMMA ReplayOne ==
    ASSUME NEW e \in Entry, NEW t \in Turn
    PROVE  Replay(<<e>>)[t] = IF e.op = "append" /\ e.turn = t THEN e.signals ELSE Nothing
<1> DEFINE s == <<e>>
<1>1. s \in Seq(Entry) /\ DOMAIN s = {1} /\ s[1] = e
  OBVIOUS
<1> HIDE DEF s
<1>2. CASE e.op = "append" /\ e.turn = t
  <2>1. Of(s, t) = {1}
    BY <1>1, <1>2 DEF Of
  <2>2. e.signals \in Signals
    BY <1>2, Entries
  <2>3. DOMAIN Replay(s)[t] = DOMAIN e.signals
    BY <1>1, <2>1, NewestSignal
  <2>4. ASSUME NEW k \in DOMAIN Replay(s)[t] PROVE Replay(s)[t][k] = e.signals[k]
    BY <1>1, <2>1, KindRead
  <2>5. Replay(s)[t] = [k \in DOMAIN Replay(s)[t] |-> Replay(s)[t][k]]
    BY <1>1, NewestSignal
  <2>6. e.signals = [k \in DOMAIN e.signals |-> e.signals[k]]
    BY <2>2, SignalsAre
  <2>7. Replay(s)[t] = e.signals
    BY <2>3, <2>4, <2>5, <2>6
  <2> QED
    BY <2>7, <1>2 DEF s
<1>3. CASE ~(e.op = "append" /\ e.turn = t)
  <2>1. Of(s, t) = {}
    BY <1>1, <1>3 DEF Of
  <2>2. t \notin TurnsIn(s)
    BY <2>1 DEF TurnsIn, ToSet, Of
  <2> QED
    BY <1>1, <1>3, <2>2, ReplayHas DEF s
<1> QED
  BY <1>2, <1>3

\* The turns that a file has events of.
LEMMA TurnsInAre ==
    ASSUME NEW s, NEW t
    PROVE  t \in TurnsIn(s) <=> \E i \in DOMAIN s : s[i].op = "append" /\ s[i].turn = t
BY DEF TurnsIn, ToSet

\* Those of two files in a row.
LEMMA TurnsInJoin ==
    ASSUME NEW x \in Seq(Entry), NEW y \in Seq(Entry)
    PROVE  /\ TurnsIn(x \o y) = TurnsIn(x) \cup TurnsIn(y)
           /\ TurnsIn(x) \subseteq Turn
           /\ TurnsIn(<<>>) = {}
<1> DEFINE z == x \o y
<1>1. /\ z \in Seq(Entry) /\ Len(x) \in Nat /\ Len(y) \in Nat /\ Len(z) = Len(x) + Len(y)
      /\ DOMAIN x = 1 .. Len(x) /\ DOMAIN y = 1 .. Len(y) /\ DOMAIN z = 1 .. Len(z)
      /\ \A i \in 1 .. Len(z) : z[i] = IF i <= Len(x) THEN x[i] ELSE y[i - Len(x)]
  OBVIOUS
<1> HIDE DEF z
<1>2. ASSUME NEW t \in TurnsIn(z) PROVE t \in TurnsIn(x) \cup TurnsIn(y)
  <2>1. PICK i \in DOMAIN z : z[i].op = "append" /\ z[i].turn = t
    BY TurnsInAre
  <2>2. (i \in DOMAIN x /\ z[i] = x[i]) \/ (i - Len(x) \in DOMAIN y /\ z[i] = y[i - Len(x)])
    <3>1. CASE i <= Len(x)
      BY <3>1, <1>1
    <3>2. CASE ~(i <= Len(x))
      <4>1. i \in 1 .. Len(z)
        BY <1>1
      <4>2. i - Len(x) \in 1 .. Len(y)
        BY <4>1, <3>2, <1>1
      <4> QED
        BY <4>1, <4>2, <3>2, <1>1
    <3> QED
      BY <3>1, <3>2
  <2>3. CASE i \in DOMAIN x /\ z[i] = x[i]
    BY <2>1, <2>3, TurnsInAre
  <2>4. CASE i - Len(x) \in DOMAIN y /\ z[i] = y[i - Len(x)]
    BY <2>1, <2>4, TurnsInAre
  <2> QED
    BY <2>2, <2>3, <2>4
<1>3. ASSUME NEW t \in TurnsIn(x) \cup TurnsIn(y) PROVE t \in TurnsIn(z)
  <2>1. CASE t \in TurnsIn(x)
    <3>1. PICK i \in DOMAIN x : x[i].op = "append" /\ x[i].turn = t
      BY <2>1, TurnsInAre
    <3>2. i \in DOMAIN z /\ z[i] = x[i]
      BY <1>1
    <3> QED
      BY <3>1, <3>2, TurnsInAre
  <2>2. CASE t \in TurnsIn(y)
    <3>1. PICK i \in DOMAIN y : y[i].op = "append" /\ y[i].turn = t
      BY <2>2, TurnsInAre
    <3>2. i + Len(x) \in 1 .. Len(z) /\ ~(i + Len(x) <= Len(x)) /\ (i + Len(x)) - Len(x) = i
      BY <1>1
    <3>3. i + Len(x) \in DOMAIN z /\ z[i + Len(x)] = y[i]
      BY <3>2, <1>1
    <3> QED
      BY <3>1, <3>3, TurnsInAre
  <2> QED
    BY <2>1, <2>2
<1>4. TurnsIn(x) \subseteq Turn
  <2> SUFFICES ASSUME NEW t \in TurnsIn(x) PROVE t \in Turn
    OBVIOUS
  <2>1. PICK i \in DOMAIN x : x[i].op = "append" /\ x[i].turn = t
    BY TurnsInAre
  <2>2. x[i] \in Entry
    OBVIOUS
  <2> QED
    BY <2>1, <2>2, Entries
<1>5. TurnsIn(<<>>) = {}
  BY DEF TurnsIn, ToSet
<1> QED
  BY <1>2, <1>3, <1>4, <1>5 DEF z

\* Those of a file of one line.
LEMMA TurnsInOne ==
    ASSUME NEW e
    PROVE  TurnsIn(<<e>>) = IF e.op = "append" THEN {e.turn} ELSE {}
<1>1. \A t : t \in TurnsIn(<<e>>) <=> e.op = "append" /\ e.turn = t
  BY TurnsInAre
<1> QED
  BY <1>1

\* A snapshot of what memory holds is read as that.
LEMMA Snapshot ==
    ASSUME NEW v \in [Turn -> Signals]
    PROVE  LET left == SetToSeq({t \in Turn : v[t] # Nothing})
               events == [i \in DOMAIN left |-> FeedbackEvent(left[i], v[left[i]])]
           IN  events \in Seq(Event) /\ \A t \in Turn : Replay(events)[t] = v[t]
<1> DEFINE S == {t \in Turn : v[t] # Nothing}
           n == Cardinality(S)
           left == SetToSeq(S)
           events == [i \in DOMAIN left |-> FeedbackEvent(left[i], v[left[i]])]
<1>1. IsFiniteSet(S)
  <2>1. S \in SUBSET Turn /\ IsFiniteSet(Turn)
    BY FeedbackAssumption
  <2> QED
    BY <2>1, FS_Subset
<1>2. n \in Nat
  BY <1>1, FS_CardinalityType
<1>3. left \in Injection(1 .. n, S)
  <2>1. PICK f : f \in Bijection(1 .. n, S)
    BY <1>1, FS_CardinalityType DEF ExistsBijection
  <2>2. f \in [1 .. n -> S] /\ IsInjective(f)
    BY <2>1 DEF Bijection, Injection
  <2>3. left \in [1 .. n -> S] /\ IsInjective(left)
    BY <2>2 DEF SetToSeq
  <2> QED
    BY <2>3 DEF Injection
<1>4. /\ left \in [1 .. n -> S] /\ \A a, b \in 1 .. n : left[a] = left[b] => a = b
      /\ \A t \in S : \E i \in 1 .. n : left[i] = t
  <2>1. Cardinality(1 .. n) = n
    BY <1>2, FS_Interval
  <2>2. left \in Surjection(1 .. n, S)
    BY <1>1, <1>3, <2>1, FS_Injection
  <2> QED
    BY <1>3, <2>2 DEF Injection, IsInjective, Surjection
<1> HIDE DEF left
<1>5. DOMAIN left = 1 .. n /\ Len(left) = n
  BY <1>4, <1>2
<1>6. /\ DOMAIN events = 1 .. n
      /\ \A i \in 1 .. n : events[i] = FeedbackEvent(left[i], v[left[i]])
  BY <1>5
<1>7. \A t \in S : FeedbackEvent(t, v[t]) \in Event
  BY DEF FeedbackEvent, Event
<1>8. events \in Seq(Event)
  <2>1. events \in [1 .. n -> Event]
    BY <1>4, <1>5, <1>6, <1>7
  <2> HIDE DEF events, n
  <2>2. events \in UNION {[1 .. m -> Event] : m \in Nat}
    BY <2>1, <1>2
  <2> QED
    BY <2>2, SeqDef
<1>9. events \in Seq(Entry)
  BY <1>8, Entries
<1>10. \A i \in 1 .. n : /\ events[i].op = "append" /\ events[i].turn = left[i]
                         /\ events[i].signals = v[left[i]]
  BY <1>6 DEF FeedbackEvent
<1> HIDE DEF events
<1>11. ASSUME NEW t \in Turn PROVE Replay(events)[t] = v[t]
  <2>1. CASE t \in S
    <3>1. PICK i \in 1 .. n : left[i] = t
      BY <1>4, <2>1
    <3>2. Of(events, t) = {i}
      BY <1>4, <1>6, <1>10, <3>1 DEF Of
    <3>3. events[i].signals = v[t]
      BY <1>10, <3>1
    <3>4. DOMAIN Replay(events)[t] = DOMAIN v[t]
      <4>1. \A k : k \in DOMAIN Replay(events)[t] <=> \E j \in Of(events, t) : k \in DOMAIN events[j].signals
        BY <1>9, NewestSignal
      <4>2. \A k : k \in DOMAIN Replay(events)[t] <=> k \in DOMAIN v[t]
        BY <4>1, <3>2, <3>3
      <4> QED
        BY <4>2
    <3>5. ASSUME NEW k \in DOMAIN Replay(events)[t] PROVE Replay(events)[t][k] = v[t][k]
      BY <1>9, <3>2, <3>3, KindRead
    <3>6. v[t] = [k \in DOMAIN v[t] |-> v[t][k]]
      BY SignalsAre
    <3>7. Replay(events)[t] = [k \in DOMAIN Replay(events)[t] |-> Replay(events)[t][k]]
      BY <1>9, NewestSignal
    <3> QED
      BY <3>4, <3>5, <3>6, <3>7
  <2>2. CASE t \notin S
    <3>1. t \notin TurnsIn(events)
      <4> SUFFICES ASSUME t \in TurnsIn(events) PROVE FALSE
        OBVIOUS
      <4>1. PICK i \in DOMAIN events : events[i].op = "append" /\ events[i].turn = t
        BY TurnsInAre
      <4>2. i \in 1 .. n /\ left[i] = t
        BY <4>1, <1>6, <1>10
      <4> QED
        BY <4>2, <1>4, <2>2
    <3>2. Replay(events)[t] = Nothing
      BY <3>1, <1>9, ReplayHas
    <3> QED
      BY <3>2, <2>2
  <2> QED
    BY <2>1, <2>2
<1> QED
  BY <1>8, <1>11 DEF events, left

-----------------------------------------------------------------------------
(* What the queue holds, and what will be read once it is written.           *)

\* The bases are the file and the rewrites that are queued.
LEMMA BasesAre ==
    ASSUME FeedbackTypeOK
    PROVE  /\ Len(queue) \in Nat /\ DOMAIN queue = 1 .. Len(queue) /\ queue \in Seq(Entry)
           /\ file \in Seq(Entry) /\ rotated \in Seq(Entry)
           /\ \A i \in 1 .. Len(queue) : queue[i] \in Command /\ queue[i] \in Entry
           /\ Bases \subseteq 0 .. Len(queue) /\ 0 \in Bases
           /\ \A b \in Bases : b # 0 => queue[b] \in Rewriting /\ queue[b].op = "rewrite"
           /\ \A b \in Bases : Base(b) \in Seq(Entry)
           /\ \A b \in 0 .. Len(queue) : SubSeq(queue, b + 1, Len(queue)) \in Seq(Entry)
<1>1. queue \in Seq(Command) /\ file \in Seq(Line) /\ rotated \in Seq(Line)
  BY DEF FeedbackTypeOK
<1>2. /\ Len(queue) \in Nat /\ DOMAIN queue = 1 .. Len(queue)
      /\ \A i \in 1 .. Len(queue) : queue[i] \in Command
  BY <1>1
<1>3. \A i \in 1 .. Len(queue) : queue[i] \in Entry
  BY <1>2, Entries
<1>4. queue \in Seq(Entry) /\ file \in Seq(Entry) /\ rotated \in Seq(Entry)
  BY <1>1, Entries, SeqMonotonic
<1>5. Bases \subseteq 0 .. Len(queue) /\ 0 \in Bases
  BY <1>2 DEF Bases
<1>6. \A b \in Bases : b # 0 => queue[b] \in Rewriting /\ queue[b].op = "rewrite"
  BY <1>2, Entries DEF Bases, Command
<1>7. \A b \in Bases : Base(b) \in Seq(Entry)
  <2>1. Seq(Event) \subseteq Seq(Entry)
    BY Entries, SeqMonotonic
  <2> QED
    BY <1>4, <1>6, <2>1, Entries DEF Base
<1>8. ASSUME NEW b \in 0 .. Len(queue) PROVE SubSeq(queue, b + 1, Len(queue)) \in Seq(Entry)
  <2>1. \A i \in (b + 1) .. Len(queue) : queue[i] \in Entry
    BY <1>2, <1>3
  <2> QED
    BY <2>1, <1>2, <1>4
<1> QED
  BY <1>2, <1>3, <1>4, <1>5, <1>6, <1>7, <1>8

\* What will be read from a base on: what the base has, and over it what is queued after.
LEMMA ReadIs ==
    ASSUME FeedbackTypeOK, NEW b \in Bases, NEW t \in Turn
    PROVE  /\ Read(b, t) = Merge(Replay(Base(b))[t], Replay(SubSeq(queue, b + 1, Len(queue)))[t])
           /\ Read(b, t) \in Signals
<1>1. Base(b) \in Seq(Entry) /\ SubSeq(queue, b + 1, Len(queue)) \in Seq(Entry)
  BY BasesAre
<1>2. Read(b, t) = Merge(Replay(Base(b))[t], Replay(SubSeq(queue, b + 1, Len(queue)))[t])
  BY <1>1, ReplayJoins DEF Read, From
<1>3. /\ Replay(Base(b))[t] \in Signals
      /\ Replay(SubSeq(queue, b + 1, Len(queue)))[t] \in Signals
  BY <1>1, ReplayTyped
<1> QED
  BY <1>2, <1>3, MergeIs

\* A turn is held by a file or by a command.
LEMMA HeldAre ==
    ASSUME NEW t
    PROVE  t \in Held <=> \/ t \in TurnsIn(file) \cup TurnsIn(rotated)
                          \/ \E i \in DOMAIN queue : t \in Named(queue[i])
BY DEF Held

\* Only turns are held.
LEMMA HeldInTurn ==
    ASSUME FeedbackTypeOK
    PROVE  /\ Held \subseteq Turn
           /\ \A i \in DOMAIN queue : Named(queue[i]) \subseteq Turn
<1>1. \A i \in DOMAIN queue : queue[i] \in Event \/ queue[i] \in Rewriting
  BY BasesAre DEF Command
<1>2. ASSUME NEW i \in DOMAIN queue PROVE Named(queue[i]) \subseteq Turn
  <2>1. CASE queue[i] \in Event
    BY <2>1, Entries DEF Named
  <2>2. CASE queue[i] \in Rewriting
    <3>1. queue[i].events \in Seq(Entry) /\ queue[i].op = "rewrite"
      BY <2>2, Entries, SeqMonotonic
    <3> QED
      BY <3>1, TurnsInJoin DEF Named
  <2> QED
    BY <1>1, <2>1, <2>2
<1>3. TurnsIn(file) \subseteq Turn /\ TurnsIn(rotated) \subseteq Turn
  BY BasesAre, TurnsInJoin
<1> QED
  BY <1>2, <1>3, HeldAre

\* The end of a sequence, with one more or one fewer.
LEMMA RestAppended ==
    ASSUME NEW q \in Seq(Entry), NEW e \in Entry, NEW b \in 0 .. Len(q)
    PROVE  SubSeq(Append(q, e), b + 1, Len(q) + 1) = Append(SubSeq(q, b + 1, Len(q)), e)
<1> DEFINE n == Len(q)
           x == SubSeq(Append(q, e), b + 1, n + 1)
           y == Append(SubSeq(q, b + 1, n), e)
<1>1. n \in Nat /\ b \in Nat /\ b <= n
  OBVIOUS
<1>2. /\ Append(q, e) \in Seq(Entry) /\ Len(Append(q, e)) = n + 1
      /\ \A i \in 1 .. n : Append(q, e)[i] = q[i]
      /\ Append(q, e)[n + 1] = e
  BY AppendProperties
<1>3. x \in Seq(Entry) /\ Len(x) = n + 1 - b /\ \A i \in 1 .. (n + 1 - b) : x[i] = Append(q, e)[b + i]
  BY <1>1, <1>2, SubSeqProperties
<1>4. /\ SubSeq(q, b + 1, n) \in Seq(Entry) /\ Len(SubSeq(q, b + 1, n)) = n - b
      /\ \A i \in 1 .. (n - b) : SubSeq(q, b + 1, n)[i] = q[b + i]
  BY <1>1, SubSeqProperties
<1>5. /\ y \in Seq(Entry) /\ Len(y) = n - b + 1
      /\ \A i \in 1 .. (n - b) : y[i] = SubSeq(q, b + 1, n)[i]
      /\ y[n - b + 1] = e
  BY <1>4, AppendProperties
<1> HIDE DEF x, y
<1>6. ASSUME NEW i \in 1 .. Len(x) PROVE x[i] = y[i]
  <2>1. CASE i = n - b + 1
    <3>1. b + i = n + 1 /\ i \in 1 .. (n + 1 - b)
      BY <2>1, <1>1
    <3> QED
      BY <3>1, <2>1, <1>2, <1>3, <1>5
  <2>2. CASE i # n - b + 1
    <3>1. i \in 1 .. (n - b) /\ b + i \in 1 .. n /\ i \in 1 .. (n + 1 - b)
      BY <2>2, <1>1, <1>3
    <3>2. x[i] = q[b + i]
      BY <3>1, <1>2, <1>3
    <3>3. y[i] = q[b + i]
      BY <3>1, <1>4, <1>5
    <3> QED
      BY <3>2, <3>3
  <2> QED
    BY <2>1, <2>2
<1>7. Len(x) = Len(y)
  BY <1>1, <1>3, <1>5
<1> QED
  BY <1>3, <1>5, <1>6, <1>7, SeqEqual DEF x, y

\* What comes after a place of the queue, when its head is taken.
LEMMA RestOfTail ==
    ASSUME NEW q \in Seq(Entry), q # <<>>, NEW b \in 0 .. Len(q) - 1
    PROVE  SubSeq(Tail(q), b + 1, Len(q) - 1) = SubSeq(q, b + 2, Len(q))
<1> DEFINE n == Len(q)
           x == SubSeq(Tail(q), b + 1, n - 1)
           y == SubSeq(q, b + 2, n)
<1>1. n \in Nat /\ n >= 1 /\ b \in Nat /\ b + 1 <= n
  OBVIOUS
<1>2. Tail(q) \in Seq(Entry) /\ Len(Tail(q)) = n - 1 /\ \A i \in 1 .. (n - 1) : Tail(q)[i] = q[i + 1]
  BY HeadTailProperties
<1>0. \A i \in (b + 1) .. (n - 1) : Tail(q)[i] \in Entry
  BY <1>1, <1>2, ElementOfSeq
<1>3. x \in Seq(Entry) /\ Len(x) = n - 1 - b /\ \A i \in 1 .. (n - 1 - b) : x[i] = Tail(q)[b + i]
  <2>1. /\ x \in Seq(Entry)
        /\ Len(x) = IF b + 1 <= n - 1 THEN (n - 1) - (b + 1) + 1 ELSE 0
        /\ \A i \in 1 .. ((n - 1) - (b + 1) + 1) : x[i] = Tail(q)[(b + 1) + i - 1]
    BY <1>0, <1>1, SubSeqProperties
  <2>2. (n - 1) - (b + 1) + 1 = n - 1 - b
    BY <1>1
  <2>3. \A i \in 1 .. (n - 1 - b) : (b + 1) + i - 1 = b + i
    BY <1>1
  <2> HIDE DEF x, n
  <2>4. Len(x) = n - 1 - b
    <3>1. CASE b + 1 <= n - 1
      BY <3>1, <2>1, <2>2
    <3>2. CASE ~(b + 1 <= n - 1)
      <4>1. n - 1 - b = 0
        BY <3>2, <1>1
      <4> QED
        BY <3>2, <4>1, <2>1
    <3> QED
      BY <3>1, <3>2
  <2>5. ASSUME NEW i \in 1 .. (n - 1 - b) PROVE x[i] = Tail(q)[b + i]
    BY <2>1, <2>2, <2>3
  <2> QED
    BY <2>1, <2>4, <2>5
<1>4. y \in Seq(Entry) /\ Len(y) = n - 1 - b /\ \A i \in 1 .. (n - 1 - b) : y[i] = q[b + 1 + i]
  BY <1>1, SubSeqProperties
<1> HIDE DEF x, y
<1>5. ASSUME NEW i \in 1 .. Len(x) PROVE x[i] = y[i]
  <2>1. b + i \in 1 .. (n - 1) /\ i \in 1 .. (n - 1 - b) /\ (b + i) + 1 = b + 1 + i
    BY <1>1, <1>3
  <2> QED
    BY <2>1, <1>2, <1>3, <1>4
<1> QED
  BY <1>3, <1>4, <1>5, SeqEqual DEF x, y

\* A queue is its head and what comes after.
LEMMA HeadAndTail ==
    ASSUME NEW q \in Seq(Entry), q # <<>>
    PROVE  /\ q = <<Head(q)>> \o Tail(q) /\ Head(q) = q[1] /\ Head(q) \in Entry
           /\ Tail(q) \in Seq(Entry)
           /\ SubSeq(q, 1, Len(q)) = q /\ SubSeq(q, 2, Len(q)) = Tail(q)
           /\ SubSeq(Tail(q), 1, Len(q) - 1) = Tail(q)
<1> DEFINE n == Len(q)
<1>1. n \in Nat /\ n >= 1 /\ Head(q) = q[1] /\ Head(q) \in Entry
  OBVIOUS
<1>2. Tail(q) \in Seq(Entry) /\ Len(Tail(q)) = n - 1 /\ \A i \in 1 .. (n - 1) : Tail(q)[i] = q[i + 1]
  BY HeadTailProperties
<1>3. ASSUME NEW s \in Seq(Entry) PROVE SubSeq(s, 1, Len(s)) = s
  <2>1. /\ SubSeq(s, 1, Len(s)) \in Seq(Entry) /\ Len(SubSeq(s, 1, Len(s))) = Len(s)
        /\ \A i \in 1 .. Len(s) : SubSeq(s, 1, Len(s))[i] = s[i]
    BY SubSeqProperties
  <2> QED
    BY <2>1, SeqEqual
<1>4. SubSeq(q, 2, n) = Tail(q)
  <2>1. SubSeq(Tail(q), 0 + 1, n - 1) = SubSeq(q, 0 + 2, n)
    BY <1>1, RestOfTail
  <2> QED
    BY <2>1, <1>2, <1>3
<1>5. q = <<Head(q)>> \o Tail(q)
  BY <1>1, HeadTailProperties
<1> QED
  BY <1>1, <1>2, <1>3, <1>4, <1>5

\* A command is queued.
LEMMA Queued ==
    ASSUME FeedbackTypeOK, NEW e \in Command, queue' = Append(queue, e), file' = file,
           NEW n, n = Len(queue)
    PROVE  /\ Len(queue') = n + 1 /\ DOMAIN queue' = 1 .. (n + 1)
           /\ \A i \in 1 .. n : queue'[i] = queue[i]
           /\ queue'[n + 1] = e
           /\ queue' \in Seq(Command)
           /\ Bases' = Bases \cup (IF e.op = "rewrite" THEN {n + 1} ELSE {})
           /\ \A b \in Bases, t \in Turn : Read(b, t)' = Merge(Read(b, t), Replay(<<e>>)[t])
           /\ e.op = "rewrite" => \A t \in Turn : Read(n + 1, t)' = Replay(e.events)[t]
           /\ rotated' = rotated => Held' = Held \cup Named(e)
<1>1. /\ n \in Nat /\ DOMAIN queue = 1 .. n /\ queue \in Seq(Command) /\ queue \in Seq(Entry)
      /\ Bases \subseteq 0 .. n
  BY BasesAre DEF FeedbackTypeOK
<1>2. /\ Len(queue') = n + 1 /\ DOMAIN queue' = 1 .. (n + 1)
      /\ \A i \in 1 .. n : queue'[i] = queue[i]
      /\ queue'[n + 1] = e /\ queue' \in Seq(Command)
  BY <1>1
<1>3. e \in Entry
  BY Entries
<1>4. Bases' = Bases \cup (IF e.op = "rewrite" THEN {n + 1} ELSE {})
  BY <1>1, <1>2 DEF Bases
<1>5. ASSUME NEW b \in Bases, NEW t \in Turn PROVE Read(b, t)' = Merge(Read(b, t), Replay(<<e>>)[t])
  <2> DEFINE rest == SubSeq(queue, b + 1, n)
  <2>1. rest \in Seq(Entry) /\ Base(b) \in Seq(Entry) /\ b \in 0 .. n /\ n = Len(queue)
    BY BasesAre
  <2>2. SubSeq(queue', b + 1, n + 1) = Append(rest, e)
    <3>1. SubSeq(Append(queue, e), b + 1, Len(queue) + 1) = Append(SubSeq(queue, b + 1, Len(queue)), e)
      BY <1>1, <1>3, <2>1, RestAppended
    <3> QED
      BY <3>1
  <2>3. Base(b)' = Base(b)
    BY <1>1, <1>2, <2>1 DEF Base
  <2>4. From(b)' = Base(b) \o Append(rest, e)
    BY <1>2, <2>2, <2>3 DEF From
  <2>5. Base(b) \o Append(rest, e) = (Base(b) \o rest) \o <<e>>
    <3> HIDE DEF rest
    <3>1. <<e>> \in Seq(Entry) /\ Append(rest, e) = rest \o <<e>>
      BY <2>1, <1>3, AppendIsConcat
    <3> QED
      BY <3>1, <2>1, ConcatAssociative
  <2>6. Base(b) \o rest \in Seq(Entry) /\ <<e>> \in Seq(Entry)
    BY <2>1, <1>3
  <2>7. From(b) = Base(b) \o rest
    BY DEF From
  <2> HIDE DEF rest
  <2> QED
    <3>1. From(b)' = From(b) \o <<e>>
      BY <2>4, <2>5, <2>7
    <3>2. Read(b, t)' = Replay(From(b) \o <<e>>)[t]
      BY <3>1 DEF Read
    <3> QED
      BY <3>2, <2>6, <2>7, ReplayJoins DEF Read
<1>6. ASSUME e.op = "rewrite", NEW t \in Turn PROVE Read(n + 1, t)' = Replay(e.events)[t]
  <2>1. e.events \in Seq(Entry)
    BY <1>6, Entries, SeqMonotonic DEF Command
  <2>2. Base(n + 1)' = e.events
    <3>1. n + 1 # 0
      BY <1>1
    <3>2. Base(n + 1)' = queue'[n + 1].events
      BY <3>1 DEF Base
    <3> QED
      BY <3>2, <1>2
  <2>3. SubSeq(queue', n + 1 + 1, n + 1) = <<>>
    BY <1>1, <1>2
  <2>4. From(n + 1)' = e.events
    BY <1>2, <2>1, <2>2, <2>3 DEF From
  <2> QED
    BY <2>4 DEF Read
<1>7. ASSUME rotated' = rotated PROVE Held' = Held \cup Named(e)
  <2>1. Held' = TurnsIn(file) \cup TurnsIn(rotated) \cup UNION {Named(queue'[i]) : i \in DOMAIN queue'}
    BY <1>7 DEF Held, Named
  <2> QED
    BY <2>1, <1>1, <1>2 DEF Held
<1> QED
  BY <1>2, <1>4, <1>5, <1>6, <1>7

\* As long as neither the queue nor the file changes, what will be read does not.
LEMMA Unqueued ==
    ASSUME queue' = queue, file' = file
    PROVE  /\ Bases' = Bases
           /\ \A b, t : Read(b, t)' = Read(b, t)
           /\ rotated' = rotated => Held' = Held
<1>1. Bases' = Bases
  BY DEF Bases
<1>2. ASSUME NEW b, NEW t PROVE Read(b, t)' = Read(b, t)
  <2>1. Base(b)' = Base(b)
    BY DEF Base
  <2>2. From(b)' = From(b)
    BY <2>1 DEF From
  <2> QED
    BY <2>2 DEF Read
<1>3. rotated' = rotated => Held' = Held
  BY DEF Held
<1> QED
  BY <1>1, <1>2, <1>3

\* The writer takes the first command.
LEMMA Dequeued ==
    ASSUME FeedbackTypeOK, queue # <<>>, queue' = Tail(queue), NEW n, n = Len(queue)
    PROVE  /\ n \in Nat /\ n >= 1 /\ Len(queue') = n - 1 /\ DOMAIN queue' = 1 .. (n - 1)
           /\ \A i \in 1 .. (n - 1) : i + 1 \in DOMAIN queue /\ queue'[i] = queue[i + 1]
           /\ queue' \in Seq(Command)
           /\ Head(queue) = queue[1] /\ Head(queue) \in Command /\ 1 \in DOMAIN queue
           /\ 0 \in Bases' /\ \A b \in Bases' : b # 0 => b \in 1 .. (n - 1) /\ b + 1 \in Bases
           /\ \A b \in Bases', t \in Turn : b # 0 => Read(b, t)' = Read(b + 1, t)
           /\ \A t \in Turn :
                 /\ Replay(Tail(queue))[t] \in Signals
                 /\ Read(0, t) = Merge(Replay(file)[t],
                                       Merge(Replay(<<Head(queue)>>)[t], Replay(Tail(queue))[t]))
                 /\ file' \in Seq(Entry) =>
                       Read(0, t)' = Merge(Replay(file')[t], Replay(Tail(queue))[t])
                 /\ Head(queue).op = "rewrite" =>
                       /\ 1 \in Bases
                       /\ Read(1, t) = Merge(Replay(Head(queue).events)[t], Replay(Tail(queue))[t])
<1>1. /\ n \in Nat /\ DOMAIN queue = 1 .. n /\ queue \in Seq(Command) /\ queue \in Seq(Entry)
      /\ Bases \subseteq 0 .. n /\ file \in Seq(Entry)
  BY BasesAre DEF FeedbackTypeOK
<1>2. /\ n >= 1 /\ Head(queue) = queue[1] /\ Head(queue) \in Command /\ 1 \in DOMAIN queue
  BY <1>1
<1>3. /\ Len(queue') = n - 1 /\ DOMAIN queue' = 1 .. (n - 1) /\ queue' \in Seq(Command)
      /\ \A i \in 1 .. (n - 1) : i + 1 \in DOMAIN queue /\ queue'[i] = queue[i + 1]
  BY <1>1, <1>2
<1>4. 0 \in Bases' /\ \A b \in Bases' : b # 0 => b \in 1 .. (n - 1) /\ b + 1 \in Bases
  <2>1. Bases' = {0} \cup {i \in 1 .. (n - 1) : queue'[i].op = "rewrite"}
    BY <1>3 DEF Bases
  <2> QED
    BY <2>1, <1>3 DEF Bases
<1>5. ASSUME NEW b \in Bases', NEW t \in Turn, b # 0 PROVE Read(b, t)' = Read(b + 1, t)
  <2>1. b \in 1 .. (n - 1) /\ b + 1 # 0 /\ (b + 1) + 1 = b + 2
    BY <1>1, <1>4, <1>5
  <2>2. Base(b)' = queue'[b].events
    BY <1>5 DEF Base
  <2>3. Base(b + 1) = queue[b + 1].events
    BY <2>1 DEF Base
  <2>4. Base(b)' = Base(b + 1)
    BY <2>1, <2>2, <2>3, <1>3
  <2>5. b \in 0 .. Len(queue) - 1
    BY <2>1, <1>1
  <2>6. SubSeq(Tail(queue), b + 1, Len(queue) - 1) = SubSeq(queue, b + 2, Len(queue))
    BY <2>5, <1>1, RestOfTail
  <2>7. SubSeq(queue', b + 1, Len(queue')) = SubSeq(queue, (b + 1) + 1, Len(queue))
    BY <2>1, <2>6, <1>3
  <2>8. From(b)' = From(b + 1)
    BY <2>4, <2>7 DEF From
  <2> QED
    BY <2>8 DEF Read
<1>6. ASSUME NEW t \in Turn
      PROVE  /\ Replay(Tail(queue))[t] \in Signals
             /\ Read(0, t) = Merge(Replay(file)[t],
                                   Merge(Replay(<<Head(queue)>>)[t], Replay(Tail(queue))[t]))
             /\ file' \in Seq(Entry) => Read(0, t)' = Merge(Replay(file')[t], Replay(Tail(queue))[t])
             /\ Head(queue).op = "rewrite" =>
                   /\ 1 \in Bases
                   /\ Read(1, t) = Merge(Replay(Head(queue).events)[t], Replay(Tail(queue))[t])
  <2>1. /\ queue = <<Head(queue)>> \o Tail(queue) /\ Head(queue) \in Entry
        /\ Tail(queue) \in Seq(Entry)
        /\ SubSeq(queue, 1, Len(queue)) = queue /\ SubSeq(queue, 2, Len(queue)) = Tail(queue)
        /\ SubSeq(Tail(queue), 1, Len(queue) - 1) = Tail(queue)
    BY <1>1, HeadAndTail
  <2>2. Replay(Tail(queue))[t] \in Signals
    BY <2>1, ReplayTyped
  <2>3. <<Head(queue)>> \in Seq(Entry)
    BY <2>1
  <2>4. Replay(queue)[t] = Merge(Replay(<<Head(queue)>>)[t], Replay(Tail(queue))[t])
    BY <2>1, <2>3, ReplayJoins
  <2>5. Read(0, t) = Merge(Replay(file)[t], Replay(queue)[t])
    <3>1. From(0) = file \o queue
      BY <2>1 DEF From, Base
    <3> QED
      BY <3>1, <1>1, ReplayJoins DEF Read
  <2>6. ASSUME file' \in Seq(Entry)
        PROVE  Read(0, t)' = Merge(Replay(file')[t], Replay(Tail(queue))[t])
    <3>1. From(0)' = file' \o Tail(queue)
      <4>1. Base(0)' = file'
        BY DEF Base
      <4>2. SubSeq(queue', 1, Len(queue')) = Tail(queue)
        BY <2>1, <1>3, <1>1
      <4> QED
        BY <4>1, <4>2 DEF From
    <3>2. Read(0, t)' = Replay(file' \o Tail(queue))[t]
      BY <3>1 DEF Read
    <3> QED
      BY <3>2, <2>1, <2>6, ReplayJoins
  <2>7. ASSUME Head(queue).op = "rewrite"
        PROVE  /\ 1 \in Bases
               /\ Read(1, t) = Merge(Replay(Head(queue).events)[t], Replay(Tail(queue))[t])
    <3>1. 1 \in Bases
      BY <2>7, <1>2 DEF Bases
    <3>2. Base(1) \in Seq(Entry) /\ Base(1) = Head(queue).events
      <4>1. Base(1) = Head(queue).events
        BY <1>2 DEF Base
      <4> QED
        BY <4>1, <3>1, BasesAre
    <3>3. From(1) = Base(1) \o Tail(queue)
      BY <2>1 DEF From
    <3> QED
      BY <3>1, <3>2, <3>3, <2>1, ReplayJoins DEF Read
  <2> QED
    BY <2>2, <2>4, <2>5, <2>6, <2>7
<1> QED
  BY <1>1, <1>2, <1>3, <1>4, <1>5, <1>6

-----------------------------------------------------------------------------
(* Calls, and what a step of one of them leaves to the others.               *)

\* The step a call is at says what it carries.
LEMMA Kinds ==
    ASSUME NEW k \in Call
    PROVE  /\ k.pc \in {"idle", "store"} \cup Posting \cup Erasing
           /\ k.turns \in SUBSET Turn
           /\ k.pc = "idle" <=> k = Idle
           /\ k.pc \in Posting => k \in PostCall
           /\ k.pc = "store" => k \in StoreCall
           /\ k.pc \in Erasing => k \in EraseCall
           /\ Erases(k) <=> k.pc \in Erasing
           /\ Idle \in Call /\ Idle.turns = {} /\ Idle.pc = "idle" /\ ~Erases(Idle)
BY DEF Call, PostCall, StoreCall, EraseCall, Posting, Erasing, Erases, Idle

\* So does that of each client.
LEMMA Calls ==
    ASSUME FeedbackTypeOK, NEW c \in Client
    PROVE  /\ client[c] \in Call
           /\ client[c].pc \in {"idle", "store"} \cup Posting \cup Erasing
           /\ client[c].turns \in SUBSET Turn
           /\ client[c].pc = "idle" <=> client[c] = Idle
           /\ client[c].pc \in Posting => client[c] \in PostCall
           /\ client[c].pc = "store" => client[c] \in StoreCall
           /\ client[c].pc \in Erasing => client[c] \in EraseCall
           /\ Erases(client[c]) <=> client[c].pc \in Erasing
<1>1. client[c] \in Call
  BY DEF FeedbackTypeOK
<1> QED
  BY <1>1, Kinds

\* Nobody else has to do with a turn of a call that is certain, and nobody else erases.
LEMMA Alone ==
    ASSUME FeedbackTypeOK, Apart, NEW c \in Client, NEW d \in Client, c # d,
           NEW t \in client[c].turns, t \notin unsure
    PROVE  t \notin client[d].turns /\ client[d].pc \notin Erasing
<1>1. Overlap(client[c], client[d]) \subseteq unsure
  BY DEF Apart
<1>2. t \notin Overlap(client[c], client[d])
  BY <1>1
<1>3. t \notin client[d].turns /\ ~Erases(client[d])
  BY <1>2 DEF Overlap
<1> QED
  BY <1>3, Calls

\* The turn of a call that ingests is one of its turns.
LEMMA NowIn ==
    ASSUME FeedbackTypeOK, CallsSound, NEW c \in Client, client[c].pc \in Posting
    PROVE  /\ Now(client[c]) \in client[c].turns /\ Now(client[c]) \in Turn
           /\ client[c].signals \in Signals /\ client[c].merged \in Signals
           /\ client[c].todo \in Seq(Posted) /\ client[c].todo # <<>>
<1>1. client[c] \in PostCall
  BY Calls
<1>2. client[c].todo \in Seq(Posted) /\ client[c].todo # <<>>
  BY <1>1 DEF PostCall
<1>3. 1 \in DOMAIN client[c].todo /\ Head(client[c].todo) = client[c].todo[1]
  BY <1>2
<1>4. Now(client[c]) \in client[c].turns
  BY <1>3 DEF CallsSound, CallSound, Now
<1> QED
  BY <1>1, <1>2, <1>4, Calls DEF PostCall

\* A call that goes on with the turns it has, or with fewer, overlaps no more than it did.
LEMMA ApartKept ==
    ASSUME FeedbackTypeOK, Apart, NEW c \in Client, unsure \subseteq unsure',
           client' \in [Client -> Call], \A d \in Client : d # c => client'[d] = client[d],
           client'[c] = Idle \/ /\ client'[c].turns \subseteq client[c].turns
                                /\ Erases(client'[c]) <=> Erases(client[c])
    PROVE  Apart'
<1> SUFFICES ASSUME NEW a \in Client, NEW b \in Client, a # b
             PROVE  Overlap(client'[a], client'[b]) \subseteq unsure'
  BY DEF Apart, Overlap, Erases
<1>1. Overlap(client[a], client[b]) \subseteq unsure /\ Overlap(client[b], client[a]) \subseteq unsure
  BY DEF Apart
<1>2. CASE a # c /\ b # c
  BY <1>1, <1>2
<1>3. CASE client'[c] = Idle
  <2>1. \A k : Overlap(Idle, k) = {} /\ Overlap(k, Idle) = {}
    BY Kinds DEF Overlap, Idle, Erases
  <2> QED
    BY <1>1, <1>3, <2>1
<1>4. CASE a = c /\ client'[c] # Idle
  BY <1>1, <1>4 DEF Overlap
<1>5. CASE b = c /\ client'[c] # Idle
  BY <1>1, <1>5 DEF Overlap
<1> QED
  BY <1>2, <1>3, <1>4, <1>5

\* A call that begins marks what it overlaps.
LEMMA ApartBegun ==
    ASSUME FeedbackTypeOK, Apart, NEW c \in Client, client[c] = Idle, NEW k \in Call, Begin(c, k)
    PROVE  Apart'
<1>1. client \in [Client -> Call]
  BY DEF FeedbackTypeOK
<1>2. client'[c] = k /\ \A d \in Client : d # c => client'[d] = client[d]
  BY <1>1 DEF Begin
<1>3. ASSUME NEW d \in Client, d # c PROVE Overlap(k, client[d]) \subseteq unsure'
  <2>1. CASE client[d] = Idle
    BY <2>1 DEF Overlap, Idle, Erases
  <2>2. CASE client[d] # Idle
    BY <1>3, <2>2 DEF Begin, Working
  <2> QED
    BY <2>1, <2>2
<1>4. ASSUME NEW d \in Client, d # c PROVE Overlap(client[d], k) \subseteq unsure'
  BY <1>3, <1>4 DEF Overlap
<1> SUFFICES ASSUME NEW a \in Client, NEW b \in Client, a # b
             PROVE  Overlap(client'[a], client'[b]) \subseteq unsure'
  BY DEF Apart, Overlap, Erases
<1>5. CASE a # c /\ b # c
  <2>1. Overlap(client[a], client[b]) \subseteq unsure
    BY DEF Apart
  <2>2. unsure \subseteq unsure'
    BY DEF Begin
  <2> QED
    BY <2>1, <2>2, <1>2, <1>5
<1> QED
  BY <1>2, <1>3, <1>4, <1>5

\* A step of a call that leaves the queue, the file and the memory alone.
LEMMA Aside ==
    ASSUME FeedbackInv, NEW c \in Client,
           client' \in [Client -> Call], \A d \in Client : d # c => client'[d] = client[d],
           backend' = backend, queue' = queue, file' = file, rotated' = rotated, values' = values,
           erasures' \in Nat, erasures <= erasures', unsure \subseteq unsure',
           client[c].pc # "send", client'[c].pc \notin {"send", "show", "rewrite", "wait"},
           Leaving(c) \subseteq unsure',
           client'[c].pc \in Erasing => \/ client[c] = Idle /\ client'[c].id = erasures
                                        \/ /\ client[c].pc \in Erasing \ {"wait"}
                                           /\ client'[c].id = client[c].id
    PROVE  OneRewrite' /\ HeldIsKnown' /\ IngestedOK' /\ SnapshotCurrent' /\ FileAgrees'
<1> USE DEF FeedbackInv
<1>1. /\ Len(queue) \in Nat /\ DOMAIN queue = 1 .. Len(queue)
      /\ \A i \in DOMAIN queue : queue[i].op = "rewrite" => queue[i].id \in Nat
  BY BasesAre, Entries DEF Command
<1>2. /\ Bases' = Bases /\ Held' = Held /\ \A b, t : Read(b, t)' = Read(b, t)
  BY Unqueued
<1>3. \A d \in Client : d # c => Leaving(d)' = Leaving(d)
  BY DEF Leaving
<1>4. Leaving(c)' = {}
  BY DEF Leaving
<1>5. OneRewrite'
  <2> SUFFICES ASSUME NEW i \in DOMAIN queue, queue[i].op = "rewrite"
               PROVE  /\ queue[i].id < erasures'
                      /\ \A d \in Client : (client'[d].pc \in Erasing /\ Awaits(d, i)') =>
                            client'[d].pc = "wait" /\ \A j \in DOMAIN queue : Awaits(d, j)' => j = i
    BY DEF OneRewrite
  <2>1. /\ queue[i].id < erasures /\ queue[i].id \in Nat /\ erasures \in Nat
        /\ \A d \in Client : (client[d].pc \in Erasing /\ Awaits(d, i)) =>
              client[d].pc = "wait" /\ \A j \in DOMAIN queue : Awaits(d, j) => j = i
    BY <1>1 DEF OneRewrite, FeedbackTypeOK
  <2>2. queue[i].id < erasures'
    BY <2>1
  <2>3. ASSUME NEW d \in Client, client'[d].pc \in Erasing, Awaits(d, i)'
        PROVE  client'[d].pc = "wait" /\ \A j \in DOMAIN queue : Awaits(d, j)' => j = i
    <3>1. CASE d # c
      BY <2>1, <2>3, <3>1 DEF Awaits
    <3>2. CASE d = c
      <4>1. CASE client[c] = Idle /\ client'[c].id = erasures
        BY <2>1, <2>3, <3>2, <4>1 DEF Awaits
      <4>2. CASE client[c].pc \in Erasing \ {"wait"} /\ client'[c].id = client[c].id
        BY <2>1, <2>3, <3>2, <4>2 DEF Awaits
      <4> QED
        BY <2>3, <3>2, <4>1, <4>2
    <3> QED
      BY <3>1, <3>2
  <2> QED
    BY <2>2, <2>3
<1>6. HeldIsKnown'
  BY <1>2, <1>3 DEF HeldIsKnown
<1>7. IngestedOK'
  BY DEF IngestedOK, Sending, Showing, Now
<1>8. SnapshotCurrent'
  <2> SUFFICES ASSUME NEW d \in Client, client'[d].pc = "rewrite", NEW t \in Turn \ unsure'
               PROVE  Replay(client'[d].events)[t] = values'[t]
    BY DEF SnapshotCurrent
  <2> QED
    BY DEF SnapshotCurrent
<1>9. FileAgrees'
  <2> SUFFICES ASSUME backend = "file", NEW t \in Turn \ unsure', NEW b \in Bases, Counts(t, b)'
               PROVE  /\ (\A d \in Client : ~Sending(d, t)') => values[t] = Read(b, t)
                      /\ \A d \in Client : Sending(d, t)' =>
                            values[t] = Merge(Read(b, t), client'[d].signals)
    BY <1>2 DEF FileAgrees
  <2>1. Counts(t, b)
    BY <1>3 DEF Counts, Awaits
  <2>2. \A d \in Client : Sending(d, t)' <=> Sending(d, t)
    BY DEF Sending, Now
  <2>3. \A d \in Client : Sending(d, t) => client'[d].signals = client[d].signals
    BY DEF Sending
  <2> QED
    BY <2>1, <2>2, <2>3 DEF FileAgrees
<1> QED
  BY <1>5, <1>6, <1>7, <1>8, <1>9

\* The calls of the other clients stay sound.
LEMMA CallsKept ==
    ASSUME FeedbackTypeOK, CallsSound, NEW c \in Client,
           \A d \in Client : d # c => client'[d] = client[d],
           backend' = backend, erasures' \in Nat, erasures <= erasures', CallSound(client[c])'
    PROVE  CallsSound'
<1> SUFFICES ASSUME NEW d \in Client, d # c PROVE CallSound(client[d])'
  BY DEF CallsSound
<1>1. client[d].pc \in Erasing => client[d].id \in Nat /\ erasures \in Nat
  BY Calls DEF EraseCall, FeedbackTypeOK
<1>2. CallSound(client[d])
  BY DEF CallsSound
<1> QED
  BY <1>1, <1>2 DEF CallSound

\* A step of a call that changes nothing but itself.
LEMMA Quietly ==
    ASSUME FeedbackInv, NEW c \in Client,
           client' \in [Client -> Call], \A d \in Client : d # c => client'[d] = client[d],
           backend' = backend, queue' = queue, file' = file, rotated' = rotated, values' = values,
           shared' = shared, shown' = shown, unsure \subseteq unsure', erased' \subseteq erased,
           client'[c].pc \notin {"send", "show", "shared", "values", "rewrite", "wait"},
           client[c].pc \in {"send", "show"} => client[c].turns \subseteq unsure',
           client'[c].pc \in Posting => \A t \in client'[c].turns : t \notin erased',
           client'[c].pc = "store" /\ backend = "file" =>
               client'[c].signals = values[TurnOf[client'[c].record]]
    PROVE  ErasingOK' /\ ShownAgrees' /\ ErasedOK'
<1> USE DEF FeedbackInv
<1>1. Held' = Held
  BY Unqueued
<1>2. ErasingOK'
  <2> SUFFICES ASSUME NEW d \in Client, d # c, NEW t \in client[d].turns \ unsure'
               PROVE  /\ client[d].pc \in {"rewrite", "wait"} => values[t] = Nothing
                      /\ client[d].pc = "shared" /\ client[d].whole => values[t] = Nothing
                      /\ client[d].pc = "values" /\ backend = "redis" /\ ~client[d].whole => shared[t] = Nothing
                      /\ client[d].pc = "wait" =>
                            \A i, j \in DOMAIN queue : Awaits(d, i) /\ i <= j => t \notin Named(queue[j])
                      /\ client[d].pc \in {"shared", "values", "rewrite", "wait"} =>
                            \A r \in Record : TurnOf[r] = t => shown[r] = None
    BY DEF ErasingOK, Awaits, Named
  <2> QED
    BY DEF ErasingOK
<1>3. ShownAgrees'
  <2> SUFFICES ASSUME backend = "file"
               PROVE  /\ \A r \in Record :
                            (shown[r] # None /\ TurnOf[r] \notin unsure'
                             /\ \A d \in Client : ~Showing(d, TurnOf[r])') => shown[r] = values[TurnOf[r]]
                      /\ \A d \in Client :
                            (client'[d].pc = "store" /\ TurnOf[client'[d].record] \notin unsure')
                                => client'[d].signals = values[TurnOf[client'[d].record]]
    BY DEF ShownAgrees
  <2>1. ASSUME NEW r \in Record, shown[r] # None, TurnOf[r] \notin unsure',
               \A d \in Client : ~Showing(d, TurnOf[r])'
        PROVE  shown[r] = values[TurnOf[r]]
    <3>1. \A d \in Client : d # c => ~Showing(d, TurnOf[r])
      BY <2>1 DEF Showing, Now
    <3>2. ~Showing(c, TurnOf[r])
      <4> SUFFICES ASSUME Showing(c, TurnOf[r]) PROVE FALSE
        OBVIOUS
      <4>1. client[c].pc \in {"send", "show"} /\ TurnOf[r] = Now(client[c])
        BY DEF Showing
      <4>2. Now(client[c]) \in client[c].turns
        BY <4>1, NowIn DEF Posting
      <4> QED
        BY <4>1, <4>2, <2>1
    <3> QED
      BY <2>1, <3>1, <3>2 DEF ShownAgrees
  <2>2. ASSUME NEW d \in Client, client'[d].pc = "store", TurnOf[client'[d].record] \notin unsure'
        PROVE  client'[d].signals = values[TurnOf[client'[d].record]]
    BY <2>2 DEF ShownAgrees
  <2> QED
    BY <2>1, <2>2
<1>4. ErasedOK'
  <2> SUFFICES ASSUME NEW t \in erased'
               PROVE  /\ values[t] = Nothing /\ shared[t] = Nothing /\ t \notin Held
                      /\ \A d \in Client : /\ client'[d].pc \in Posting => t \notin client'[d].turns
                                           /\ client'[d].pc = "rewrite" => t \notin TurnsIn(client'[d].events)
    BY <1>1 DEF ErasedOK
  <2> QED
    BY DEF ErasedOK
<1> QED
  BY <1>2, <1>3, <1>4

-----------------------------------------------------------------------------
(* Signals that are posted.                                                  *)

\* What may be posted has a turn and signals.
LEMMA Postable ==
    /\ \A s \in Posted : s.turn \in Turn /\ DOMAIN s.signals # {}
    /\ \A call \in Posts : call \in Seq(Posted) /\ call # <<>>
<1>1. ASSUME NEW s \in Posted PROVE s.turn \in Turn /\ DOMAIN s.signals # {}
  BY FeedbackAssumption DEF Posted
<1>2. ASSUME NEW call \in Posts PROVE call \in Seq(Posted) /\ call # <<>>
  <2>1. ToSet(call) \subseteq Posted
    BY DEF Posted
  <2>2. call \in Seq(ToSet(call)) /\ call # <<>>
    BY FeedbackAssumption
  <2> QED
    BY <2>1, <2>2, SeqMonotonic
<1> QED
  BY <1>1, <1>2

\* A signal that is taken is a call of its own (ingest_feedback, main.rs).
LEMMA Ingested ==
    ASSUME FeedbackTypeOK, NEW todo \in Seq(Posted), todo # <<>>, Normal(Head(todo))
    PROVE  /\ Ingest(todo) \in PostCall /\ Ingest(todo) \in Call
           /\ Ingest(todo).pc \in {"merge", "upsert"} /\ Ingest(todo).todo = todo
           /\ Ingest(todo).pc = "merge" => backend = "redis"
           /\ Ingest(todo).signals # Nothing
           /\ Ingest(todo).turns = {s.turn : s \in ToSet(todo)}
           /\ \A i \in DOMAIN todo : todo[i].turn \in Ingest(todo).turns
<1> DEFINE s == Head(todo)
<1>1. s \in Posted /\ ToSet(todo) \subseteq Posted
  BY DEF ToSet
<1>2. {x.turn : x \in ToSet(todo)} \in SUBSET Turn
  BY <1>1, Postable
<1>3. DOMAIN Strengths(s) = DOMAIN s.signals /\ DOMAIN s.signals \subseteq SignalKind
  BY DEF Strengths, Normal
<1>4. Strengths(s) \in [DOMAIN s.signals -> 0 .. 10]
  BY DEF Normal, Range, Strengths
<1>5. Strengths(s) \in Signals /\ Strengths(s) # Nothing
  <2>1. Strengths(s) \in Signals
    BY <1>3, <1>4 DEF Signals
  <2> QED
    BY <2>1, <1>1, <1>3, Postable, SignalsAre
<1>6. Nothing \in Signals
  BY SignalsAre
<1>7. /\ Ingest(todo).pc = (IF backend = "redis" THEN "merge" ELSE "upsert")
      /\ Ingest(todo).turns = {x.turn : x \in ToSet(todo)}
      /\ Ingest(todo).signals = Strengths(s) /\ Ingest(todo).todo = todo
  BY DEF Ingest
<1>8. Ingest(todo) \in PostCall
  BY <1>2, <1>5, <1>6 DEF Ingest, PostCall, Posting
<1>9. \A i \in DOMAIN todo : todo[i].turn \in Ingest(todo).turns
  BY <1>7 DEF ToSet
<1> QED
  BY <1>5, <1>7, <1>8, <1>9 DEF Call

\* A post begins: it overlaps what is under way, and what it posts is erased no more.
LEMMA PostKeeps ==
    ASSUME FeedbackInv, NEW c \in Client, Post(c)
    PROVE  FeedbackInv'
<1> USE DEF FeedbackInv
<1>1. PICK todo \in Posts : /\ Normal(Head(todo))
                            /\ Begin(c, Ingest(todo))
                            /\ erased' = erased \ {s.turn : s \in ToSet(todo)}
  BY DEF Post
<1> DEFINE k == Ingest(todo)
<1>2. todo \in Seq(Posted) /\ todo # <<>>
  BY Postable
<1>3. /\ k \in PostCall /\ k \in Call /\ k.pc \in {"merge", "upsert"} /\ k.todo = todo
      /\ k.pc = "merge" => backend = "redis"
      /\ k.signals # Nothing /\ k.turns = {s.turn : s \in ToSet(todo)}
      /\ \A i \in DOMAIN todo : todo[i].turn \in k.turns
  BY <1>1, <1>2, Ingested
<1> HIDE DEF k
<1>4. /\ client[c] = Idle /\ client' = [client EXCEPT ![c] = k] /\ UNCHANGED <<stores, erasures>>
      /\ unsure' = unsure \cup UNION {Overlap(k, client[d]) : d \in Working \ {c}}
  BY <1>1 DEF Post, Begin, k
<1>5. /\ client' \in [Client -> Call] /\ client'[c] = k
      /\ \A d \in Client : d # c => client'[d] = client[d]
  BY <1>3, <1>4 DEF FeedbackTypeOK
<1>6. unsure' \in SUBSET Turn /\ unsure \subseteq unsure'
  <2>1. \A d \in Client : Overlap(k, client[d]) \subseteq Turn
    BY <1>3, Kinds, Calls DEF Overlap
  <2> QED
    BY <2>1, <1>4 DEF Working, FeedbackTypeOK
<1>7. /\ client[c].pc = "idle" /\ client[c].turns = {} /\ Leaving(c) = {} /\ client'[c].pc \notin Erasing
  BY <1>3, <1>4, <1>5 DEF Idle, Leaving, Erasing
<1>8. FeedbackTypeOK' /\ Elsewhere'
  BY <1>1, <1>4, <1>5, <1>6 DEF FeedbackTypeOK, Elsewhere, stores
<1>9. CallsSound'
  <2>1. CallSound(client[c])'
    BY <1>3, <1>4, <1>5 DEF CallSound, Posting, Erasing, stores
  <2> QED
    BY <2>1, <1>4, <1>5, CallsKept DEF FeedbackTypeOK, stores
<1>10. Apart'
  BY <1>1, <1>3, <1>4, ApartBegun DEF k
<1>11. OneRewrite' /\ HeldIsKnown' /\ IngestedOK' /\ SnapshotCurrent' /\ FileAgrees'
  <2>1. /\ backend' = backend /\ queue' = queue /\ file' = file /\ rotated' = rotated
        /\ values' = values /\ erasures' = erasures
    BY <1>4 DEF stores
  <2>2. erasures' \in Nat /\ erasures <= erasures'
    BY <2>1 DEF FeedbackTypeOK
  <2>3. client[c].pc # "send" /\ client'[c].pc \notin {"send", "show", "rewrite", "wait"}
    BY <1>3, <1>5, <1>7
  <2> QED
    BY <2>1, <2>2, <2>3, <1>5, <1>6, <1>7, Aside
<1>12. ErasingOK' /\ ShownAgrees' /\ ErasedOK'
  <2>1. \A t \in k.turns : t \notin erased'
    BY <1>1, <1>3
  <2>2. erased' \subseteq erased
    BY <1>1
  <2> QED
    BY <2>1, <2>2, <1>3, <1>4, <1>5, <1>6, <1>7, Quietly DEF stores
<1> QED
  BY <1>8, <1>9, <1>10, <1>11, <1>12

\* The script merges into Redis, where nothing the file promises is.
LEMMA MergeSharedKeeps ==
    ASSUME FeedbackInv, NEW c \in Client, MergeShared(c)
    PROVE  FeedbackInv'
<1> USE DEF FeedbackInv
<1> DEFINE now == Now(client[c])
<1>1. /\ client[c].pc = "merge" /\ client' = [client EXCEPT ![c].pc = "read"]
      /\ shared' = [shared EXCEPT ![now] = Merge(@, client[c].signals)]
      /\ UNCHANGED <<backend, values, queue, file, rotated, shown, counters, unsure, erased>>
  BY DEF MergeShared, Goto, Now
<1>2. /\ client[c] \in PostCall /\ now \in client[c].turns /\ now \in Turn
      /\ client[c].signals \in Signals /\ backend = "redis"
  BY <1>1, Calls, NowIn DEF Posting, CallsSound, CallSound
<1>3. /\ client'[c] = [client[c] EXCEPT !.pc = "read"] /\ client'[c] \in PostCall
      /\ client' \in [Client -> Call] /\ \A d \in Client : d # c => client'[d] = client[d]
  <2>1. [client[c] EXCEPT !.pc = "read"] \in PostCall
    BY <1>2 DEF PostCall, Posting
  <2> QED
    BY <1>1, <2>1 DEF FeedbackTypeOK, Call
<1>4. client'[c].pc = "read" /\ client'[c].turns = client[c].turns /\ client'[c].todo = client[c].todo
  BY <1>2, <1>3 DEF PostCall
<1>5. shared' \in [Turn -> Signals] /\ \A t \in Turn : t # now => shared'[t] = shared[t]
  BY <1>1, <1>2, MergeIs DEF FeedbackTypeOK
<1> HIDE DEF now
<1>6. FeedbackTypeOK' /\ Elsewhere'
  BY <1>1, <1>2, <1>3, <1>5 DEF FeedbackTypeOK, Elsewhere, counters
<1>7. CallsSound'
  <2>1. CallSound(client[c])'
    BY <1>1, <1>2, <1>4 DEF CallsSound, CallSound, Posting, Erasing
  <2>2. erasures' \in Nat /\ erasures <= erasures'
    BY <1>1 DEF counters, FeedbackTypeOK
  <2> QED
    BY <2>1, <2>2, <1>1, <1>3, CallsKept
<1>8. Apart'
  BY <1>1, <1>3, <1>4, ApartKept DEF Erases
<1>9. OneRewrite' /\ HeldIsKnown' /\ IngestedOK' /\ SnapshotCurrent' /\ FileAgrees'
  <2>1. erasures' \in Nat /\ erasures <= erasures' /\ Leaving(c) = {}
    BY <1>1 DEF counters, FeedbackTypeOK, Leaving
  <2> QED
    BY <2>1, <1>1, <1>3, <1>4, Aside DEF Erasing
<1>10. ErasingOK'
  <2> SUFFICES ASSUME NEW d \in Client, NEW t \in client'[d].turns \ unsure, client'[d].pc \in Erasing
               PROVE  /\ client'[d].pc \in {"rewrite", "wait"} => values[t] = Nothing
                      /\ client'[d].pc = "shared" /\ client'[d].whole => values[t] = Nothing
                      /\ client'[d].pc = "values" /\ backend = "redis" /\ ~client'[d].whole
                            => shared'[t] = Nothing
                      /\ client'[d].pc = "wait" =>
                            \A i, j \in DOMAIN queue : Awaits(d, i)' /\ i <= j => t \notin Named(queue[j])
                      /\ client'[d].pc \in {"shared", "values", "rewrite", "wait"} =>
                            \A r \in Record : TurnOf[r] = t => shown[r] = None
    BY <1>1 DEF ErasingOK, Named, Erasing
  <2>1. d # c /\ client'[d] = client[d]
    BY <1>3, <1>4 DEF Erasing
  <2>2. t # now
    BY <2>1, <1>2, Alone
  <2>3. t \in Turn
    BY <2>1, Calls
  <2> QED
    BY <2>1, <2>2, <2>3, <1>1, <1>5 DEF ErasingOK, Awaits
<1>11. ShownAgrees'
  BY <1>1, <1>2 DEF ShownAgrees
<1>12. ErasedOK'
  <2>1. Held' = Held
    BY <1>1, Unqueued
  <2> SUFFICES ASSUME NEW t \in erased
               PROVE  /\ values[t] = Nothing /\ shared'[t] = Nothing /\ t \notin Held
                      /\ \A d \in Client : /\ client'[d].pc \in Posting => t \notin client'[d].turns
                                           /\ client'[d].pc = "rewrite" => t \notin TurnsIn(client'[d].events)
    BY <1>1, <2>1 DEF ErasedOK
  <2>2. t # now /\ t \in Turn
    BY <1>1, <1>2 DEF ErasedOK, Posting, FeedbackTypeOK
  <2> QED
    BY <2>2, <1>1, <1>3, <1>4, <1>5 DEF ErasedOK, Posting
<1> QED
  BY <1>6, <1>7, <1>8, <1>9, <1>10, <1>11, <1>12

\* The turn read back from Redis is signals.
LEMMA ReadBackKeeps ==
    ASSUME FeedbackInv, NEW c \in Client, ReadBack(c)
    PROVE  FeedbackInv'
<1> USE DEF FeedbackInv
<1> DEFINE now == Now(client[c])
<1>1. /\ client[c].pc = "read"
      /\ client' = [client EXCEPT ![c].pc = "upsert", ![c].signals = shared[now]]
      /\ UNCHANGED <<stores, counters, unsure, erased>>
  BY DEF ReadBack, Now
<1>2. client[c] \in PostCall /\ now \in Turn /\ shared[now] \in Signals /\ backend = "redis"
  BY <1>1, Calls, NowIn DEF Posting, CallsSound, CallSound, FeedbackTypeOK
<1> HIDE DEF now
<1>3. /\ client'[c] = [client[c] EXCEPT !.pc = "upsert", !.signals = shared[now]]
      /\ client'[c] \in PostCall
      /\ client' \in [Client -> Call] /\ \A d \in Client : d # c => client'[d] = client[d]
  <2>1. [client[c] EXCEPT !.pc = "upsert", !.signals = shared[now]] \in PostCall
    BY <1>2 DEF PostCall, Posting
  <2> QED
    BY <1>1, <2>1 DEF FeedbackTypeOK, Call
<1>4. client'[c].pc = "upsert" /\ client'[c].turns = client[c].turns /\ client'[c].todo = client[c].todo
  BY <1>2, <1>3 DEF PostCall
<1>5. FeedbackTypeOK' /\ Elsewhere'
  BY <1>1, <1>2, <1>3 DEF FeedbackTypeOK, Elsewhere, counters, stores
<1>6. CallsSound'
  <2>1. CallSound(client[c])'
    BY <1>1, <1>2, <1>4 DEF CallsSound, CallSound, Posting, Erasing, stores
  <2>2. backend' = backend /\ erasures' \in Nat /\ erasures <= erasures'
    BY <1>1 DEF counters, stores, FeedbackTypeOK
  <2> QED
    BY <2>1, <2>2, <1>3, CallsKept
<1>7. Apart'
  BY <1>1, <1>3, <1>4, ApartKept DEF Erases
<1>8. OneRewrite' /\ HeldIsKnown' /\ IngestedOK' /\ SnapshotCurrent' /\ FileAgrees'
  <2>1. erasures' \in Nat /\ erasures <= erasures' /\ Leaving(c) = {}
    BY <1>1 DEF counters, FeedbackTypeOK, Leaving
  <2> QED
    BY <2>1, <1>1, <1>3, <1>4, Aside DEF Erasing, stores
<1>9. ErasingOK' /\ ShownAgrees' /\ ErasedOK'
  <2>1. \A t \in client'[c].turns : t \notin erased'
    BY <1>1, <1>4 DEF ErasedOK, Posting
  <2> QED
    BY <2>1, <1>1, <1>3, <1>4, Quietly DEF stores
<1> QED
  BY <1>5, <1>6, <1>7, <1>8, <1>9

\* Memory is ahead of the file by the signals the call is about to send.
LEMMA UpsertKeeps ==
    ASSUME FeedbackInv, NEW c \in Client, Upsert(c)
    PROVE  FeedbackInv'
<1> USE DEF FeedbackInv
<1> DEFINE now == Now(client[c])
<1>1. /\ client[c].pc = "upsert"
      /\ values' = [values EXCEPT ![now] = Merge(@, client[c].signals)]
      /\ client' = [client EXCEPT ![c].pc = "send", ![c].merged = values'[now]]
      /\ UNCHANGED <<backend, shared, queue, file, rotated, shown, counters, unsure, erased>>
  BY DEF Upsert, Now
<1>0. UNCHANGED <<backend, shared, queue, file, rotated, shown, unsure, erased, erasures>>
  BY <1>1 DEF counters
<1>2. /\ client[c] \in PostCall /\ now \in client[c].turns /\ now \in Turn
      /\ client[c].signals \in Signals
      /\ backend = "file" => client[c].signals # Nothing
  BY <1>1, Calls, NowIn DEF Posting, CallsSound, CallSound
<1>3. /\ values' \in [Turn -> Signals] /\ values'[now] = Merge(values[now], client[c].signals)
      /\ \A t \in Turn : t # now => values'[t] = values[t]
      /\ client[c].signals # Nothing => values'[now] # Nothing
      /\ values[now] # Nothing => values'[now] # Nothing
  BY <1>1, <1>2, MergeIs DEF FeedbackTypeOK
<1>4. /\ client'[c] = [client[c] EXCEPT !.pc = "send", !.merged = values'[now]]
      /\ client'[c] \in PostCall
      /\ client' \in [Client -> Call] /\ \A d \in Client : d # c => client'[d] = client[d]
  <2>1. [client[c] EXCEPT !.pc = "send", !.merged = values'[now]] \in PostCall
    BY <1>2, <1>3 DEF PostCall, Posting
  <2> QED
    BY <1>1, <2>1 DEF FeedbackTypeOK, Call
<1>5. /\ client'[c].pc = "send" /\ client'[c].turns = client[c].turns
      /\ client'[c].todo = client[c].todo /\ client'[c].signals = client[c].signals
      /\ client'[c].merged = values'[now]
  BY <1>2, <1>4 DEF PostCall
<1>6. now \notin unsure => \A d \in Client : d # c => now \notin client[d].turns /\ client[d].pc \notin Erasing
  BY <1>2, Alone
<1>7. \A d \in Client : client[d].pc \in Posting => Now(client[d]) \in client[d].turns
  BY NowIn
<1>8. \A t : Showing(c, t)' <=> t = now
  BY <1>5 DEF Showing, Now
<1>9. \A t : Sending(c, t)' <=> t = now
  BY <1>5 DEF Sending, Now
<1>10. \A d \in Client : \A t : d # c => /\ Sending(d, t)' <=> Sending(d, t)
                                         /\ Showing(d, t)' <=> Showing(d, t)
  BY <1>4 DEF Sending, Showing, Now
<1>11. /\ \A t : ~Sending(c, t) /\ ~Showing(c, t)
       /\ now \notin unsure => \A d \in Client : d # c => ~Sending(d, now) /\ ~Showing(d, now)
  BY <1>1, <1>6, <1>7 DEF Sending, Showing, Posting
<1>12. /\ Bases' = Bases /\ Held' = Held /\ \A b, t : Read(b, t)' = Read(b, t)
  BY <1>1, Unqueued
<1>13. \A d \in Client : Leaving(d)' = Leaving(d)
  BY <1>1, <1>4, <1>5 DEF Leaving
<1> HIDE DEF now
<1>14. FeedbackTypeOK' /\ Elsewhere'
  BY <1>1, <1>3, <1>4 DEF FeedbackTypeOK, Elsewhere, counters
<1>15. CallsSound'
  <2>1. CallSound(client[c])'
    BY <1>1, <1>2, <1>5 DEF CallsSound, CallSound, Posting, Erasing
  <2>2. backend' = backend /\ erasures' \in Nat /\ erasures <= erasures'
    BY <1>1 DEF counters, FeedbackTypeOK
  <2> QED
    BY <2>1, <2>2, <1>4, CallsKept
<1>16. Apart'
  BY <1>1, <1>4, <1>5, ApartKept DEF Erases
<1>17. OneRewrite'
  <2>1. \A d \in Client : \A i : client'[d].pc \in Erasing => d # c /\ Awaits(d, i)' = Awaits(d, i)
    BY <1>1, <1>4, <1>5 DEF Awaits, Erasing
  <2> QED
    BY <2>1, <1>1, <1>4 DEF OneRewrite, counters
<1>18. HeldIsKnown'
  BY <1>1, <1>3, <1>12, <1>13 DEF HeldIsKnown, Held, FeedbackTypeOK
<1>19. IngestedOK'
  <2> SUFFICES ASSUME NEW d \in Client, NEW t \in Turn \ unsure
               PROVE  /\ backend = "file" /\ Sending(d, t)' => values'[t] # Nothing
                      /\ Showing(d, t)' => client'[d].merged = values'[t]
    BY <1>1 DEF IngestedOK
  <2>1. CASE d = c
    BY <2>1, <1>2, <1>3, <1>5, <1>8, <1>9
  <2>2. CASE d # c
    BY <2>2, <1>3, <1>4, <1>10, <1>11 DEF IngestedOK
  <2> QED
    BY <2>1, <2>2
<1>20. ErasingOK'
  <2> SUFFICES ASSUME NEW d \in Client, NEW t \in client'[d].turns \ unsure, client'[d].pc \in Erasing
               PROVE  /\ client'[d].pc \in {"rewrite", "wait"} => values'[t] = Nothing
                      /\ client'[d].pc = "shared" /\ client'[d].whole => values'[t] = Nothing
                      /\ client'[d].pc = "values" /\ backend = "redis" /\ ~client'[d].whole
                            => shared[t] = Nothing
                      /\ client'[d].pc = "wait" =>
                            \A i, j \in DOMAIN queue : Awaits(d, i)' /\ i <= j => t \notin Named(queue[j])
                      /\ client'[d].pc \in {"shared", "values", "rewrite", "wait"} =>
                            \A r \in Record : TurnOf[r] = t => shown[r] = None
    BY <1>0 DEF ErasingOK, Named, Erasing
  <2>1. d # c /\ client'[d] = client[d]
    BY <1>4, <1>5 DEF Erasing
  <2>2. t # now
    BY <2>1, <1>6
  <2>3. t \in Turn /\ values'[t] = values[t]
    BY <2>1, <2>2, <1>3, Calls
  <2> QED
    BY <2>1, <2>3, <1>1 DEF ErasingOK, Awaits
<1>21. SnapshotCurrent'
  <2> SUFFICES ASSUME NEW d \in Client, client'[d].pc = "rewrite", NEW t \in Turn \ unsure
               PROVE  Replay(client'[d].events)[t] = values'[t]
    BY <1>1 DEF SnapshotCurrent
  <2>1. d # c /\ client'[d] = client[d]
    BY <1>4, <1>5
  <2>2. t # now
    BY <2>1, <1>6 DEF Erasing
  <2> QED
    BY <2>1, <2>2, <1>3 DEF SnapshotCurrent
<1>22. FileAgrees'
  <2> SUFFICES ASSUME backend = "file", NEW t \in Turn \ unsure, NEW b \in Bases, Counts(t, b)'
               PROVE  /\ (\A d \in Client : ~Sending(d, t)') => values'[t] = Read(b, t)
                      /\ \A d \in Client : Sending(d, t)' =>
                            values'[t] = Merge(Read(b, t), client'[d].signals)
    BY <1>0, <1>12 DEF FileAgrees
  <2>1. Counts(t, b)
    <3>1. \A d \in Client : \A i : t \in Leaving(d) => client'[d].pc = client[d].pc /\ Awaits(d, i)' = Awaits(d, i)
      BY <1>1, <1>4 DEF Leaving, Awaits
    <3> QED
      BY <3>1, <1>1, <1>13 DEF Counts
  <2>2. CASE t = now
    <3>1. values[now] = Read(b, now)
      BY <2>1, <2>2, <1>11 DEF FileAgrees
    <3>2. values'[now] = Merge(Read(b, now), client'[c].signals)
      BY <3>1, <1>3, <1>5
    <3> QED
      BY <3>2, <2>2, <1>9, <1>10, <1>11
  <2>3. CASE t # now
    <3>1. \A d \in Client : Sending(d, t)' <=> Sending(d, t)
      BY <2>3, <1>9, <1>10, <1>11
    <3> QED
      BY <3>1, <2>1, <2>3, <1>3, <1>4, <1>9 DEF FileAgrees
  <2> QED
    BY <2>2, <2>3
<1>23. ShownAgrees'
  <2> SUFFICES ASSUME backend = "file"
               PROVE  /\ \A r \in Record :
                            (shown[r] # None /\ TurnOf[r] \notin unsure
                             /\ \A d \in Client : ~Showing(d, TurnOf[r])') => shown[r] = values'[TurnOf[r]]
                      /\ \A d \in Client :
                            (client'[d].pc = "store" /\ TurnOf[client'[d].record] \notin unsure)
                                => client'[d].signals = values'[TurnOf[client'[d].record]]
    BY <1>1 DEF ShownAgrees
  <2>0. \A r \in Record : TurnOf[r] \in Turn
    BY FeedbackAssumption
  <2>1. ASSUME NEW r \in Record, shown[r] # None, TurnOf[r] \notin unsure,
               \A d \in Client : ~Showing(d, TurnOf[r])'
        PROVE  shown[r] = values'[TurnOf[r]]
    <3>1. TurnOf[r] # now
      BY <2>1, <1>8
    <3>2. \A d \in Client : ~Showing(d, TurnOf[r])
      BY <2>1, <1>10, <1>11
    <3> QED
      BY <3>1, <3>2, <2>0, <2>1, <1>3 DEF ShownAgrees
  <2>2. ASSUME NEW d \in Client, client'[d].pc = "store", TurnOf[client'[d].record] \notin unsure
        PROVE  client'[d].signals = values'[TurnOf[client'[d].record]]
    <3>1. d # c /\ client'[d] = client[d]
      BY <2>2, <1>4, <1>5
    <3>2. client[d].record \in Record /\ TurnOf[client[d].record] \in client[d].turns
      BY <2>2, <3>1, Calls DEF StoreCall, CallsSound, CallSound
    <3>3. TurnOf[client[d].record] # now
      BY <2>2, <3>1, <3>2, <1>6
    <3> QED
      BY <2>0, <2>2, <3>1, <3>2, <3>3, <1>3 DEF ShownAgrees
  <2> QED
    BY <2>1, <2>2
<1>24. ErasedOK'
  <2> SUFFICES ASSUME NEW t \in erased
               PROVE  /\ values'[t] = Nothing /\ shared[t] = Nothing /\ t \notin Held
                      /\ \A d \in Client : /\ client'[d].pc \in Posting => t \notin client'[d].turns
                                           /\ client'[d].pc = "rewrite" => t \notin TurnsIn(client'[d].events)
    BY <1>1, <1>12 DEF ErasedOK
  <2>1. t # now /\ t \in Turn
    BY <1>1, <1>2 DEF ErasedOK, Posting, FeedbackTypeOK
  <2> QED
    BY <2>1, <1>1, <1>3, <1>4, <1>5 DEF ErasedOK, Posting
<1> QED
  BY <1>14, <1>15, <1>16, <1>17, <1>18, <1>19, <1>20, <1>21, <1>22, <1>23, <1>24

\* An event is queued, dropped, or there is no file to write it to.
LEMMA SendCases ==
    ASSUME FeedbackInv, NEW c \in Client, Send(c)
    PROVE  LET now == Now(client[c])
               e == FeedbackEvent(now, client[c].signals)
           IN  \/ backend = "file" /\ e \in Event /\ queue' = Append(queue, e) /\ unsure' = unsure
               \/ backend = "file" /\ queue' = queue /\ unsure' = unsure \cup {now}
               \/ backend # "file" /\ queue' = queue /\ unsure' = unsure
<1> USE DEF FeedbackInv
<1>1. client[c].pc = "send"
  BY DEF Send
<1>2. /\ Now(client[c]) \in Turn /\ client[c].signals \in Signals
      /\ backend = "file" => client[c].signals # Nothing
  BY <1>1, NowIn DEF Posting, CallsSound, CallSound
<1>3. backend = "file" => FeedbackEvent(Now(client[c]), client[c].signals) \in Event
  BY <1>2 DEF FeedbackEvent, Event
<1> QED
  BY <1>3 DEF Send, Now

\* The event that is queued brings the file level, or its turn is unsure.
LEMMA SendKeeps ==
    ASSUME FeedbackInv, NEW c \in Client, Send(c)
    PROVE  FeedbackInv'
<1> USE DEF FeedbackInv
<1> DEFINE now == Now(client[c])
           e == FeedbackEvent(now, client[c].signals)
<1>1. /\ client[c].pc = "send" /\ client' = [client EXCEPT ![c].pc = "show"]
      /\ UNCHANGED <<backend, values, shared, file, rotated, shown, counters, erased>>
  BY DEF Send, Goto
<1>0. UNCHANGED <<backend, values, shared, file, rotated, shown, erased, erasures>>
  BY <1>1 DEF counters
<1>2. /\ client[c] \in PostCall /\ now \in client[c].turns /\ now \in Turn
      /\ client[c].signals \in Signals
  BY <1>1, Calls, NowIn DEF Posting
<1>3. \/ backend = "file" /\ e \in Event /\ queue' = Append(queue, e) /\ unsure' = unsure
      \/ backend = "file" /\ queue' = queue /\ unsure' = unsure \cup {now}
      \/ backend # "file" /\ queue' = queue /\ unsure' = unsure
  BY SendCases
<1>4. e.op = "append" /\ e.turn = now /\ e.signals = client[c].signals
  BY DEF FeedbackEvent
<1>5. /\ client'[c] = [client[c] EXCEPT !.pc = "show"] /\ client'[c] \in PostCall
      /\ client' \in [Client -> Call] /\ \A d \in Client : d # c => client'[d] = client[d]
  <2>1. [client[c] EXCEPT !.pc = "show"] \in PostCall
    BY <1>2 DEF PostCall, Posting
  <2> QED
    BY <1>1, <2>1 DEF FeedbackTypeOK, Call
<1>6. /\ client'[c].pc = "show" /\ client'[c].turns = client[c].turns
      /\ client'[c].todo = client[c].todo /\ client'[c].merged = client[c].merged
  BY <1>2, <1>5 DEF PostCall
<1>7. now \notin unsure => \A d \in Client : d # c => now \notin client[d].turns /\ client[d].pc \notin Erasing
  BY <1>2, Alone
<1>8. \A t : ~Sending(c, t)' /\ (Showing(c, t)' <=> t = now) /\ (Sending(c, t) <=> t = now)
             /\ (Showing(c, t) <=> t = now)
  BY <1>1, <1>6 DEF Showing, Sending, Now
<1>9. \A d \in Client : \A t : d # c => /\ Sending(d, t)' <=> Sending(d, t)
                                        /\ Showing(d, t)' <=> Showing(d, t)
  BY <1>5 DEF Sending, Showing, Now
<1>10. now \notin unsure => \A d \in Client : d # c => ~Sending(d, now)
  BY <1>7, NowIn DEF Sending, Posting
<1>11. \A d \in Client : Leaving(d)' = Leaving(d)
  BY <1>1, <1>5, <1>6 DEF Leaving
<1>12. unsure \subseteq unsure' /\ unsure' \in SUBSET Turn
  BY <1>2, <1>3 DEF FeedbackTypeOK
<1>13. \A d \in Client : client'[d].pc \in Erasing => d # c /\ client'[d] = client[d]
  BY <1>5, <1>6 DEF Erasing
<1> HIDE DEF now, e
<1>14. CallsSound'
  <2>1. CallSound(client[c])'
    BY <1>0, <1>1, <1>2, <1>6 DEF CallsSound, CallSound, Posting, Erasing
  <2>2. backend' = backend /\ erasures' \in Nat /\ erasures <= erasures'
    BY <1>0 DEF FeedbackTypeOK
  <2> QED
    BY <2>1, <2>2, <1>5, CallsKept
<1>15. Apart'
  BY <1>1, <1>5, <1>6, <1>12, ApartKept DEF Erases
<1>16. IngestedOK'
  <2> SUFFICES ASSUME NEW d \in Client, NEW t \in Turn \ unsure'
               PROVE  /\ backend = "file" /\ Sending(d, t)' => values[t] # Nothing
                      /\ Showing(d, t)' => client'[d].merged = values[t]
    BY <1>0 DEF IngestedOK
  <2>1. CASE d = c
    BY <2>1, <1>6, <1>8, <1>12 DEF IngestedOK
  <2>2. CASE d # c
    BY <2>2, <1>5, <1>9, <1>12 DEF IngestedOK
  <2> QED
    BY <2>1, <2>2
<1>17. SnapshotCurrent'
  <2> SUFFICES ASSUME NEW d \in Client, client'[d].pc = "rewrite", NEW t \in Turn \ unsure'
               PROVE  Replay(client'[d].events)[t] = values[t]
    BY <1>0 DEF SnapshotCurrent
  <2>1. client'[d] = client[d]
    BY <1>13 DEF Erasing
  <2> QED
    BY <2>1, <1>12 DEF SnapshotCurrent
<1>18. ShownAgrees'
  <2> SUFFICES ASSUME backend = "file"
               PROVE  /\ \A r \in Record :
                            (shown[r] # None /\ TurnOf[r] \notin unsure'
                             /\ \A d \in Client : ~Showing(d, TurnOf[r])') => shown[r] = values[TurnOf[r]]
                      /\ \A d \in Client :
                            (client'[d].pc = "store" /\ TurnOf[client'[d].record] \notin unsure')
                                => client'[d].signals = values[TurnOf[client'[d].record]]
    BY <1>0 DEF ShownAgrees
  <2>1. \A d \in Client : client'[d].pc = "store" => client'[d] = client[d]
    BY <1>5, <1>6
  <2>2. \A d \in Client : \A t : Showing(d, t)' <=> Showing(d, t)
    BY <1>8, <1>9
  <2> QED
    BY <2>1, <2>2, <1>12 DEF ShownAgrees
<1>19. \A t \in erased : t # now /\ t \in Turn
  BY <1>1, <1>2 DEF ErasedOK, Posting, FeedbackTypeOK
<1>20. CASE queue' = queue
  <2>1. /\ Bases' = Bases /\ Held' = Held /\ \A b, t : Read(b, t)' = Read(b, t)
    BY <1>0, <1>20, Unqueued
  <2>2. FeedbackTypeOK' /\ Elsewhere'
    BY <1>0, <1>1, <1>5, <1>12, <1>20 DEF FeedbackTypeOK, Elsewhere
  <2>3. OneRewrite'
    <3>1. \A d \in Client : \A i : client'[d].pc \in Erasing => client'[d] = client[d] /\ Awaits(d, i)' = Awaits(d, i)
      BY <1>13, <1>20 DEF Awaits
    <3> QED
      BY <3>1, <1>0, <1>20 DEF OneRewrite
  <2>4. HeldIsKnown'
    BY <1>0, <1>11, <1>12, <2>1 DEF HeldIsKnown
  <2>5. ErasingOK'
    <3> SUFFICES ASSUME NEW d \in Client, NEW t \in client'[d].turns \ unsure', client'[d].pc \in Erasing
                 PROVE  /\ client'[d].pc \in {"rewrite", "wait"} => values[t] = Nothing
                        /\ client'[d].pc = "shared" /\ client'[d].whole => values[t] = Nothing
                        /\ client'[d].pc = "values" /\ backend = "redis" /\ ~client'[d].whole
                              => shared[t] = Nothing
                        /\ client'[d].pc = "wait" =>
                              \A i, j \in DOMAIN queue : Awaits(d, i)' /\ i <= j => t \notin Named(queue[j])
                        /\ client'[d].pc \in {"shared", "values", "rewrite", "wait"} =>
                              \A r \in Record : TurnOf[r] = t => shown[r] = None
      BY <1>0, <1>20 DEF ErasingOK, Named, Erasing
    <3>1. client'[d] = client[d]
      BY <1>13
    <3> QED
      BY <3>1, <1>12, <1>20 DEF ErasingOK, Awaits
  <2>6. FileAgrees'
    <3> SUFFICES ASSUME backend = "file", NEW t \in Turn \ unsure', NEW b \in Bases, Counts(t, b)'
                 PROVE  /\ (\A d \in Client : ~Sending(d, t)') => values[t] = Read(b, t)
                        /\ \A d \in Client : Sending(d, t)' =>
                              values[t] = Merge(Read(b, t), client'[d].signals)
      BY <1>0, <2>1 DEF FileAgrees
    <3>1. t # now
      <4>1. queue # Append(queue, e)
        BY DEF FeedbackTypeOK
      <4> QED
        BY <4>1, <1>3, <1>20
    <3>2. Counts(t, b)
      <4>1. \A d \in Client : \A i : t \in Leaving(d) => client'[d].pc = client[d].pc /\ Awaits(d, i)' = Awaits(d, i)
        BY <1>1, <1>5, <1>20 DEF Leaving, Awaits
      <4> QED
        BY <4>1, <1>0, <1>11, <1>20 DEF Counts
    <3>3. \A d \in Client : Sending(d, t)' <=> Sending(d, t)
      BY <3>1, <1>8, <1>9
    <3>4. \A d \in Client : Sending(d, t)' => client'[d].signals = client[d].signals
      BY <1>5, <1>8
    <3> QED
      BY <3>2, <3>3, <3>4, <1>12 DEF FileAgrees
  <2>7. ErasedOK'
    <3> SUFFICES ASSUME NEW t \in erased
                 PROVE  /\ values[t] = Nothing /\ shared[t] = Nothing /\ t \notin Held
                        /\ \A d \in Client : /\ client'[d].pc \in Posting => t \notin client'[d].turns
                                             /\ client'[d].pc = "rewrite" => t \notin TurnsIn(client'[d].events)
      BY <1>0, <2>1 DEF ErasedOK
    <3> QED
      BY <1>1, <1>5, <1>6 DEF ErasedOK, Posting
  <2> QED
    BY <2>2, <2>3, <2>4, <2>5, <2>6, <2>7, <1>14, <1>15, <1>16, <1>17, <1>18
<1>21. CASE queue' = Append(queue, e) /\ e \in Event /\ backend = "file" /\ unsure' = unsure
  <2>n. PICK n \in Nat : n = Len(queue)
    BY BasesAre
  <2>0. e \in Command /\ e \in Entry /\ n \in Nat /\ DOMAIN queue = 1 .. n
    BY <1>21, <2>n, Entries, BasesAre DEF Command
  <2>1. /\ Len(queue') = n + 1 /\ DOMAIN queue' = 1 .. (n + 1)
        /\ \A i \in 1 .. n : queue'[i] = queue[i]
        /\ queue'[n + 1] = e
        /\ queue' \in Seq(Command)
        /\ Bases' = Bases
        /\ \A b \in Bases, t \in Turn : Read(b, t)' = Merge(Read(b, t), Replay(<<e>>)[t])
        /\ Held' = Held \cup {now}
    <3>1. /\ Len(queue') = n + 1 /\ DOMAIN queue' = 1 .. (n + 1)
          /\ \A i \in 1 .. n : queue'[i] = queue[i]
          /\ queue'[n + 1] = e
          /\ queue' \in Seq(Command)
          /\ Bases' = Bases \cup (IF e.op = "rewrite" THEN {n + 1} ELSE {})
          /\ \A b \in Bases, t \in Turn : Read(b, t)' = Merge(Read(b, t), Replay(<<e>>)[t])
          /\ rotated' = rotated => Held' = Held \cup Named(e)
      BY <2>0, <2>n, <1>0, <1>21, Queued
    <3> QED
      BY <3>1, <1>0, <1>4 DEF Named
  <2>2. FeedbackTypeOK' /\ Elsewhere'
    BY <1>0, <1>1, <1>5, <1>12, <1>21, <2>1 DEF FeedbackTypeOK, Elsewhere
  <2>3. /\ \A d \in Client : ~Awaits(d, n + 1)'
        /\ \A d \in Client, i \in 1 .. n : client'[d].pc \in Erasing =>
              client'[d] = client[d] /\ Awaits(d, i)' = Awaits(d, i)
    BY <1>4, <1>13, <2>1 DEF Awaits
  <2>4. OneRewrite'
    <3> SUFFICES ASSUME NEW i \in 1 .. (n + 1), queue'[i].op = "rewrite"
                 PROVE  /\ queue'[i].id < erasures
                        /\ \A d \in Client : (client'[d].pc \in Erasing /\ Awaits(d, i)') =>
                              client'[d].pc = "wait" /\ \A j \in 1 .. (n + 1) : Awaits(d, j)' => j = i
      BY <1>0, <2>1 DEF OneRewrite
    <3>1. i \in 1 .. n /\ queue[i].op = "rewrite" /\ queue'[i] = queue[i]
      BY <1>4, <2>0, <2>1
    <3>2. ASSUME NEW d \in Client, client'[d].pc \in Erasing, Awaits(d, i)'
          PROVE  client'[d].pc = "wait" /\ \A j \in 1 .. (n + 1) : Awaits(d, j)' => j = i
      <4>1. client[d].pc = "wait" /\ \A j \in 1 .. n : Awaits(d, j) => j = i
        BY <2>0, <2>3, <3>1, <3>2 DEF OneRewrite
      <4>2. \A j \in 1 .. (n + 1) : j \in 1 .. n \/ j = n + 1
        BY <2>0
      <4> QED
        BY <4>1, <4>2, <2>3, <3>2
    <3> QED
      BY <3>1, <3>2, <2>0 DEF OneRewrite
  <2>5. HeldIsKnown'
    <3>1. now \notin unsure => values[now] # Nothing
      BY <1>2, <1>8, <1>21 DEF IngestedOK
    <3> QED
      BY <3>1, <2>1, <1>0, <1>11, <1>21 DEF HeldIsKnown
  <2>6. ErasingOK'
    <3> SUFFICES ASSUME NEW d \in Client, NEW t \in client'[d].turns \ unsure, client'[d].pc \in Erasing
                 PROVE  /\ client'[d].pc \in {"rewrite", "wait"} => values[t] = Nothing
                        /\ client'[d].pc = "shared" /\ client'[d].whole => values[t] = Nothing
                        /\ client'[d].pc = "values" /\ backend = "redis" /\ ~client'[d].whole
                              => shared[t] = Nothing
                        /\ client'[d].pc = "wait" =>
                              \A i, j \in DOMAIN queue' : Awaits(d, i)' /\ i <= j => t \notin Named(queue'[j])
                        /\ client'[d].pc \in {"shared", "values", "rewrite", "wait"} =>
                              \A r \in Record : TurnOf[r] = t => shown[r] = None
      BY <1>0, <1>21 DEF ErasingOK, Named, Erasing
    <3>1. client'[d] = client[d] /\ d # c
      BY <1>13
    <3>2. t # now
      BY <3>1, <1>7
    <3>3. ASSUME client'[d].pc = "wait", NEW i \in DOMAIN queue', NEW j \in DOMAIN queue', Awaits(d, i)', i <= j
          PROVE  t \notin Named(queue'[j])
      <4>1. i \in 1 .. n /\ Awaits(d, i)
        BY <3>3, <2>0, <2>1, <2>3 DEF Erasing
      <4>2. CASE j = n + 1
        BY <4>2, <3>2, <2>1, <1>4 DEF Named
      <4>3. CASE j # n + 1
        <5>1. j \in 1 .. n /\ queue'[j] = queue[j]
          BY <4>3, <2>0, <2>1
        <5> QED
          BY <5>1, <4>1, <3>1, <3>3, <2>0 DEF ErasingOK
      <4> QED
        BY <4>2, <4>3
    <3> QED
      BY <3>1, <3>3 DEF ErasingOK
  <2>7. FileAgrees'
    <3> SUFFICES ASSUME NEW t \in Turn \ unsure, NEW b \in Bases, Counts(t, b)'
                 PROVE  /\ (\A d \in Client : ~Sending(d, t)') => values[t] = Read(b, t)'
                        /\ \A d \in Client : Sending(d, t)' =>
                              values[t] = Merge(Read(b, t)', client'[d].signals)
      BY <1>0, <1>21, <2>1 DEF FileAgrees
    <3>1. Counts(t, b)
      <4> SUFFICES ASSUME NEW d \in Client, t \in Leaving(d)
                   PROVE  /\ client[d].pc = "wait"
                          /\ \A i \in DOMAIN queue : Awaits(d, i) => i <= b
        BY <1>0 DEF Counts
      <4>1. client'[d].pc = "wait" /\ \A i \in DOMAIN queue' : Awaits(d, i)' => i <= b
        BY <1>11 DEF Counts
      <4> QED
        BY <4>1, <1>13, <2>0, <2>1, <2>3 DEF Erasing
    <3>2. Read(b, t)' = Merge(Read(b, t), IF t = now THEN client[c].signals ELSE Nothing)
      BY <2>0, <2>1, <1>4, ReplayOne
    <3>3. CASE t = now
      <4>1. values[t] = Read(b, t)'
        BY <3>1, <3>2, <3>3, <1>8, <1>21 DEF FileAgrees
      <4> QED
        BY <4>1, <3>3, <1>8, <1>9, <1>10
    <3>4. CASE t # now
      <4>1. Read(b, t)' = Read(b, t)
        BY <3>2, <3>4, ReadIs, MergeIs
      <4>2. \A d \in Client : Sending(d, t)' <=> Sending(d, t)
        BY <3>4, <1>8, <1>9
      <4>3. \A d \in Client : Sending(d, t)' => client'[d].signals = client[d].signals
        BY <1>5, <1>8
      <4> QED
        BY <4>1, <4>2, <4>3, <3>1, <1>21 DEF FileAgrees
    <3> QED
      BY <3>3, <3>4
  <2>8. ErasedOK'
    <3> SUFFICES ASSUME NEW t \in erased
                 PROVE  /\ values[t] = Nothing /\ shared[t] = Nothing /\ t \notin Held \cup {now}
                        /\ \A d \in Client : /\ client'[d].pc \in Posting => t \notin client'[d].turns
                                             /\ client'[d].pc = "rewrite" => t \notin TurnsIn(client'[d].events)
      BY <1>0, <2>1 DEF ErasedOK
    <3> QED
      BY <1>1, <1>5, <1>6, <1>19 DEF ErasedOK, Posting
  <2> QED
    BY <2>2, <2>4, <2>5, <2>6, <2>7, <2>8, <1>14, <1>15, <1>16, <1>17, <1>18
<1> QED
  BY <1>3, <1>20, <1>21

\* The records of the turn show what memory holds, and the next signal is ingested.
LEMMA ShowKeeps ==
    ASSUME FeedbackInv, NEW c \in Client, Show(c)
    PROVE  FeedbackInv'
<1> USE DEF FeedbackInv
<1> DEFINE now == Now(client[c])
           rest == Tail(client[c].todo)
           k == IF rest # <<>> /\ Normal(Head(rest))
                  THEN [Ingest(rest) EXCEPT !.turns = client[c].turns] ELSE Idle
<1>1. /\ client[c].pc = "show" /\ client' = [client EXCEPT ![c] = k]
      /\ shown' = [r \in Record |-> IF TurnOf[r] = now /\ shown[r] # None
                                      THEN client[c].merged ELSE shown[r]]
      /\ UNCHANGED <<backend, values, shared, queue, file, rotated, counters, unsure, erased>>
  BY DEF Show, Now
<1>0. UNCHANGED <<backend, values, shared, queue, file, rotated, unsure, erased, erasures>>
  BY <1>1 DEF counters
<1>2. /\ client[c] \in PostCall /\ now \in client[c].turns /\ now \in Turn
      /\ client[c].merged \in Signals /\ client[c].turns \in SUBSET Turn
      /\ client[c].todo \in Seq(Posted) /\ client[c].todo # <<>>
  BY <1>1, Calls, NowIn DEF Posting
<1>3. /\ k \in Call /\ k.pc \in {"merge", "upsert", "idle"} /\ (k.pc = "idle" => k = Idle)
      /\ k # Idle => /\ k.turns = client[c].turns /\ k.pc \in {"merge", "upsert"}
                     /\ k.pc = "merge" => backend = "redis"
                     /\ k.signals # Nothing
                     /\ \A i \in DOMAIN k.todo : k.todo[i].turn \in client[c].turns
  <2>1. rest \in Seq(Posted) /\ \A i \in DOMAIN rest : i + 1 \in DOMAIN client[c].todo
                                                       /\ rest[i] = client[c].todo[i + 1]
    BY <1>2
  <2>2. \A i \in DOMAIN rest : rest[i].turn \in client[c].turns
    BY <2>1, <1>1 DEF CallsSound, CallSound, Posting
  <2>3. CASE rest # <<>> /\ Normal(Head(rest))
    <3>1. /\ Ingest(rest) \in PostCall /\ Ingest(rest).pc \in {"merge", "upsert"}
          /\ Ingest(rest).todo = rest /\ Ingest(rest).signals # Nothing
          /\ Ingest(rest).pc = "merge" => backend = "redis"
      BY <2>1, <2>3, Ingested
    <3>2. k = [Ingest(rest) EXCEPT !.turns = client[c].turns]
      BY <2>3
    <3> HIDE DEF k, rest
    <3>3. k \in PostCall /\ k.turns = client[c].turns /\ k.todo = rest
          /\ k.pc = Ingest(rest).pc /\ k.signals = Ingest(rest).signals
      BY <3>1, <3>2, <1>2 DEF PostCall
    <3> QED
      BY <3>1, <3>3, <2>2 DEF Call
  <2>4. CASE ~(rest # <<>> /\ Normal(Head(rest)))
    BY <2>4 DEF Idle, Call
  <2> QED
    BY <2>3, <2>4
<1> HIDE DEF k, now, rest
<1>4. /\ client' \in [Client -> Call] /\ client'[c] = k
      /\ \A d \in Client : d # c => client'[d] = client[d]
  BY <1>1, <1>3 DEF FeedbackTypeOK
<1>5. \A r \in Record : shown'[r] = IF TurnOf[r] = now /\ shown[r] # None
                                      THEN client[c].merged ELSE shown[r]
  BY <1>1
<1>6. FeedbackTypeOK' /\ Elsewhere'
  <2>1. shown' \in [Record -> Signals \cup {None}]
    BY <1>1, <1>2 DEF FeedbackTypeOK
  <2> QED
    BY <2>1, <1>0, <1>4 DEF FeedbackTypeOK, Elsewhere
<1>7. CallsSound'
  <2>1. CallSound(client[c])'
    <3>1. CASE k = Idle
      BY <3>1, <1>4 DEF CallSound, Idle, Posting, Erasing
    <3>2. CASE k # Idle
      BY <3>2, <1>0, <1>3, <1>4 DEF CallSound, Posting, Erasing
    <3> QED
      BY <3>1, <3>2
  <2>2. backend' = backend /\ erasures' \in Nat /\ erasures <= erasures'
    BY <1>0 DEF FeedbackTypeOK
  <2> QED
    BY <2>1, <2>2, <1>4, CallsKept
<1>8. Apart'
  <2>1. ~Erases(client[c]) /\ (k = Idle \/ ~Erases(k))
    BY <1>1, <1>3 DEF Erases
  <2> QED
    BY <2>1, <1>0, <1>3, <1>4, ApartKept
<1>9. OneRewrite' /\ HeldIsKnown' /\ IngestedOK' /\ SnapshotCurrent' /\ FileAgrees'
  <2>1. erasures' \in Nat /\ erasures <= erasures' /\ Leaving(c) = {}
    BY <1>0, <1>1 DEF FeedbackTypeOK, Leaving
  <2> QED
    BY <2>1, <1>0, <1>1, <1>3, <1>4, Aside DEF Erasing
<1>10. ErasingOK'
  <2> SUFFICES ASSUME NEW d \in Client, NEW t \in client'[d].turns \ unsure, client'[d].pc \in Erasing
               PROVE  /\ client'[d].pc \in {"rewrite", "wait"} => values[t] = Nothing
                      /\ client'[d].pc = "shared" /\ client'[d].whole => values[t] = Nothing
                      /\ client'[d].pc = "values" /\ backend = "redis" /\ ~client'[d].whole
                            => shared[t] = Nothing
                      /\ client'[d].pc = "wait" =>
                            \A i, j \in DOMAIN queue : Awaits(d, i)' /\ i <= j => t \notin Named(queue[j])
                      /\ client'[d].pc \in {"shared", "values", "rewrite", "wait"} =>
                            \A r \in Record : TurnOf[r] = t => shown'[r] = None
    BY <1>0 DEF ErasingOK, Named, Erasing
  <2>1. client'[d] = client[d]
    BY <1>3, <1>4 DEF Erasing
  <2> QED
    BY <2>1, <1>0, <1>5 DEF ErasingOK, Awaits
<1>11. ShownAgrees'
  <2> SUFFICES ASSUME backend = "file"
               PROVE  /\ \A r \in Record :
                            (shown'[r] # None /\ TurnOf[r] \notin unsure
                             /\ \A d \in Client : ~Showing(d, TurnOf[r])') => shown'[r] = values[TurnOf[r]]
                      /\ \A d \in Client :
                            (client'[d].pc = "store" /\ TurnOf[client'[d].record] \notin unsure)
                                => client'[d].signals = values[TurnOf[client'[d].record]]
    BY <1>0 DEF ShownAgrees
  <2>1. ASSUME NEW r \in Record, shown'[r] # None, TurnOf[r] \notin unsure,
               \A d \in Client : ~Showing(d, TurnOf[r])'
        PROVE  shown'[r] = values[TurnOf[r]]
    <3>1. shown[r] # None
      BY <2>1, <1>5
    <3>2. CASE TurnOf[r] = now
      <4>1. Showing(c, now)
        BY <1>1 DEF Showing, now
      <4>2. client[c].merged = values[now]
        BY <4>1, <3>2, <2>1, <1>2 DEF IngestedOK
      <4> QED
        BY <4>2, <3>1, <3>2, <1>5
    <3>3. CASE TurnOf[r] # now
      <4>1. \A d \in Client : d # c => ~Showing(d, TurnOf[r])
        BY <2>1, <1>4 DEF Showing, Now
      <4>2. ~Showing(c, TurnOf[r])
        BY <3>3 DEF Showing, now
      <4> QED
        BY <4>1, <4>2, <3>1, <3>3, <2>1, <1>5 DEF ShownAgrees
    <3> QED
      BY <3>2, <3>3
  <2>2. ASSUME NEW d \in Client, client'[d].pc = "store"
        PROVE  client'[d] = client[d]
    BY <2>2, <1>3, <1>4
  <2> QED
    BY <2>1, <2>2 DEF ShownAgrees
<1>12. ErasedOK'
  <2>1. Held' = Held
    BY <1>0, Unqueued
  <2> SUFFICES ASSUME NEW t \in erased
               PROVE  /\ values[t] = Nothing /\ shared[t] = Nothing /\ t \notin Held
                      /\ \A d \in Client : /\ client'[d].pc \in Posting => t \notin client'[d].turns
                                           /\ client'[d].pc = "rewrite" => t \notin TurnsIn(client'[d].events)
    BY <1>0, <2>1 DEF ErasedOK
  <2>2. client'[c].pc # "rewrite" /\ (client'[c].pc \in Posting => t \notin client'[c].turns)
    <3>1. t \notin client[c].turns
      BY <1>1 DEF ErasedOK, Posting
    <3>2. k.pc # "rewrite" /\ (k.pc \in Posting => k.turns = client[c].turns)
      <4>1. CASE k = Idle
        BY <4>1 DEF Idle, Posting
      <4>2. CASE k # Idle
        BY <4>2, <1>3
      <4> QED
        BY <4>1, <4>2
    <3> QED
      BY <3>1, <3>2, <1>4
  <2> QED
    BY <2>2, <1>4 DEF ErasedOK
<1> QED
  BY <1>6, <1>7, <1>8, <1>9, <1>10, <1>11, <1>12

-----------------------------------------------------------------------------
(* Records that are stored, and callers that hang up.                        *)

\* What every call that begins does.
LEMMA Begun ==
    ASSUME FeedbackInv, NEW c \in Client, client[c] = Idle, NEW k \in Call, Begin(c, k)
    PROVE  /\ client' \in [Client -> Call] /\ client'[c] = k
           /\ \A d \in Client : d # c => client'[d] = client[d]
           /\ unsure' \in SUBSET Turn /\ unsure \subseteq unsure'
           /\ client[c].pc = "idle" /\ Leaving(c) = {}
           /\ Apart'
<1> USE DEF FeedbackInv
<1>1. /\ client' = [client EXCEPT ![c] = k]
      /\ unsure' = unsure \cup UNION {Overlap(k, client[d]) : d \in Working \ {c}}
  BY DEF Begin
<1>2. unsure' \in SUBSET Turn /\ unsure \subseteq unsure'
  <2>1. \A d \in Client : Overlap(k, client[d]) \subseteq Turn
    BY Kinds, Calls DEF Overlap
  <2> QED
    BY <2>1, <1>1 DEF Working, FeedbackTypeOK
<1>3. Apart'
  BY ApartBegun
<1> QED
  BY <1>1, <1>2, <1>3 DEF FeedbackTypeOK, Idle, Leaving

\* A record is about to be stored with what memory holds.
LEMMA LookupKeeps ==
    ASSUME FeedbackInv, NEW c \in Client, Lookup(c)
    PROVE  FeedbackInv'
<1> USE DEF FeedbackInv
<1>1. PICK r \in Record : Begin(c, [pc |-> "store", turns |-> {TurnOf[r]}, record |-> r,
                                    signals |-> Stored(TurnOf[r])])
  BY DEF Lookup
<1>k. PICK k : k = [pc |-> "store", turns |-> {TurnOf[r]}, record |-> r,
                    signals |-> Stored(TurnOf[r])]
  OBVIOUS
<1>0. client[c] = Idle /\ UNCHANGED <<stores, erased, erasures>>
  BY DEF Lookup, counters
<1>2. TurnOf[r] \in Turn /\ Stored(TurnOf[r]) \in Signals
  BY FeedbackAssumption DEF Stored, FeedbackTypeOK
<1>3. /\ k \in Call /\ k.pc = "store" /\ k.turns = {TurnOf[k.record]}
      /\ backend = "file" => k.signals = values[TurnOf[k.record]]
  BY <1>2, <1>k DEF StoreCall, Call, Stored
<1>4. Begin(c, k)
  BY <1>1, <1>k
<1>5. /\ client' \in [Client -> Call] /\ client'[c] = k
      /\ \A d \in Client : d # c => client'[d] = client[d]
      /\ unsure' \in SUBSET Turn /\ unsure \subseteq unsure'
      /\ client[c].pc = "idle" /\ Leaving(c) = {}
      /\ Apart'
  BY <1>0, <1>3, <1>4, Begun
<1>6. FeedbackTypeOK' /\ Elsewhere'
  BY <1>0, <1>5 DEF FeedbackTypeOK, Elsewhere, stores
<1>7. backend' = backend /\ erasures' \in Nat /\ erasures <= erasures'
  BY <1>0 DEF stores, FeedbackTypeOK
<1>8. CallsSound'
  <2>1. CallSound(client[c])'
    BY <1>3, <1>5 DEF CallSound, Posting, Erasing
  <2> QED
    BY <2>1, <1>5, <1>7, CallsKept
<1>9. OneRewrite' /\ HeldIsKnown' /\ IngestedOK' /\ SnapshotCurrent' /\ FileAgrees'
  BY <1>0, <1>3, <1>5, <1>7, Aside DEF Erasing, stores
<1>10. ErasingOK' /\ ShownAgrees' /\ ErasedOK'
  BY <1>0, <1>3, <1>5, <1>7, Quietly DEF Posting, stores
<1> QED
  BY <1>5, <1>6, <1>8, <1>9, <1>10

\* A caller that hangs up leaves its turns unsure.
LEMMA HangUpKeeps ==
    ASSUME FeedbackInv, NEW c \in Client, HangUp(c)
    PROVE  FeedbackInv'
<1> USE DEF FeedbackInv
<1>1. /\ client[c].pc # "send" /\ unsure' = unsure \cup client[c].turns
      /\ client' = [client EXCEPT ![c] = Idle] /\ UNCHANGED <<stores, erasures, erased>>
  BY DEF HangUp, Reply
<1>2. /\ client' \in [Client -> Call] /\ client'[c] = Idle
      /\ \A d \in Client : d # c => client'[d] = client[d]
      /\ client'[c].pc = "idle"
  BY <1>1 DEF FeedbackTypeOK, Call, Idle
<1>3. unsure' \in SUBSET Turn /\ unsure \subseteq unsure' /\ client[c].turns \subseteq unsure'
      /\ Leaving(c) \subseteq unsure'
  BY <1>1, Calls DEF Leaving, FeedbackTypeOK
<1>4. backend' = backend /\ erasures' \in Nat /\ erasures <= erasures'
  BY <1>1 DEF stores, FeedbackTypeOK
<1>5. FeedbackTypeOK' /\ Elsewhere'
  BY <1>1, <1>2, <1>3 DEF FeedbackTypeOK, Elsewhere, stores
<1>6. CallsSound'
  <2>1. CallSound(client[c])'
    BY <1>2 DEF CallSound, Posting, Erasing
  <2> QED
    BY <2>1, <1>2, <1>4, CallsKept
<1>7. Apart'
  BY <1>2, <1>3, ApartKept
<1>8. OneRewrite' /\ HeldIsKnown' /\ IngestedOK' /\ SnapshotCurrent' /\ FileAgrees'
  BY <1>1, <1>2, <1>3, <1>4, Aside DEF Erasing, stores
<1>9. ErasingOK' /\ ShownAgrees' /\ ErasedOK'
  BY <1>1, <1>2, <1>3, <1>4, Quietly DEF Posting, stores
<1> QED
  BY <1>5, <1>6, <1>7, <1>8, <1>9

\* A record is stored with what memory still holds.
LEMMA StoreKeeps ==
    ASSUME FeedbackInv, NEW c \in Client, Store(c)
    PROVE  FeedbackInv'
<1> USE DEF FeedbackInv
<1>1. /\ client[c].pc = "store" /\ client' = [client EXCEPT ![c] = Idle]
      /\ shown' = [shown EXCEPT ![client[c].record] = client[c].signals]
      /\ UNCHANGED <<backend, values, shared, queue, file, rotated, counters, unsure, erased>>
  BY DEF Store, Reply
<1>0. UNCHANGED <<backend, values, shared, queue, file, rotated, unsure, erased, erasures>>
  BY <1>1 DEF counters
<1>2. /\ client[c].record \in Record /\ client[c].signals \in Signals
      /\ TurnOf[client[c].record] \in client[c].turns
  BY <1>1, Calls DEF StoreCall, CallsSound, CallSound
<1>3. /\ client' \in [Client -> Call] /\ client'[c] = Idle /\ client'[c].pc = "idle"
      /\ \A d \in Client : d # c => client'[d] = client[d]
  BY <1>1 DEF FeedbackTypeOK, Call, Idle
<1>4. /\ shown' \in [Record -> Signals \cup {None}] /\ shown'[client[c].record] = client[c].signals
      /\ \A r \in Record : r # client[c].record => shown'[r] = shown[r]
  BY <1>1, <1>2 DEF FeedbackTypeOK
<1>5. backend' = backend /\ erasures' \in Nat /\ erasures <= erasures' /\ Leaving(c) = {}
  BY <1>0, <1>1 DEF FeedbackTypeOK, Leaving
<1>6. FeedbackTypeOK' /\ Elsewhere'
  BY <1>0, <1>3, <1>4 DEF FeedbackTypeOK, Elsewhere
<1>7. CallsSound'
  <2>1. CallSound(client[c])'
    BY <1>3 DEF CallSound, Posting, Erasing
  <2> QED
    BY <2>1, <1>3, <1>5, CallsKept
<1>8. Apart'
  BY <1>0, <1>3, ApartKept
<1>9. OneRewrite' /\ HeldIsKnown' /\ IngestedOK' /\ SnapshotCurrent' /\ FileAgrees'
  BY <1>0, <1>1, <1>3, <1>5, Aside DEF Erasing
<1>10. ErasingOK'
  <2> SUFFICES ASSUME NEW d \in Client, NEW t \in client'[d].turns \ unsure, client'[d].pc \in Erasing
               PROVE  /\ client'[d].pc \in {"rewrite", "wait"} => values[t] = Nothing
                      /\ client'[d].pc = "shared" /\ client'[d].whole => values[t] = Nothing
                      /\ client'[d].pc = "values" /\ backend = "redis" /\ ~client'[d].whole
                            => shared[t] = Nothing
                      /\ client'[d].pc = "wait" =>
                            \A i, j \in DOMAIN queue : Awaits(d, i)' /\ i <= j => t \notin Named(queue[j])
                      /\ client'[d].pc \in {"shared", "values", "rewrite", "wait"} =>
                            \A r \in Record : TurnOf[r] = t => shown'[r] = None
    BY <1>0 DEF ErasingOK, Named, Erasing
  <2>1. client'[d] = client[d] /\ d # c
    BY <1>3 DEF Erasing
  <2>2. t # TurnOf[client[c].record]
    BY <2>1, <1>2, Alone
  <2> QED
    BY <2>1, <2>2, <1>0, <1>4 DEF ErasingOK, Awaits
<1>11. ShownAgrees'
  <2> SUFFICES ASSUME backend = "file"
               PROVE  /\ \A r \in Record :
                            (shown'[r] # None /\ TurnOf[r] \notin unsure
                             /\ \A d \in Client : ~Showing(d, TurnOf[r])') => shown'[r] = values[TurnOf[r]]
                      /\ \A d \in Client :
                            (client'[d].pc = "store" /\ TurnOf[client'[d].record] \notin unsure)
                                => client'[d].signals = values[TurnOf[client'[d].record]]
    BY <1>0 DEF ShownAgrees
  <2>1. ASSUME NEW r \in Record, shown'[r] # None, TurnOf[r] \notin unsure,
               \A d \in Client : ~Showing(d, TurnOf[r])'
        PROVE  shown'[r] = values[TurnOf[r]]
    <3>1. CASE r = client[c].record
      BY <3>1, <2>1, <1>1, <1>4 DEF ShownAgrees
    <3>2. CASE r # client[c].record
      <4>1. \A d \in Client : ~Showing(d, TurnOf[r])
        BY <2>1, <1>1, <1>3 DEF Showing, Now
      <4> QED
        BY <4>1, <3>2, <2>1, <1>4 DEF ShownAgrees
    <3> QED
      BY <3>1, <3>2
  <2>2. ASSUME NEW d \in Client, client'[d].pc = "store"
        PROVE  client'[d] = client[d]
    BY <2>2, <1>3
  <2> QED
    BY <2>1, <2>2 DEF ShownAgrees
<1>12. ErasedOK'
  <2>1. Held' = Held
    BY <1>0, Unqueued
  <2> SUFFICES ASSUME NEW t \in erased
               PROVE  /\ values[t] = Nothing /\ shared[t] = Nothing /\ t \notin Held
                      /\ \A d \in Client : /\ client'[d].pc \in Posting => t \notin client'[d].turns
                                           /\ client'[d].pc = "rewrite" => t \notin TurnsIn(client'[d].events)
    BY <1>0, <2>1 DEF ErasedOK
  <2> QED
    BY <1>3 DEF ErasedOK, Posting
<1> QED
  BY <1>6, <1>7, <1>8, <1>9, <1>10, <1>11, <1>12

-----------------------------------------------------------------------------
(* Erasures.                                                                 *)

\* An erasure begins, under an id of its own.
LEMMA EraseKeeps ==
    ASSUME FeedbackInv, NEW c \in Client, Erase(c)
    PROVE  FeedbackInv'
<1> USE DEF FeedbackInv
<1>1. PICK e \in Erasures :
         Begin(c, [pc |-> "delete", turns |-> TurnsOf(Present(e.records)),
                   records |-> e.records, whole |-> e.whole, events |-> <<>>, id |-> erasures])
  BY DEF Erase
<1>k. PICK k : k = [pc |-> "delete", turns |-> TurnsOf(Present(e.records)),
                    records |-> e.records, whole |-> e.whole, events |-> <<>>, id |-> erasures]
  OBVIOUS
<1>0. client[c] = Idle /\ UNCHANGED <<stores, erased>> /\ erasures' = erasures + 1
  BY DEF Erase
<1>2. e.records \in SUBSET Record /\ e.whole \in BOOLEAN
  BY FeedbackAssumption
<1>3. Present(e.records) \subseteq e.records /\ TurnsOf(Present(e.records)) \in SUBSET Turn
  BY <1>2, FeedbackAssumption DEF Present, TurnsOf
<1>4. k \in Call /\ k.pc = "delete" /\ k.id = erasures
  <2>1. <<>> \in Seq(Event) /\ erasures \in Nat
    BY DEF FeedbackTypeOK
  <2> QED
    BY <2>1, <1>2, <1>3, <1>k DEF EraseCall, Call, Erasing
<1>5. k.whole => \A r \in Record : TurnOf[r] \in k.turns => r \in k.records
  <2> SUFFICES ASSUME e.whole, NEW r \in Record, TurnOf[r] \in TurnsOf(Present(e.records))
               PROVE  r \in e.records
    BY <1>k
  <2>1. PICK q \in Present(e.records) : TurnOf[q] = TurnOf[r]
    BY DEF TurnsOf
  <2>2. q \in e.records
    BY <1>3
  <2> QED
    BY <2>1, <2>2, FeedbackAssumption
<1>6. Begin(c, k)
  BY <1>1, <1>k
<1>7. /\ client' \in [Client -> Call] /\ client'[c] = k
      /\ \A d \in Client : d # c => client'[d] = client[d]
      /\ unsure' \in SUBSET Turn /\ unsure \subseteq unsure'
      /\ client[c].pc = "idle" /\ Leaving(c) = {}
      /\ Apart'
  BY <1>0, <1>4, <1>6, Begun
<1>8. backend' = backend /\ erasures' \in Nat /\ erasures <= erasures' /\ erasures < erasures'
  BY <1>0 DEF stores, FeedbackTypeOK
<1>9. FeedbackTypeOK' /\ Elsewhere'
  BY <1>0, <1>7, <1>8 DEF FeedbackTypeOK, Elsewhere, stores
<1>10. CallsSound'
  <2>1. CallSound(client[c])'
    BY <1>4, <1>5, <1>7, <1>8 DEF CallSound, Posting, Erasing
  <2> QED
    BY <2>1, <1>7, <1>8, CallsKept
<1>11. OneRewrite' /\ HeldIsKnown' /\ IngestedOK' /\ SnapshotCurrent' /\ FileAgrees'
  BY <1>0, <1>4, <1>7, <1>8, Aside DEF stores
<1>12. ErasingOK' /\ ShownAgrees' /\ ErasedOK'
  BY <1>0, <1>4, <1>7, <1>8, Quietly DEF Posting, stores
<1> QED
  BY <1>7, <1>9, <1>10, <1>11, <1>12

\* The records are gone; a tenant's were all those of their turns.
LEMMA DeleteRecordsKeeps ==
    ASSUME FeedbackInv, NEW c \in Client, DeleteRecords(c)
    PROVE  FeedbackInv'
<1> USE DEF FeedbackInv
<1>1. /\ client[c].pc = "delete"
      /\ client' = [client EXCEPT ![c].pc = IF client[c].whole THEN "values" ELSE "retained"]
      /\ shown' = [r \in Record |-> IF r \in client[c].records THEN None ELSE shown[r]]
      /\ UNCHANGED <<backend, values, shared, queue, file, rotated, counters, unsure, erased>>
  BY DEF DeleteRecords, Goto
<1>0. UNCHANGED <<backend, values, shared, queue, file, rotated, unsure, erased, erasures>>
  BY <1>1 DEF counters
<1>2. client[c] \in EraseCall
  BY <1>1, Calls DEF Erasing
<1>3. PICK pc \in {"values", "retained"} : pc = IF client[c].whole THEN "values" ELSE "retained"
  OBVIOUS
<1>4. /\ client'[c] = [client[c] EXCEPT !.pc = pc] /\ client'[c] \in EraseCall
      /\ client' \in [Client -> Call] /\ \A d \in Client : d # c => client'[d] = client[d]
  <2>1. [client[c] EXCEPT !.pc = pc] \in EraseCall
    BY <1>2, <1>3 DEF EraseCall, Erasing
  <2> QED
    BY <1>1, <1>3, <2>1 DEF FeedbackTypeOK, Call
<1>5. /\ client'[c].pc = pc /\ client'[c].turns = client[c].turns /\ client'[c].id = client[c].id
      /\ client'[c].whole = client[c].whole /\ client'[c].records = client[c].records
  BY <1>2, <1>4 DEF EraseCall
<1>6. \A r \in Record : shown'[r] = IF r \in client[c].records THEN None ELSE shown[r]
  BY <1>1
<1>7. FeedbackTypeOK' /\ Elsewhere'
  <2>1. shown' \in [Record -> Signals \cup {None}]
    BY <1>1 DEF FeedbackTypeOK
  <2> QED
    BY <2>1, <1>0, <1>4 DEF FeedbackTypeOK, Elsewhere
<1>8. CallsSound'
  <2>1. CallSound(client[c])'
    BY <1>0, <1>1, <1>3, <1>5 DEF CallsSound, CallSound, Posting, Erasing
  <2>2. backend' = backend /\ erasures' \in Nat /\ erasures <= erasures'
    BY <1>0 DEF FeedbackTypeOK
  <2> QED
    BY <2>1, <2>2, <1>4, CallsKept
<1>9. Apart'
  BY <1>0, <1>1, <1>3, <1>4, <1>5, ApartKept DEF Erases
<1>10. OneRewrite' /\ HeldIsKnown' /\ IngestedOK' /\ SnapshotCurrent' /\ FileAgrees'
  <2>1. erasures' \in Nat /\ erasures <= erasures' /\ Leaving(c) = {}
    BY <1>0, <1>1 DEF FeedbackTypeOK, Leaving
  <2> QED
    BY <2>1, <1>0, <1>1, <1>3, <1>4, <1>5, Aside DEF Erasing
<1>11. ErasingOK'
  <2> SUFFICES ASSUME NEW d \in Client, NEW t \in client'[d].turns \ unsure, client'[d].pc \in Erasing
               PROVE  /\ client'[d].pc \in {"rewrite", "wait"} => values[t] = Nothing
                      /\ client'[d].pc = "shared" /\ client'[d].whole => values[t] = Nothing
                      /\ client'[d].pc = "values" /\ backend = "redis" /\ ~client'[d].whole
                            => shared[t] = Nothing
                      /\ client'[d].pc = "wait" =>
                            \A i, j \in DOMAIN queue : Awaits(d, i)' /\ i <= j => t \notin Named(queue[j])
                      /\ client'[d].pc \in {"shared", "values", "rewrite", "wait"} =>
                            \A r \in Record : TurnOf[r] = t => shown'[r] = None
    BY <1>0 DEF ErasingOK, Named, Erasing
  <2>1. CASE d = c
    <3>1. ASSUME client[c].whole, NEW r \in Record, TurnOf[r] = t PROVE shown'[r] = None
      <4>1. r \in client[c].records
        BY <2>1, <3>1, <1>1, <1>5 DEF CallsSound, CallSound, Erasing
      <4> QED
        BY <4>1, <1>6
    <3> QED
      BY <3>1, <2>1, <1>3, <1>5
  <2>2. CASE d # c
    BY <2>2, <1>0, <1>4, <1>6 DEF ErasingOK, Awaits
  <2> QED
    BY <2>1, <2>2
<1>12. ShownAgrees'
  <2> SUFFICES ASSUME backend = "file"
               PROVE  /\ \A r \in Record :
                            (shown'[r] # None /\ TurnOf[r] \notin unsure
                             /\ \A d \in Client : ~Showing(d, TurnOf[r])') => shown'[r] = values[TurnOf[r]]
                      /\ \A d \in Client :
                            (client'[d].pc = "store" /\ TurnOf[client'[d].record] \notin unsure)
                                => client'[d].signals = values[TurnOf[client'[d].record]]
    BY <1>0 DEF ShownAgrees
  <2>1. \A d \in Client : \A t : Showing(d, t)' <=> Showing(d, t)
    BY <1>1, <1>3, <1>4, <1>5 DEF Showing, Now
  <2>2. \A d \in Client : client'[d].pc = "store" => client'[d] = client[d]
    BY <1>3, <1>4, <1>5
  <2> QED
    BY <2>1, <2>2, <1>6 DEF ShownAgrees
<1>13. ErasedOK'
  <2>1. Held' = Held
    BY <1>0, Unqueued
  <2> SUFFICES ASSUME NEW t \in erased
               PROVE  /\ values[t] = Nothing /\ shared[t] = Nothing /\ t \notin Held
                      /\ \A d \in Client : /\ client'[d].pc \in Posting => t \notin client'[d].turns
                                           /\ client'[d].pc = "rewrite" => t \notin TurnsIn(client'[d].events)
    BY <1>0, <2>1 DEF ErasedOK
  <2> QED
    BY <1>3, <1>4, <1>5 DEF ErasedOK, Posting
<1> QED
  BY <1>7, <1>8, <1>9, <1>10, <1>11, <1>12, <1>13

\* What is still to be erased has no record.
LEMMA RetainedKeeps ==
    ASSUME FeedbackInv, NEW c \in Client, Retained(c)
    PROVE  FeedbackInv'
<1> USE DEF FeedbackInv
<1>3. PICK pc \in {"values", "shared"} : pc = IF backend = "redis" THEN "shared" ELSE "values"
  OBVIOUS
<1>t. PICK left : left = client[c].turns \ TurnsOf(Present(Record))
  OBVIOUS
<1>1. /\ client[c].pc = "retained"
      /\ client' = [client EXCEPT ![c].turns = left, ![c].pc = pc]
      /\ UNCHANGED <<stores, counters, unsure, erased>>
  BY <1>3, <1>t DEF Retained
<1>0. UNCHANGED <<backend, values, shared, queue, file, rotated, shown, unsure, erased, erasures>>
  BY <1>1 DEF counters, stores
<1>2. client[c] \in EraseCall /\ left \in SUBSET Turn /\ left \subseteq client[c].turns
  BY <1>1, <1>t, Calls DEF Erasing
<1>4. /\ client'[c] = [client[c] EXCEPT !.turns = left, !.pc = pc] /\ client'[c] \in EraseCall
      /\ client' \in [Client -> Call] /\ \A d \in Client : d # c => client'[d] = client[d]
  <2>1. [client[c] EXCEPT !.turns = left, !.pc = pc] \in EraseCall
    BY <1>2, <1>3 DEF EraseCall, Erasing
  <2> QED
    BY <1>1, <1>3, <2>1 DEF FeedbackTypeOK, Call
<1>5. /\ client'[c].pc = pc /\ client'[c].turns = left /\ client'[c].id = client[c].id
      /\ client'[c].whole = client[c].whole /\ client'[c].records = client[c].records
  BY <1>2, <1>4 DEF EraseCall
<1>6. ~client[c].whole
  BY <1>1 DEF CallsSound, CallSound, Erasing
<1>7. FeedbackTypeOK' /\ Elsewhere'
  BY <1>0, <1>4 DEF FeedbackTypeOK, Elsewhere
<1>8. CallsSound'
  <2>1. CallSound(client[c])'
    BY <1>0, <1>1, <1>3, <1>5, <1>6 DEF CallsSound, CallSound, Posting, Erasing
  <2>2. backend' = backend /\ erasures' \in Nat /\ erasures <= erasures'
    BY <1>0 DEF FeedbackTypeOK
  <2> QED
    BY <2>1, <2>2, <1>4, CallsKept
<1>9. Apart'
  BY <1>0, <1>1, <1>2, <1>3, <1>4, <1>5, ApartKept DEF Erases
<1>10. OneRewrite' /\ HeldIsKnown' /\ IngestedOK' /\ SnapshotCurrent' /\ FileAgrees'
  <2>1. erasures' \in Nat /\ erasures <= erasures' /\ Leaving(c) = {}
    BY <1>0, <1>1 DEF FeedbackTypeOK, Leaving
  <2> QED
    BY <2>1, <1>0, <1>1, <1>3, <1>4, <1>5, Aside DEF Erasing
<1>11. ErasingOK'
  <2> SUFFICES ASSUME NEW d \in Client, NEW t \in client'[d].turns \ unsure, client'[d].pc \in Erasing
               PROVE  /\ client'[d].pc \in {"rewrite", "wait"} => values[t] = Nothing
                      /\ client'[d].pc = "shared" /\ client'[d].whole => values[t] = Nothing
                      /\ client'[d].pc = "values" /\ backend = "redis" /\ ~client'[d].whole
                            => shared[t] = Nothing
                      /\ client'[d].pc = "wait" =>
                            \A i, j \in DOMAIN queue : Awaits(d, i)' /\ i <= j => t \notin Named(queue[j])
                      /\ client'[d].pc \in {"shared", "values", "rewrite", "wait"} =>
                            \A r \in Record : TurnOf[r] = t => shown[r] = None
    BY <1>0 DEF ErasingOK, Named, Erasing
  <2>1. CASE d = c
    <3>1. ASSUME NEW r \in Record, TurnOf[r] = t PROVE shown[r] = None
      BY <2>1, <3>1, <1>t, <1>5 DEF TurnsOf, Present
    <3> QED
      BY <3>1, <2>1, <1>3, <1>5, <1>6
  <2>2. CASE d # c
    BY <2>2, <1>0, <1>4 DEF ErasingOK, Awaits
  <2> QED
    BY <2>1, <2>2
<1>12. ShownAgrees'
  <2>1. \A d \in Client : \A t : Showing(d, t)' <=> Showing(d, t)
    BY <1>1, <1>3, <1>4, <1>5 DEF Showing, Now
  <2>2. \A d \in Client : client'[d].pc = "store" => client'[d] = client[d]
    BY <1>3, <1>4, <1>5
  <2> QED
    BY <2>1, <2>2, <1>0 DEF ShownAgrees
<1>13. ErasedOK'
  <2>1. Held' = Held
    BY <1>0, Unqueued
  <2> SUFFICES ASSUME NEW t \in erased
               PROVE  /\ values[t] = Nothing /\ shared[t] = Nothing /\ t \notin Held
                      /\ \A d \in Client : /\ client'[d].pc \in Posting => t \notin client'[d].turns
                                           /\ client'[d].pc = "rewrite" => t \notin TurnsIn(client'[d].events)
    BY <1>0, <2>1 DEF ErasedOK
  <2> QED
    BY <1>3, <1>4, <1>5 DEF ErasedOK, Posting
<1> QED
  BY <1>7, <1>8, <1>9, <1>10, <1>11, <1>12, <1>13

\* Redis has the turns no more; a tenant's deletion ends here, memory having none.
LEMMA EraseSharedKeeps ==
    ASSUME FeedbackInv, NEW c \in Client, EraseShared(c)
    PROVE  FeedbackInv'
<1> USE DEF FeedbackInv
<1> DEFINE turns == client[c].turns
<1>1. /\ client[c].pc = "shared"
      /\ shared' = [t \in Turn |-> IF t \in turns THEN Nothing ELSE shared[t]]
      /\ UNCHANGED <<backend, values, queue, file, rotated, shown, counters, unsure>>
  BY DEF EraseShared
<1>0. UNCHANGED <<backend, values, queue, file, rotated, shown, unsure, erasures>>
  BY <1>1 DEF counters
<1>2. client[c] \in EraseCall /\ turns \in SUBSET Turn /\ backend = "redis"
  BY <1>1, Calls DEF Erasing, CallsSound, CallSound
<1>k. PICK k : k = IF client[c].whole THEN Idle ELSE [client[c] EXCEPT !.pc = "values"]
  OBVIOUS
<1>3. /\ client' = [client EXCEPT ![c] = k]
      /\ erased' = IF client[c].whole THEN erased \cup (turns \ unsure) ELSE erased
  BY <1>k DEF EraseShared, Acknowledge, Reply, Goto
<1>4. /\ client' \in [Client -> Call] /\ client'[c] = k
      /\ \A d \in Client : d # c => client'[d] = client[d]
  <2>1. k \in Call
    <3>1. [client[c] EXCEPT !.pc = "values"] \in EraseCall
      BY <1>2 DEF EraseCall, Erasing
    <3> QED
      BY <3>1, <1>k DEF Call
  <2> QED
    BY <2>1, <1>3 DEF FeedbackTypeOK
<1>5. /\ client[c].whole => k = Idle /\ k.pc = "idle"
      /\ ~client[c].whole => /\ k.pc = "values" /\ k.turns = turns /\ k.id = client[c].id
                             /\ ~k.whole
      /\ k.pc \in {"values", "idle"}
  BY <1>2, <1>k DEF EraseCall, Idle
<1>6. shared' \in [Turn -> Signals] /\ \A t \in Turn : shared'[t] = IF t \in turns THEN Nothing ELSE shared[t]
  BY <1>1, SignalsAre DEF FeedbackTypeOK
<1>7. Held' = Held /\ Held = {}
  <2>1. Held' = Held
    BY <1>0, Unqueued
  <2>2. queue = <<>> /\ file = <<>> /\ rotated = <<>>
    BY <1>2 DEF Elsewhere
  <2>3. TurnsIn(<<>>) = {}
    BY DEF TurnsIn, ToSet
  <2> QED
    BY <2>1, <2>2, <2>3 DEF Held
<1>8. \A t \in turns \ unsure, d \in Client : d # c => t \notin client[d].turns /\ client[d].pc \notin Erasing
  BY Alone
<1>9. erased' \in SUBSET Turn
  BY <1>2, <1>3 DEF FeedbackTypeOK
<1> HIDE DEF turns
<1>10. FeedbackTypeOK' /\ Elsewhere'
  BY <1>0, <1>2, <1>4, <1>6, <1>9 DEF FeedbackTypeOK, Elsewhere
<1>11. CallsSound'
  <2>1. CallSound(client[c])'
    <3>1. CASE client[c].whole
      BY <3>1, <1>4, <1>5 DEF CallSound, Posting, Erasing
    <3>2. CASE ~client[c].whole
      BY <3>2, <1>0, <1>1, <1>4, <1>5 DEF CallsSound, CallSound, Posting, Erasing
    <3> QED
      BY <3>1, <3>2
  <2>2. backend' = backend /\ erasures' \in Nat /\ erasures <= erasures'
    BY <1>0 DEF FeedbackTypeOK
  <2> QED
    BY <2>1, <2>2, <1>4, CallsKept
<1>12. Apart'
  BY <1>0, <1>1, <1>4, <1>5, ApartKept DEF Erases, turns
<1>13. OneRewrite' /\ HeldIsKnown' /\ IngestedOK' /\ SnapshotCurrent' /\ FileAgrees'
  <2>1. erasures' \in Nat /\ erasures <= erasures' /\ Leaving(c) = {}
    BY <1>0, <1>1 DEF FeedbackTypeOK, Leaving
  <2> QED
    BY <2>1, <1>0, <1>1, <1>4, <1>5, Aside DEF Erasing
<1>14. ErasingOK'
  <2> SUFFICES ASSUME NEW d \in Client, NEW t \in client'[d].turns \ unsure, client'[d].pc \in Erasing
               PROVE  /\ client'[d].pc \in {"rewrite", "wait"} => values[t] = Nothing
                      /\ client'[d].pc = "shared" /\ client'[d].whole => values[t] = Nothing
                      /\ client'[d].pc = "values" /\ backend = "redis" /\ ~client'[d].whole
                            => shared'[t] = Nothing
                      /\ client'[d].pc = "wait" =>
                            \A i, j \in DOMAIN queue : Awaits(d, i)' /\ i <= j => t \notin Named(queue[j])
                      /\ client'[d].pc \in {"shared", "values", "rewrite", "wait"} =>
                            \A r \in Record : TurnOf[r] = t => shown[r] = None
    BY <1>0 DEF ErasingOK, Named, Erasing
  <2>1. CASE d = c
    <3>1. k.pc = "values" /\ t \in turns /\ t \in Turn
      BY <2>1, <1>2, <1>4, <1>5 DEF Erasing
    <3> QED
      BY <3>1, <2>1, <1>1, <1>4, <1>6 DEF ErasingOK, turns
  <2>2. CASE d # c
    <3>1. client'[d] = client[d] /\ t \in Turn
      BY <2>2, <1>4, Calls
    <3> QED
      BY <3>1, <1>0, <1>6 DEF ErasingOK, Awaits
  <2> QED
    BY <2>1, <2>2
<1>15. ShownAgrees'
  BY <1>0, <1>2 DEF ShownAgrees
<1>16. ErasedOK'
  <2> SUFFICES ASSUME NEW t \in erased'
               PROVE  /\ values[t] = Nothing /\ shared'[t] = Nothing
                      /\ \A d \in Client : /\ client'[d].pc \in Posting => t \notin client'[d].turns
                                           /\ client'[d].pc = "rewrite" => t \notin TurnsIn(client'[d].events)
    BY <1>0, <1>7 DEF ErasedOK
  <2>1. t \in Turn
    BY <1>9
  <2>2. client'[c].pc \notin Posting /\ \A d \in Client : client'[d].pc # "rewrite"
    BY <1>2, <1>4, <1>5 DEF Posting, CallsSound, CallSound, Erasing
  <2>3. CASE t \in erased
    BY <2>1, <2>2, <2>3, <1>4, <1>6 DEF ErasedOK
  <2>4. CASE client[c].whole /\ t \in turns \ unsure
    BY <2>1, <2>2, <2>4, <1>1, <1>4, <1>6, <1>8 DEF ErasingOK, turns
  <2> QED
    BY <2>3, <2>4, <1>3
<1> QED
  BY <1>10, <1>11, <1>12, <1>13, <1>14, <1>15, <1>16

\* Redis may forget a turn at any time.
LEMMA ExpireKeeps ==
    ASSUME FeedbackInv, NEW t \in Turn, Expire(t)
    PROVE  FeedbackInv'
<1> USE DEF FeedbackInv
<1>1. /\ backend = "redis" /\ shared' = [shared EXCEPT ![t] = Nothing]
      /\ UNCHANGED <<backend, values, queue, file, rotated, shown, client, erasures, unsure, erased>>
  BY DEF Expire, counters
<1>2. shared' \in [Turn -> Signals] /\ \A x \in Turn : shared'[x] = IF x = t THEN Nothing ELSE shared[x]
  BY <1>1, SignalsAre DEF FeedbackTypeOK
<1>3. /\ Held' = Held /\ Bases' = Bases /\ \A b, x : Read(b, x)' = Read(b, x)
  BY <1>1, Unqueued
<1>4. FeedbackTypeOK' /\ Elsewhere'
  BY <1>1, <1>2 DEF FeedbackTypeOK, Elsewhere
<1>5. CallsSound' /\ Apart'
  BY <1>1 DEF CallsSound, CallSound, Apart, Overlap, Erases
<1>6. OneRewrite'
  BY <1>1 DEF OneRewrite, Awaits
<1>7. HeldIsKnown'
  BY <1>1, <1>3 DEF HeldIsKnown, Leaving
<1>8. IngestedOK'
  BY <1>1 DEF IngestedOK, Sending, Showing, Now
<1>9. ErasingOK'
  <2> SUFFICES ASSUME NEW d \in Client, NEW x \in client[d].turns \ unsure
               PROVE  /\ client[d].pc \in {"rewrite", "wait"} => values[x] = Nothing
                      /\ client[d].pc = "shared" /\ client[d].whole => values[x] = Nothing
                      /\ client[d].pc = "values" /\ backend = "redis" /\ ~client[d].whole
                            => shared'[x] = Nothing
                      /\ client[d].pc = "wait" =>
                            \A i, j \in DOMAIN queue : Awaits(d, i) /\ i <= j => x \notin Named(queue[j])
                      /\ client[d].pc \in {"shared", "values", "rewrite", "wait"} =>
                            \A r \in Record : TurnOf[r] = x => shown[r] = None
    BY <1>1 DEF ErasingOK, Named, Awaits
  <2>1. x \in Turn
    BY Calls
  <2> QED
    BY <2>1, <1>2 DEF ErasingOK
<1>10. SnapshotCurrent'
  <2> SUFFICES ASSUME NEW d \in Client, client[d].pc = "rewrite", NEW x \in Turn \ unsure
               PROVE  Replay(client[d].events)[x] = values[x]
    BY <1>1 DEF SnapshotCurrent
  <2> QED
    BY DEF SnapshotCurrent
<1>11. FileAgrees' /\ ShownAgrees'
  BY <1>1 DEF FileAgrees, ShownAgrees
<1>12. ErasedOK'
  <2>1. \A x \in erased : x \in Turn
    BY DEF FeedbackTypeOK
  <2> QED
    BY <2>1, <1>1, <1>2, <1>3 DEF ErasedOK
<1> QED
  BY <1>4, <1>5, <1>6, <1>7, <1>8, <1>9, <1>10, <1>11, <1>12

\* An erasure of the memory goes on to the file, to Redis, or is acknowledged.
LEMMA EraseValuesCases ==
    ASSUME FeedbackInv, NEW c \in Client, EraseValues(c)
    PROVE  /\ \A t \in Turn : values'[t] = IF t \in client[c].turns THEN Nothing ELSE values[t]
           /\ values' \in [Turn -> Signals]
           /\ \E k \in Call :
                /\ client' = [client EXCEPT ![c] = k]
                /\ k.pc \in {"rewrite", "shared", "idle"}
                /\ k = Idle \/ /\ k.turns = client[c].turns /\ k.id = client[c].id
                               /\ k.records = client[c].records /\ k.whole = client[c].whole
                /\ k.pc = "rewrite" => /\ backend = "file" /\ erased' = erased
                                       /\ k.events \in Seq(Event)
                                       /\ \A t \in Turn : Replay(k.events)[t] = values'[t]
                /\ k.pc = "shared" => backend = "redis" /\ k.whole /\ erased' = erased
                /\ k.pc = "idle" => /\ k = Idle /\ erased' = erased \cup (client[c].turns \ unsure)
                                    /\ backend = "file" => values' = values
                                    /\ backend = "redis" => ~client[c].whole
<1> USE DEF FeedbackInv
<1> DEFINE left == SetToSeq({t \in Turn : values'[t] # Nothing})
           events == [i \in DOMAIN left |-> FeedbackEvent(left[i], values'[left[i]])]
<1>1. /\ client[c].pc = "values" /\ client[c] \in EraseCall
      /\ values' = [t \in Turn |-> IF t \in client[c].turns THEN Nothing ELSE values[t]]
  BY Calls DEF EraseValues, Erasing
<1>2. values' \in [Turn -> Signals]
  BY <1>1, SignalsAre DEF FeedbackTypeOK
<1>3. events \in Seq(Event) /\ \A t \in Turn : Replay(events)[t] = values'[t]
  <2>v. PICK v : v = values'
    OBVIOUS
  <2>1. v \in [Turn -> Signals]
    BY <2>v, <1>2
  <2> QED
    BY <2>1, <2>v, Snapshot
<1>4. \A t \in Turn : values'[t] = IF t \in client[c].turns THEN Nothing ELSE values[t]
  BY <1>1
<1>5. \/ /\ backend = "file" /\ client' = [client EXCEPT ![c].pc = "rewrite", ![c].events = events]
         /\ erased' = erased
      \/ /\ backend = "redis" /\ client[c].whole /\ client' = [client EXCEPT ![c].pc = "shared"]
         /\ erased' = erased
      \/ /\ backend = "file" => values' = values
         /\ ~(backend = "redis" /\ client[c].whole)
         /\ client' = [client EXCEPT ![c] = Idle]
         /\ erased' = erased \cup (client[c].turns \ unsure)
  BY DEF EraseValues, Goto, Acknowledge, Reply
<1> HIDE DEF left, events
<1>6. CASE /\ backend = "file" /\ client' = [client EXCEPT ![c].pc = "rewrite", ![c].events = events]
           /\ erased' = erased
  <2>k. PICK k : k = [client[c] EXCEPT !.pc = "rewrite", !.events = events]
    OBVIOUS
  <2>1. /\ k \in EraseCall /\ k.pc = "rewrite" /\ k.events = events
        /\ k.turns = client[c].turns /\ k.id = client[c].id
        /\ k.records = client[c].records /\ k.whole = client[c].whole
    BY <2>k, <1>1, <1>3 DEF EraseCall, Erasing
  <2>2. client' = [client EXCEPT ![c] = k]
    BY <1>6, <2>k
  <2>3. k \in Call
    BY <2>1 DEF Call
  <2> QED
    BY <2>1, <2>2, <2>3, <1>1, <1>2, <1>3, <1>4, <1>6
<1>7. CASE /\ backend = "redis" /\ client[c].whole /\ client' = [client EXCEPT ![c].pc = "shared"]
           /\ erased' = erased
  <2>k. PICK k : k = [client[c] EXCEPT !.pc = "shared"]
    OBVIOUS
  <2>1. /\ k \in EraseCall /\ k.pc = "shared"
        /\ k.turns = client[c].turns /\ k.id = client[c].id
        /\ k.records = client[c].records /\ k.whole = client[c].whole
    BY <2>k, <1>1 DEF EraseCall, Erasing
  <2>2. client' = [client EXCEPT ![c] = k]
    BY <1>7, <2>k
  <2>3. k \in Call
    BY <2>1 DEF Call
  <2> QED
    BY <2>1, <2>2, <2>3, <1>1, <1>2, <1>4, <1>7
<1>8. CASE /\ backend = "file" => values' = values
           /\ ~(backend = "redis" /\ client[c].whole)
           /\ client' = [client EXCEPT ![c] = Idle]
           /\ erased' = erased \cup (client[c].turns \ unsure)
  <2>1. Idle \in Call /\ Idle.pc = "idle"
    BY DEF Call, Idle
  <2> QED
    BY <2>1, <1>1, <1>2, <1>4, <1>8
<1> QED
  BY <1>5, <1>6, <1>7, <1>8

\* Memory has the turns no more, and the snapshot of what is left is current.
LEMMA EraseValuesKeeps ==
    ASSUME FeedbackInv, NEW c \in Client, EraseValues(c)
    PROVE  FeedbackInv'
<1> USE DEF FeedbackInv
<1>t. PICK turns : turns = client[c].turns
  OBVIOUS
<1>1. client[c].pc = "values" /\ UNCHANGED <<backend, shared, queue, file, rotated, shown, erasures, unsure>>
  BY DEF EraseValues, counters
<1>2. /\ values' \in [Turn -> Signals]
      /\ \A t \in Turn : values'[t] = IF t \in turns THEN Nothing ELSE values[t]
  BY <1>t, EraseValuesCases
<1>3. PICK k \in Call :
         /\ client' = [client EXCEPT ![c] = k]
         /\ k.pc \in {"rewrite", "shared", "idle"}
         /\ k = Idle \/ /\ k.turns = client[c].turns /\ k.id = client[c].id
                        /\ k.records = client[c].records /\ k.whole = client[c].whole
         /\ k.pc = "rewrite" => /\ backend = "file" /\ erased' = erased
                                /\ k.events \in Seq(Event)
                                /\ \A t \in Turn : Replay(k.events)[t] = values'[t]
         /\ k.pc = "shared" => backend = "redis" /\ k.whole /\ erased' = erased
         /\ k.pc = "idle" => /\ k = Idle /\ erased' = erased \cup (client[c].turns \ unsure)
                             /\ backend = "file" => values' = values
                             /\ backend = "redis" => ~client[c].whole
  BY EraseValuesCases
<1>4. /\ client' \in [Client -> Call] /\ client'[c] = k
      /\ \A d \in Client : d # c => client'[d] = client[d]
  BY <1>3 DEF FeedbackTypeOK
<1>5. /\ turns \in SUBSET Turn /\ client[c] \in EraseCall /\ Leaving(c) = {}
      /\ k.pc # "idle" => k # Idle
      /\ Idle.turns = {} /\ Idle.pc = "idle"
  BY <1>1, <1>t, Calls DEF Erasing, Leaving, Idle
<1>6. erased' \in SUBSET Turn /\ erased \subseteq erased' /\ (k.pc # "idle" => erased' = erased)
      /\ (k.pc = "idle" => erased' = erased \cup (turns \ unsure))
  BY <1>3, <1>5, <1>t DEF FeedbackTypeOK
<1>7. \A t \in turns \ unsure, d \in Client : d # c => t \notin client[d].turns /\ client[d].pc \notin Erasing
  BY <1>t, Alone
<1>8. /\ Held' = Held /\ Bases' = Bases /\ \A b, x : Read(b, x)' = Read(b, x)
      /\ backend # "file" => Held = {}
  <2>1. TurnsIn(<<>>) = {}
    BY DEF TurnsIn, ToSet
  <2>2. backend # "file" => Held = {}
    BY <2>1 DEF Held, Elsewhere
  <2> QED
    BY <2>2, <1>1, Unqueued
<1>9. /\ \A t : ~Sending(c, t) /\ ~Showing(c, t) /\ ~Sending(c, t)' /\ ~Showing(c, t)'
      /\ \A d \in Client : \A t : d # c => /\ Sending(d, t)' <=> Sending(d, t)
                                           /\ Showing(d, t)' <=> Showing(d, t)
  BY <1>1, <1>3, <1>4 DEF Sending, Showing, Now
<1>10. \A d \in Client : d # c => Leaving(d)' = Leaving(d)
  BY <1>4 DEF Leaving
<1>11. FeedbackTypeOK' /\ Elsewhere'
  BY <1>1, <1>2, <1>4, <1>6 DEF FeedbackTypeOK, Elsewhere
<1>12. CallsSound'
  <2>1. CallSound(client[c])'
    <3>1. CASE k = Idle
      BY <3>1, <1>4, <1>5 DEF CallSound, Posting, Erasing
    <3>2. CASE k # Idle
      BY <3>2, <1>1, <1>3, <1>4 DEF CallsSound, CallSound, Posting, Erasing
    <3> QED
      BY <3>1, <3>2
  <2>2. backend' = backend /\ erasures' \in Nat /\ erasures <= erasures'
    BY <1>1 DEF FeedbackTypeOK
  <2> QED
    BY <2>1, <2>2, <1>4, CallsKept
<1>13. Apart'
  <2>1. k # Idle => Erases(k) /\ Erases(client[c])
    BY <1>1, <1>3 DEF Erases
  <2> QED
    BY <2>1, <1>1, <1>3, <1>4, ApartKept
<1>14. OneRewrite'
  <2> SUFFICES ASSUME NEW i \in DOMAIN queue, queue[i].op = "rewrite"
               PROVE  /\ queue[i].id < erasures
                      /\ \A d \in Client : (client'[d].pc \in Erasing /\ Awaits(d, i)') =>
                            client'[d].pc = "wait" /\ \A j \in DOMAIN queue : Awaits(d, j)' => j = i
    BY <1>1 DEF OneRewrite
  <2>1. ~Awaits(c, i)
    BY <1>1 DEF OneRewrite, Erasing
  <2>2. client'[c].pc \in Erasing => ~Awaits(c, i)'
    BY <2>1, <1>1, <1>3, <1>4, <1>5 DEF Awaits, Erasing
  <2>3. \A d \in Client : \A j : d # c => Awaits(d, j)' = Awaits(d, j)
    BY <1>1, <1>4 DEF Awaits
  <2> QED
    BY <2>2, <2>3, <1>4 DEF OneRewrite
<1>15. HeldIsKnown'
  <2> SUFFICES ASSUME NEW t \in Held \ unsure
               PROVE  values'[t] # Nothing \/ \E d \in Client : t \in Leaving(d)'
    BY <1>1, <1>8 DEF HeldIsKnown
  <2>1. backend = "file"
    BY <1>8
  <2>2. CASE k.pc = "idle"
    BY <2>1, <2>2, <1>3, <1>5, <1>10 DEF HeldIsKnown
  <2>3. CASE k.pc # "idle"
    <3>1. k.pc = "rewrite" /\ Leaving(c)' = turns
      BY <2>1, <2>3, <1>t, <1>3, <1>4, <1>5 DEF Leaving
    <3>2. CASE t \in turns
      BY <3>1, <3>2
    <3>3. CASE t \notin turns
      <4>1. values[t] # Nothing \/ \E d \in Client : t \in Leaving(d)
        BY DEF HeldIsKnown
      <4>2. \A d \in Client : t \in Leaving(d) => t \in Leaving(d)'
        BY <1>5, <1>10
      <4>3. CASE values[t] # Nothing
        <5>1. t \in Turn
          BY HeldInTurn
        <5> QED
          BY <5>1, <4>3, <3>3, <1>2
      <4> QED
        BY <4>1, <4>2, <4>3
    <3> QED
      BY <3>2, <3>3
  <2> QED
    BY <2>2, <2>3
<1>16. IngestedOK'
  <2> SUFFICES ASSUME NEW d \in Client, NEW t \in Turn \ unsure
               PROVE  /\ backend = "file" /\ Sending(d, t)' => values'[t] # Nothing
                      /\ Showing(d, t)' => client'[d].merged = values'[t]
    BY <1>1 DEF IngestedOK
  <2>1. CASE d = c
    BY <2>1, <1>9
  <2>2. CASE d # c
    <3>1. t \notin turns \/ (~Sending(d, t) /\ ~Showing(d, t))
      <4>1. client[d].pc \in Posting => Now(client[d]) \in client[d].turns
        BY NowIn
      <4> QED
        BY <4>1, <2>2, <1>7 DEF Sending, Showing, Posting
    <3> QED
      BY <3>1, <2>2, <1>2, <1>4, <1>9 DEF IngestedOK
  <2> QED
    BY <2>1, <2>2
<1>17. ErasingOK'
  <2> SUFFICES ASSUME NEW d \in Client, NEW t \in client'[d].turns \ unsure, client'[d].pc \in Erasing
               PROVE  /\ client'[d].pc \in {"rewrite", "wait"} => values'[t] = Nothing
                      /\ client'[d].pc = "shared" /\ client'[d].whole => values'[t] = Nothing
                      /\ client'[d].pc = "values" /\ backend = "redis" /\ ~client'[d].whole
                            => shared[t] = Nothing
                      /\ client'[d].pc = "wait" =>
                            \A i, j \in DOMAIN queue : Awaits(d, i)' /\ i <= j => t \notin Named(queue[j])
                      /\ client'[d].pc \in {"shared", "values", "rewrite", "wait"} =>
                            \A r \in Record : TurnOf[r] = t => shown[r] = None
    BY <1>1 DEF ErasingOK, Named, Erasing
  <2>1. CASE d = c
    <3>1. t \in turns /\ t \in client[c].turns /\ t \in Turn /\ k.pc \in {"rewrite", "shared"}
      BY <2>1, <1>t, <1>3, <1>4, <1>5 DEF Erasing
    <3>2. \A r \in Record : TurnOf[r] = t => shown[r] = None
      BY <3>1, <1>1 DEF ErasingOK
    <3>3. values'[t] = Nothing
      BY <3>1, <1>2
    <3> QED
      BY <3>1, <3>2, <3>3, <2>1, <1>4
  <2>2. CASE d # c
    <3>1. client'[d] = client[d] /\ t \in Turn
      BY <2>2, <1>4, Calls
    <3>2. values[t] = Nothing => values'[t] = Nothing
      BY <3>1, <1>2
    <3> QED
      BY <3>1, <3>2, <1>1 DEF ErasingOK, Awaits
  <2> QED
    BY <2>1, <2>2
<1>18. SnapshotCurrent'
  <2> SUFFICES ASSUME NEW d \in Client, client'[d].pc = "rewrite", NEW t \in Turn \ unsure
               PROVE  Replay(client'[d].events)[t] = values'[t]
    BY <1>1 DEF SnapshotCurrent
  <2>1. CASE d = c
    BY <2>1, <1>3, <1>4
  <2>2. CASE d # c
    <3>1. t \notin turns
      BY <2>2, <1>4, <1>7 DEF Erasing
    <3> QED
      BY <3>1, <2>2, <1>2, <1>4 DEF SnapshotCurrent
  <2> QED
    BY <2>1, <2>2
<1>19. FileAgrees'
  <2> SUFFICES ASSUME backend = "file", NEW t \in Turn \ unsure, NEW b \in Bases, Counts(t, b)'
               PROVE  /\ (\A d \in Client : ~Sending(d, t)') => values'[t] = Read(b, t)
                      /\ \A d \in Client : Sending(d, t)' =>
                            values'[t] = Merge(Read(b, t), client'[d].signals)
    BY <1>1, <1>8 DEF FileAgrees
  <2>1. Counts(t, b)
    <3>1. \A d \in Client : \A i : t \in Leaving(d) => client'[d].pc = client[d].pc /\ Awaits(d, i)' = Awaits(d, i)
      BY <1>1, <1>4 DEF Leaving, Awaits
    <3> QED
      BY <3>1, <1>1, <1>5, <1>10 DEF Counts
  <2>2. values'[t] = values[t]
    <3>1. CASE k.pc = "idle"
      BY <3>1, <1>3
    <3>2. CASE k.pc # "idle"
      <4>1. k.pc = "rewrite" /\ Leaving(c)' = turns
        BY <3>2, <1>t, <1>3, <1>4, <1>5 DEF Leaving
      <4>2. t \notin turns
        BY <4>1, <1>4 DEF Counts
      <4> QED
        BY <4>2, <1>2
    <3> QED
      BY <3>1, <3>2
  <2>3. \A d \in Client : /\ Sending(d, t)' <=> Sending(d, t)
                          /\ Sending(d, t)' => client'[d].signals = client[d].signals
    BY <1>4, <1>9
  <2> QED
    BY <2>1, <2>2, <2>3 DEF FileAgrees
<1>20. ShownAgrees'
  <2> SUFFICES ASSUME backend = "file"
               PROVE  /\ \A r \in Record :
                            (shown[r] # None /\ TurnOf[r] \notin unsure
                             /\ \A d \in Client : ~Showing(d, TurnOf[r])') => shown[r] = values'[TurnOf[r]]
                      /\ \A d \in Client :
                            (client'[d].pc = "store" /\ TurnOf[client'[d].record] \notin unsure)
                                => client'[d].signals = values'[TurnOf[client'[d].record]]
    BY <1>1 DEF ShownAgrees
  <2>0. \A r \in Record : TurnOf[r] \in Turn
    BY FeedbackAssumption
  <2>1. ASSUME NEW r \in Record, shown[r] # None, TurnOf[r] \notin unsure,
               \A d \in Client : ~Showing(d, TurnOf[r])'
        PROVE  shown[r] = values'[TurnOf[r]]
    <3>1. TurnOf[r] \notin turns
      BY <2>1, <1>1, <1>t DEF ErasingOK
    <3>2. \A d \in Client : ~Showing(d, TurnOf[r])
      BY <2>1, <1>9
    <3> QED
      BY <3>1, <3>2, <2>0, <2>1, <1>2 DEF ShownAgrees
  <2>2. ASSUME NEW d \in Client, client'[d].pc = "store", TurnOf[client'[d].record] \notin unsure
        PROVE  client'[d].signals = values'[TurnOf[client'[d].record]]
    <3>1. d # c /\ client'[d] = client[d]
      BY <2>2, <1>3, <1>4
    <3>2. client[d].record \in Record /\ TurnOf[client[d].record] \in client[d].turns
      BY <2>2, <3>1, Calls DEF StoreCall, CallsSound, CallSound
    <3>3. TurnOf[client[d].record] \notin turns
      BY <2>2, <3>1, <3>2, <1>7
    <3> QED
      BY <2>0, <2>2, <3>1, <3>2, <3>3, <1>2 DEF ShownAgrees
  <2> QED
    BY <2>1, <2>2
<1>21. ErasedOK'
  <2> SUFFICES ASSUME NEW t \in erased'
               PROVE  /\ values'[t] = Nothing /\ shared[t] = Nothing /\ t \notin Held
                      /\ \A d \in Client : /\ client'[d].pc \in Posting => t \notin client'[d].turns
                                           /\ client'[d].pc = "rewrite" => t \notin TurnsIn(client'[d].events)
    BY <1>1, <1>8 DEF ErasedOK
  <2>1. t \in Turn /\ client'[c].pc \notin Posting
    BY <1>3, <1>4, <1>6 DEF Posting
  <2>2. CASE t \in erased
    <3>1. values'[t] = Nothing
      BY <2>1, <2>2, <1>2 DEF ErasedOK
    <3>2. client'[c].pc = "rewrite" => t \notin TurnsIn(client'[c].events)
      <4>1. k.pc = "rewrite" => k.events \in Seq(Entry) /\ Replay(k.events)[t] = Nothing
        BY <3>1, <2>1, <1>3, Entries, SeqMonotonic
      <4> QED
        BY <4>1, <2>1, <1>4, ReplayHas
    <3> QED
      BY <3>1, <3>2, <2>1, <2>2, <1>4 DEF ErasedOK
  <2>3. CASE t \notin erased
    <3>1. k.pc = "idle" /\ t \in turns \ unsure /\ t \in client[c].turns
      BY <2>3, <1>t, <1>6
    <3>2. values'[t] = Nothing
      BY <3>1, <2>1, <1>2
    <3>3. shared[t] = Nothing
      BY <3>1, <2>1, <1>1, <1>3 DEF ErasingOK, Elsewhere, FeedbackTypeOK
    <3>4. t \notin Held
      <4> SUFFICES ASSUME t \in Held PROVE FALSE
        OBVIOUS
      <4>1. values[t] = Nothing
        BY <3>1, <3>2, <1>3, <1>8
      <4>2. \A d \in Client : t \notin Leaving(d)
        BY <3>1, <1>5, <1>7 DEF Leaving
      <4> QED
        BY <4>1, <4>2, <3>1 DEF HeldIsKnown
    <3>5. \A d \in Client : d # c => client'[d].pc # "rewrite" /\ t \notin client'[d].turns
      BY <3>1, <1>4, <1>7 DEF Erasing
    <3>6. client'[c].pc # "rewrite"
      BY <3>1, <1>4
    <3> QED
      BY <3>2, <3>3, <3>4, <3>5, <3>6, <2>1
  <2> QED
    BY <2>2, <2>3
<1> QED
  BY <1>11, <1>12, <1>13, <1>14, <1>15, <1>16, <1>17, <1>18, <1>19, <1>20, <1>21

\* The rewrite is queued with the snapshot that was taken.
LEMMA SendRewriteKeeps ==
    ASSUME FeedbackInv, NEW c \in Client, SendRewrite(c)
    PROVE  FeedbackInv'
<1> USE DEF FeedbackInv
<1>t. PICK turns : turns = client[c].turns
  OBVIOUS
<1>e. PICK e : e = Rewrite(client[c].events, c, client[c].id)
  OBVIOUS
<1>n. PICK n \in Nat : n = Len(queue)
  BY BasesAre
<1>1. /\ client[c].pc = "rewrite" /\ queue' = Append(queue, e)
      /\ client' = [client EXCEPT ![c].pc = "wait"]
      /\ UNCHANGED <<backend, values, shared, file, rotated, shown, erasures, unsure, erased>>
  BY <1>e DEF SendRewrite, Goto, counters
<1>2. /\ client[c] \in EraseCall /\ turns \in SUBSET Turn
      /\ client[c].events \in Seq(Event) /\ client[c].id \in Nat /\ client[c].id < erasures
      /\ backend = "file"
  <2>1. client[c] \in EraseCall
    BY <1>1, Calls DEF Erasing
  <2> QED
    BY <2>1, <1>1, <1>t DEF EraseCall, CallsSound, CallSound, Erasing
<1>3. /\ e \in Rewriting /\ e \in Command /\ e.op = "rewrite" /\ e.by = c /\ e.id = client[c].id
      /\ e.events = client[c].events /\ e.events \in Seq(Entry) /\ Named(e) = TurnsIn(e.events)
  <2>1. /\ e \in Rewriting /\ e.op = "rewrite" /\ e.by = c /\ e.id = client[c].id
        /\ e.events = client[c].events
    BY <1>2, <1>e DEF Rewrite, Rewriting
  <2> QED
    BY <2>1, <1>2, Entries, SeqMonotonic DEF Command, Named
<1>k. PICK k : k = [client[c] EXCEPT !.pc = "wait"]
  OBVIOUS
<1>4. /\ k \in EraseCall /\ k.pc = "wait" /\ k.turns = turns /\ k.id = client[c].id
      /\ k.records = client[c].records /\ k.whole = client[c].whole
  BY <1>k, <1>t, <1>2 DEF EraseCall, Erasing
<1>5. /\ client' \in [Client -> Call] /\ client'[c] = k
      /\ \A d \in Client : d # c => client'[d] = client[d]
  BY <1>1, <1>k, <1>4 DEF FeedbackTypeOK, Call
<1>6. /\ Len(queue') = n + 1 /\ DOMAIN queue' = 1 .. (n + 1) /\ DOMAIN queue = 1 .. n
      /\ \A i \in 1 .. n : queue'[i] = queue[i]
      /\ queue'[n + 1] = e
      /\ queue' \in Seq(Command)
      /\ Bases' = Bases \cup {n + 1} /\ Bases \subseteq 0 .. n
      /\ \A b \in Bases, t \in Turn : Read(b, t)' = Merge(Read(b, t), Replay(<<e>>)[t])
      /\ \A t \in Turn : Read(n + 1, t)' = Replay(e.events)[t]
      /\ Held' = Held \cup TurnsIn(e.events)
  <2>1. /\ Len(queue') = n + 1 /\ DOMAIN queue' = 1 .. (n + 1)
        /\ \A i \in 1 .. n : queue'[i] = queue[i]
        /\ queue'[n + 1] = e
        /\ queue' \in Seq(Command)
        /\ Bases' = Bases \cup (IF e.op = "rewrite" THEN {n + 1} ELSE {})
        /\ \A b \in Bases, t \in Turn : Read(b, t)' = Merge(Read(b, t), Replay(<<e>>)[t])
        /\ e.op = "rewrite" => \A t \in Turn : Read(n + 1, t)' = Replay(e.events)[t]
        /\ rotated' = rotated => Held' = Held \cup Named(e)
    BY <1>1, <1>3, <1>n, Queued
  <2>2. DOMAIN queue = 1 .. n /\ Bases \subseteq 0 .. n
    BY <1>n, BasesAre
  <2> QED
    BY <2>1, <2>2, <1>1, <1>3
<1>7. \A b \in Bases, t \in Turn : Read(b, t)' = Read(b, t)
  <2> SUFFICES ASSUME NEW b \in Bases, NEW t \in Turn PROVE Read(b, t)' = Read(b, t)
    OBVIOUS
  <2>1. Replay(<<e>>)[t] = Nothing
    BY <1>3, Entries, ReplayOne
  <2>2. Read(b, t)' = Merge(Read(b, t), Nothing)
    BY <2>1, <1>6
  <2>3. Read(b, t) \in Signals
    BY ReadIs
  <2> QED
    BY <2>2, <2>3, SignalsAre, MergeIs
<1>8. \A t \in Turn \ unsure : /\ Replay(e.events)[t] = values[t]
                               /\ t \in TurnsIn(e.events) <=> values[t] # Nothing
                               /\ t \in turns => values[t] = Nothing
  <2> SUFFICES ASSUME NEW t \in Turn \ unsure
               PROVE  /\ Replay(e.events)[t] = values[t]
                      /\ t \in TurnsIn(e.events) <=> values[t] # Nothing
                      /\ t \in turns => values[t] = Nothing
    OBVIOUS
  <2>1. Replay(e.events)[t] = values[t]
    BY <1>1, <1>3 DEF SnapshotCurrent
  <2>2. t \in turns => values[t] = Nothing
    BY <1>1, <1>t DEF ErasingOK
  <2> QED
    BY <2>1, <2>2, <1>3, ReplayHas
<1>9. \A t \in turns \ unsure, d \in Client : d # c => t \notin client[d].turns /\ client[d].pc \notin Erasing
  BY <1>t, Alone
<1>10. \A d \in Client : \A t \in client[d].turns \ unsure : d # c => client[d].pc \notin Erasing
  BY <1>1, Alone DEF Erasing
<1>11. \A d \in Client : Leaving(d)' = Leaving(d)
  BY <1>1, <1>t, <1>4, <1>5 DEF Leaving
<1>12. /\ \A t : ~Sending(c, t) /\ ~Showing(c, t) /\ ~Sending(c, t)' /\ ~Showing(c, t)'
       /\ \A d \in Client : \A t : d # c => /\ Sending(d, t)' <=> Sending(d, t)
                                            /\ Showing(d, t)' <=> Showing(d, t)
  BY <1>1, <1>4, <1>5 DEF Sending, Showing, Now
<1>13. /\ Awaits(c, n + 1)'
       /\ \A d \in Client : d # c => ~Awaits(d, n + 1)'
       /\ \A d \in Client, i \in 1 .. n : Awaits(d, i)' <=> Awaits(d, i)
       /\ \A i \in 1 .. n : ~Awaits(c, i)
  <2>1. \A i \in 1 .. n : ~Awaits(c, i)
    BY <1>1, <1>6 DEF OneRewrite, Awaits, Erasing
  <2>2. \A d \in Client : client'[d].id = client[d].id
    BY <1>4, <1>5
  <2> QED
    BY <2>1, <2>2, <1>3, <1>6 DEF Awaits
<1>14. FeedbackTypeOK' /\ Elsewhere'
  BY <1>1, <1>2, <1>5, <1>6 DEF FeedbackTypeOK, Elsewhere
<1>15. CallsSound'
  <2>1. CallSound(client[c])'
    BY <1>1, <1>2, <1>t, <1>4, <1>5 DEF CallsSound, CallSound, Posting, Erasing
  <2>2. backend' = backend /\ erasures' \in Nat /\ erasures <= erasures'
    BY <1>1 DEF FeedbackTypeOK
  <2> QED
    BY <2>1, <2>2, <1>5, CallsKept
<1>16. Apart'
  <2>1. Erases(k) /\ Erases(client[c]) /\ client'[c].turns \subseteq client[c].turns
    BY <1>1, <1>t, <1>4, <1>5 DEF Erases
  <2> QED
    BY <2>1, <1>1, <1>5, ApartKept
<1>17. OneRewrite'
  <2> SUFFICES ASSUME NEW i \in 1 .. (n + 1), queue'[i].op = "rewrite"
               PROVE  /\ queue'[i].id < erasures
                      /\ \A d \in Client : (client'[d].pc \in Erasing /\ Awaits(d, i)') =>
                            client'[d].pc = "wait" /\ \A j \in 1 .. (n + 1) : Awaits(d, j)' => j = i
    BY <1>1, <1>6 DEF OneRewrite
  <2>0. \A j \in 1 .. (n + 1) : j \in 1 .. n \/ j = n + 1
    OBVIOUS
  <2>1. queue'[i].id < erasures
    BY <2>0, <1>2, <1>3, <1>6 DEF OneRewrite
  <2>2. ASSUME NEW d \in Client, client'[d].pc \in Erasing, Awaits(d, i)'
        PROVE  client'[d].pc = "wait" /\ \A j \in 1 .. (n + 1) : Awaits(d, j)' => j = i
    <3>1. CASE d = c
      BY <3>1, <2>0, <2>2, <1>4, <1>5, <1>13
    <3>2. CASE d # c
      <4>1. i \in 1 .. n /\ Awaits(d, i) /\ client'[d] = client[d]
        BY <3>2, <2>0, <2>2, <1>5, <1>13
      <4>2. queue[i].op = "rewrite"
        BY <4>1 DEF Awaits
      <4>3. client[d].pc = "wait" /\ \A j \in 1 .. n : Awaits(d, j) => j = i
        BY <4>1, <4>2, <2>2, <1>6 DEF OneRewrite
      <4> QED
        BY <3>2, <4>1, <4>3, <2>0, <1>13
    <3> QED
      BY <3>1, <3>2
  <2> QED
    BY <2>1, <2>2
<1>18. HeldIsKnown'
  <2> SUFFICES ASSUME NEW t \in (Held \cup TurnsIn(e.events)) \ unsure
               PROVE  values[t] # Nothing \/ \E d \in Client : t \in Leaving(d)
    BY <1>1, <1>6, <1>11 DEF HeldIsKnown
  <2>1. CASE t \in Held
    BY <2>1 DEF HeldIsKnown
  <2>2. CASE t \in TurnsIn(e.events)
    <3>1. t \in Turn
      BY <2>2, <1>3, TurnsInJoin
    <3> QED
      BY <3>1, <2>2, <1>8
  <2> QED
    BY <2>1, <2>2
<1>19. IngestedOK'
  <2> SUFFICES ASSUME NEW d \in Client, NEW t \in Turn \ unsure
               PROVE  /\ backend = "file" /\ Sending(d, t)' => values[t] # Nothing
                      /\ Showing(d, t)' => client'[d].merged = values[t]
    BY <1>1 DEF IngestedOK
  <2> QED
    BY <1>5, <1>12 DEF IngestedOK
<1>20. ErasingOK'
  <2> SUFFICES ASSUME NEW d \in Client, NEW t \in client'[d].turns \ unsure, client'[d].pc \in Erasing
               PROVE  /\ client'[d].pc \in {"rewrite", "wait"} => values[t] = Nothing
                      /\ client'[d].pc = "shared" /\ client'[d].whole => values[t] = Nothing
                      /\ client'[d].pc = "values" /\ backend = "redis" /\ ~client'[d].whole
                            => shared[t] = Nothing
                      /\ client'[d].pc = "wait" =>
                            \A i, j \in DOMAIN queue' : Awaits(d, i)' /\ i <= j => t \notin Named(queue'[j])
                      /\ client'[d].pc \in {"shared", "values", "rewrite", "wait"} =>
                            \A r \in Record : TurnOf[r] = t => shown[r] = None
    BY <1>1 DEF ErasingOK, Named, Erasing
  <2>1. d = c /\ t \in turns /\ t \in Turn
    BY <1>2, <1>4, <1>5, <1>10
  <2>2. values[t] = Nothing /\ t \notin TurnsIn(e.events)
    BY <2>1, <1>8
  <2>3. \A r \in Record : TurnOf[r] = t => shown[r] = None
    BY <2>1, <1>t, <1>1 DEF ErasingOK
  <2>4. ASSUME NEW i \in DOMAIN queue', NEW j \in DOMAIN queue', Awaits(d, i)', i <= j
        PROVE  t \notin Named(queue'[j])
    <3>1. i = n + 1
      <4>1. i \in 1 .. n \/ i = n + 1
        BY <1>6
      <4> QED
        BY <4>1, <2>1, <2>4, <1>13
    <3>2. j = n + 1
      BY <3>1, <2>4, <1>6
    <3> QED
      BY <3>2, <2>2, <1>3, <1>6
  <2> QED
    BY <2>1, <2>2, <2>3, <2>4, <1>4, <1>5
<1>21. SnapshotCurrent'
  <2> SUFFICES ASSUME NEW d \in Client, client'[d].pc = "rewrite", NEW t \in Turn \ unsure
               PROVE  Replay(client'[d].events)[t] = values[t]
    BY <1>1 DEF SnapshotCurrent
  <2> QED
    BY <1>4, <1>5 DEF SnapshotCurrent
<1>22. FileAgrees'
  <2> SUFFICES ASSUME NEW t \in Turn \ unsure, NEW b \in Bases \cup {n + 1}, Counts(t, b)'
               PROVE  /\ (\A d \in Client : ~Sending(d, t)) => values[t] = Read(b, t)'
                      /\ \A d \in Client : Sending(d, t) => values[t] = Merge(Read(b, t)', client[d].signals)
    <3>1. \A d \in Client : \A t : Sending(d, t)' <=> Sending(d, t)
      BY <1>12
    <3>2. \A d \in Client : \A t : Sending(d, t) => client'[d].signals = client[d].signals
      BY <1>5, <1>12
    <3> QED
      BY <3>1, <3>2, <1>1, <1>6 DEF FileAgrees
  <2>1. CASE b \in Bases
    <3>1. t \notin turns
      <4>1. b < n + 1 /\ n + 1 \in DOMAIN queue' /\ b \in Nat
        BY <2>1, <1>6
      <4>2. t \in turns => n + 1 <= b
        BY <4>1, <1>4, <1>5, <1>13 DEF Counts, Leaving
      <4> QED
        BY <4>1, <4>2
    <3>2. Counts(t, b)
      <4> SUFFICES ASSUME NEW d \in Client, t \in Leaving(d)
                   PROVE  /\ client[d].pc = "wait"
                          /\ \A i \in DOMAIN queue : Awaits(d, i) => i <= b
        BY <1>1 DEF Counts
      <4>1. d # c
        BY <3>1, <1>1, <1>t DEF Leaving
      <4>2. client'[d].pc = "wait" /\ \A i \in DOMAIN queue' : Awaits(d, i)' => i <= b
        BY <1>11 DEF Counts
      <4> QED
        BY <4>1, <4>2, <1>5, <1>6, <1>13
    <3> QED
      BY <2>1, <3>2, <1>2, <1>7 DEF FileAgrees
  <2>2. CASE b = n + 1
    <3>1. Read(b, t)' = values[t]
      BY <2>2, <1>6, <1>8
    <3>2. \A d \in Client : ~Sending(d, t)
      <4> SUFFICES ASSUME NEW d \in Client, Sending(d, t) PROVE FALSE
        OBVIOUS
      <4>1. d # c /\ t \in client[d].turns
        BY <1>12, NowIn DEF Sending, Posting
      <4> QED
        BY <4>1, <1>1, Alone DEF Erasing
    <3> QED
      BY <3>1, <3>2
  <2> QED
    BY <2>1, <2>2
<1>23. ShownAgrees'
  <2> SUFFICES ASSUME backend = "file"
               PROVE  /\ \A r \in Record :
                            (shown[r] # None /\ TurnOf[r] \notin unsure
                             /\ \A d \in Client : ~Showing(d, TurnOf[r])') => shown[r] = values[TurnOf[r]]
                      /\ \A d \in Client :
                            (client'[d].pc = "store" /\ TurnOf[client'[d].record] \notin unsure)
                                => client'[d].signals = values[TurnOf[client'[d].record]]
    BY <1>1 DEF ShownAgrees
  <2>1. \A d \in Client : \A t : Showing(d, t)' <=> Showing(d, t)
    BY <1>12
  <2>2. \A d \in Client : client'[d].pc = "store" => client'[d] = client[d]
    BY <1>4, <1>5
  <2> QED
    BY <2>1, <2>2 DEF ShownAgrees
<1>24. ErasedOK'
  <2> SUFFICES ASSUME NEW t \in erased
               PROVE  /\ values[t] = Nothing /\ shared[t] = Nothing /\ t \notin Held
                      /\ t \notin TurnsIn(e.events)
                      /\ \A d \in Client : /\ client'[d].pc \in Posting => t \notin client'[d].turns
                                           /\ client'[d].pc = "rewrite" => t \notin TurnsIn(client'[d].events)
    BY <1>1, <1>6 DEF ErasedOK
  <2>1. t \notin TurnsIn(e.events)
    BY <1>1, <1>3 DEF ErasedOK
  <2> QED
    BY <2>1, <1>4, <1>5 DEF ErasedOK, Posting
<1> QED
  BY <1>14, <1>15, <1>16, <1>17, <1>18, <1>19, <1>20, <1>21, <1>22, <1>23, <1>24

-----------------------------------------------------------------------------
(* The writer.                                                               *)

\* What is read of the file when an event is written, or is not.
LEMMA LineWritten ==
    ASSUME NEW onto \in Seq(Line), NEW e \in Event, NEW f,
           \/ f \in {onto, Append(onto, e), Torned(onto)}
           \/ EndsTorn(onto) /\ f = Front(onto)
    PROVE  /\ f \in Seq(Line)
           /\ TurnsIn(f) \subseteq TurnsIn(onto) \cup {e.turn}
           /\ \A t \in Turn : t # e.turn \/ f = Append(onto, e) =>
                 Replay(f)[t] = Merge(Replay(onto)[t], Replay(<<e>>)[t])
<1>1. /\ onto \in Seq(Entry) /\ e \in Entry /\ e \in Line /\ Torn \in Line /\ Torn \in Entry
      /\ e.op = "append" /\ Torn.op = "torn" /\ <<e>> \in Seq(Entry) /\ <<Torn>> \in Seq(Entry)
  <2>1. onto \in Seq(Entry)
    BY Entries, SeqMonotonic
  <2> QED
    BY <2>1, Entries DEF Line
<1>2. \A t \in Turn : /\ Replay(onto)[t] \in Signals
                      /\ Replay(<<Torn>>)[t] = Nothing
                      /\ t # e.turn => Replay(<<e>>)[t] = Nothing
  BY <1>1, ReplayTyped, ReplayOne
<1>3. TurnsIn(<<Torn>>) = {} /\ TurnsIn(<<e>>) = {e.turn}
  BY <1>1, TurnsInOne
<1>4. CASE f = onto
  <2>1. f # Append(onto, e)
    <3>1. Len(Append(onto, e)) = Len(onto) + 1 /\ Len(onto) \in Nat
      BY <1>1
    <3> QED
      BY <3>1, <1>4
  <2>2. \A t \in Turn : Merge(Replay(onto)[t], Nothing) = Replay(onto)[t]
    BY <1>2, SignalsAre, MergeIs
  <2> QED
    BY <2>1, <2>2, <1>2, <1>4
<1>5. CASE f = Append(onto, e)
  <2>1. f = onto \o <<e>> /\ f \in Seq(Line)
    BY <1>1, <1>5, AppendIsConcat
  <2>2. TurnsIn(f) = TurnsIn(onto) \cup TurnsIn(<<e>>)
    BY <1>1, <2>1, TurnsInJoin
  <2>3. \A t \in Turn : Replay(f)[t] = Merge(Replay(onto)[t], Replay(<<e>>)[t])
    BY <1>1, <2>1, ReplayJoins
  <2> QED
    BY <1>3, <2>1, <2>2, <2>3
<1>6. CASE f = Append(onto, Torn)
  <2>1. f = onto \o <<Torn>> /\ f \in Seq(Line)
    BY <1>1, <1>6, AppendIsConcat
  <2>2. TurnsIn(f) = TurnsIn(onto) \cup TurnsIn(<<Torn>>)
    BY <1>1, <2>1, TurnsInJoin
  <2>3. \A t \in Turn : Replay(f)[t] = Merge(Replay(onto)[t], Replay(<<Torn>>)[t])
    BY <1>1, <2>1, ReplayJoins
  <2>4. f # Append(onto, e)
    <3>1. Len(onto) + 1 \in Nat /\ f[Len(onto) + 1] = Torn /\ Append(onto, e)[Len(onto) + 1] = e
      BY <1>1, <1>6
    <3> QED
      BY <3>1, <1>1
  <2> QED
    BY <1>2, <1>3, <2>1, <2>2, <2>3, <2>4
<1>7. CASE EndsTorn(onto) /\ f = Front(onto)
  <2>1. onto # <<>> /\ Last(onto) = Torn
    BY <1>7 DEF EndsTorn
  <2>2. f \in Seq(Line) /\ onto = f \o <<Torn>>
    <3>1. Len(onto) \in Nat /\ Len(onto) >= 1 /\ onto[Len(onto)] = Torn /\ onto[Len(onto)] \in Line
      BY <2>1 DEF Last
    <3>2. SubSeq(onto, 1, Len(onto)) = SubSeq(onto, 1, Len(onto) - 1) \o <<onto[Len(onto)]>>
      BY <3>1, SubSeqRecursiveSecond
    <3>3. SubSeq(onto, 1, Len(onto)) = onto
      BY SubSeqFull
    <3>4. f = SubSeq(onto, 1, Len(onto) - 1)
      BY <1>7 DEF Front
    <3>5. \A i \in 1 .. Len(onto) - 1 : onto[i] \in Line
      BY <3>1
    <3>6. f \in Seq(Line)
      BY <3>1, <3>4, <3>5, SubSeqProperties
    <3> QED
      BY <3>1, <3>2, <3>3, <3>4, <3>6
  <2>3. f \in Seq(Entry)
    BY <2>2, Entries, SeqMonotonic
  <2>4. onto = f \o <<Torn>>
    BY <2>2
  <2>5. TurnsIn(onto) = TurnsIn(f) \cup TurnsIn(<<Torn>>)
    BY <1>1, <2>3, <2>4, TurnsInJoin
  <2>6. \A t \in Turn : Replay(onto)[t] = Merge(Replay(f)[t], Replay(<<Torn>>)[t]) /\ Replay(f)[t] \in Signals
    BY <1>1, <2>3, <2>4, ReplayJoins, ReplayTyped
  <2>7. \A t \in Turn : Replay(onto)[t] = Replay(f)[t]
    BY <2>6, <1>2, SignalsAre, MergeIs
  <2>8. f # Append(onto, e)
    <3>1. Len(onto) = Len(f) + 1 /\ Len(f) \in Nat /\ Len(Append(onto, e)) = Len(onto) + 1
      BY <1>1, <2>2
    <3> QED
      BY <3>1
  <2> QED
    BY <1>2, <1>3, <2>2, <2>5, <2>6, <2>7, <2>8, MergeIs
<1> QED
  BY <1>4, <1>5, <1>6, <1>7 DEF Torned

\* What a write leaves of a turn that is not unsure is what it had with the event on top.
LEMMA WriteAppendCases ==
    ASSUME FeedbackInv, WriteAppend
    PROVE  /\ queue # <<>> /\ queue' = Tail(queue) /\ Head(queue) \in Event
           /\ file' \in Seq(Line) /\ rotated' \in Seq(Line)
           /\ unsure' \in SUBSET Turn /\ unsure \subseteq unsure'
           /\ UNCHANGED <<backend, values, shared, shown, client, erasures, erased>>
           /\ TurnsIn(file') \cup TurnsIn(rotated')
                 \subseteq TurnsIn(file) \cup TurnsIn(rotated) \cup {Head(queue).turn}
           /\ TurnsIn(rotated) \subseteq TurnsIn(rotated') \cup unsure'
           /\ \A t \in Turn \ unsure' : t \notin TurnsIn(rotated') =>
                 Replay(file')[t] = Merge(Replay(file)[t], Replay(<<Head(queue)>>)[t])
<1> USE DEF FeedbackInv
<1>e. PICK e : e = Head(queue)
  OBVIOUS
<1>o. PICK onto : onto = IF Len(file) >= FileEvents THEN <<>> ELSE file
  OBVIOUS
<1>l. PICK lost : lost = IF Len(file) >= FileEvents THEN TurnsIn(rotated) ELSE {}
  OBVIOUS
<1>1. /\ queue # <<>> /\ queue' = Tail(queue) /\ e.op = "append"
      /\ UNCHANGED <<backend, values, shared, shown, client, erasures, erased>>
      /\ rotated' = IF Len(file) >= FileEvents THEN file ELSE rotated
      /\ \/ /\ file' = IF EndsTorn(onto) THEN Front(onto) ELSE Append(onto, e)
            /\ unsure' = unsure \cup lost \cup IF EndsTorn(onto) THEN {e.turn} ELSE {}
         \/ /\ file' \in {onto, Torned(onto)}
            /\ unsure' = unsure \cup lost \cup {e.turn}
  BY <1>e, <1>o, <1>l DEF WriteAppend
<1>2. file \in Seq(Line) /\ rotated \in Seq(Line) /\ queue \in Seq(Command) /\ unsure \in SUBSET Turn
  BY DEF FeedbackTypeOK
<1>3. e \in Event /\ e.turn \in Turn
  <2>1. e \in Command
    BY <1>1, <1>2, <1>e
  <2> QED
    BY <1>1, <2>1, Entries
<1>4. lost \subseteq Turn /\ onto \in Seq(Line) /\ rotated' \in Seq(Line)
  <2>1. TurnsIn(rotated) \subseteq Turn
    BY BasesAre, TurnsInJoin
  <2> QED
    BY <1>1, <1>2, <1>o, <1>l, <2>1
<1>f. PICK f : f = file'
  OBVIOUS
<1>5. \/ f \in {onto, Append(onto, e), Torned(onto)}
      \/ EndsTorn(onto) /\ f = Front(onto)
  BY <1>1, <1>f
<1>6. /\ f \in Seq(Line)
      /\ TurnsIn(f) \subseteq TurnsIn(onto) \cup {e.turn}
      /\ \A t \in Turn : t # e.turn \/ f = Append(onto, e) =>
            Replay(f)[t] = Merge(Replay(onto)[t], Replay(<<e>>)[t])
  BY <1>3, <1>4, <1>5, LineWritten
<1>7. unsure' \in SUBSET Turn /\ unsure \subseteq unsure' /\ lost \subseteq unsure'
      /\ (f # Append(onto, e) => e.turn \in unsure')
  BY <1>1, <1>2, <1>3, <1>4, <1>f
<1>8. TurnsIn(<<>>) = {} /\ TurnsIn(onto) \subseteq TurnsIn(file)
  BY <1>o, TurnsInJoin, BasesAre
<1>9. TurnsIn(file') \cup TurnsIn(rotated')
         \subseteq TurnsIn(file) \cup TurnsIn(rotated) \cup {e.turn}
  BY <1>1, <1>6, <1>8, <1>f
<1>10. TurnsIn(rotated) \subseteq TurnsIn(rotated') \cup unsure'
  BY <1>1, <1>7, <1>l
<1>11. ASSUME NEW t \in Turn \ unsure', t \notin TurnsIn(rotated')
       PROVE  Replay(file')[t] = Merge(Replay(file)[t], Replay(<<e>>)[t])
  <2>1. Replay(f)[t] = Merge(Replay(onto)[t], Replay(<<e>>)[t])
    BY <1>6, <1>7
  <2>2. Replay(onto)[t] = Replay(file)[t]
    <3>1. CASE Len(file) >= FileEvents
      <4>1. t \notin TurnsIn(file) /\ t \notin TurnsIn(onto)
        BY <3>1, <1>1, <1>8, <1>11
      <4>2. onto \in Seq(Entry) /\ file \in Seq(Entry)
        BY <1>4, BasesAre, Entries, SeqMonotonic
      <4> QED
        BY <4>1, <4>2, ReplayHas
    <3>2. CASE ~(Len(file) >= FileEvents)
      BY <3>2, <1>o
    <3> QED
      BY <3>1, <3>2
  <2> QED
    BY <2>1, <2>2, <1>f
<1> QED
  BY <1>1, <1>3, <1>4, <1>6, <1>7, <1>9, <1>10, <1>11, <1>e, <1>f

\* A command leaves the queue: those that follow it move up.
LEMMA MovedUp ==
    ASSUME FeedbackInv, queue # <<>>, queue' = Tail(queue), NEW n, n = Len(queue),
           \A c \in Client : client'[c].pc \in Erasing => client'[c] = client[c],
           erasures' = erasures, values' = values, shown' = shown, shared' = shared,
           backend' = backend, unsure \subseteq unsure', unsure' \in SUBSET Turn
    PROVE  /\ \A c \in Client, i \in 1 .. (n - 1) :
                 client'[c].pc \in Erasing => (Awaits(c, i)' <=> Awaits(c, i + 1))
           /\ \A c \in Client : Leaving(c)' \subseteq Leaving(c)
           /\ OneRewrite' /\ ErasingOK' /\ SnapshotCurrent'
           /\ \A t, i : i \in 1 .. (n - 1) /\ t \in Named(queue'[i]) => t \in Held
           /\ backend = "file"
<1> USE DEF FeedbackInv
<1>1. /\ n \in Nat /\ n >= 1 /\ Len(queue') = n - 1 /\ DOMAIN queue' = 1 .. (n - 1)
      /\ \A i \in 1 .. (n - 1) : i + 1 \in DOMAIN queue /\ queue'[i] = queue[i + 1]
  BY Dequeued
<1>2. \A c \in Client, i \in 1 .. (n - 1) :
         client'[c].pc \in Erasing => (Awaits(c, i)' <=> Awaits(c, i + 1))
  BY <1>1 DEF Awaits
<1>3. \A c \in Client : Leaving(c)' \subseteq Leaving(c)
  BY DEF Leaving, Erasing
<1>4. OneRewrite'
  <2> SUFFICES ASSUME NEW i \in 1 .. (n - 1), queue'[i].op = "rewrite"
               PROVE  /\ queue'[i].id < erasures
                      /\ \A d \in Client : (client'[d].pc \in Erasing /\ Awaits(d, i)') =>
                            client'[d].pc = "wait" /\ \A j \in 1 .. (n - 1) : Awaits(d, j)' => j = i
    BY <1>1 DEF OneRewrite
  <2>1. i + 1 \in DOMAIN queue /\ queue[i + 1].op = "rewrite" /\ queue'[i] = queue[i + 1]
    BY <1>1
  <2>2. ASSUME NEW d \in Client, client'[d].pc \in Erasing, Awaits(d, i)'
        PROVE  client'[d].pc = "wait" /\ \A j \in 1 .. (n - 1) : Awaits(d, j)' => j = i
    <3>1. Awaits(d, i + 1) /\ client'[d] = client[d]
      BY <2>2, <1>2
    <3>2. client[d].pc = "wait" /\ \A j \in DOMAIN queue : Awaits(d, j) => j = i + 1
      BY <3>1, <2>1, <2>2 DEF OneRewrite
    <3>3. \A j \in 1 .. (n - 1) : Awaits(d, j)' => j + 1 = i + 1
      BY <3>2, <2>2, <1>1, <1>2
    <3>4. \A j \in 1 .. (n - 1) : j + 1 = i + 1 => j = i
      BY <1>1
    <3> QED
      BY <3>1, <3>2, <3>3, <3>4
  <2> QED
    BY <2>1, <2>2 DEF OneRewrite
<1>5. ErasingOK'
  <2> SUFFICES ASSUME NEW d \in Client, NEW t \in client'[d].turns \ unsure', client'[d].pc \in Erasing
               PROVE  /\ client'[d].pc \in {"rewrite", "wait"} => values[t] = Nothing
                      /\ client'[d].pc = "shared" /\ client'[d].whole => values[t] = Nothing
                      /\ client'[d].pc = "values" /\ backend = "redis" /\ ~client'[d].whole
                            => shared[t] = Nothing
                      /\ client'[d].pc = "wait" =>
                            \A i, j \in DOMAIN queue' : Awaits(d, i)' /\ i <= j => t \notin Named(queue'[j])
                      /\ client'[d].pc \in {"shared", "values", "rewrite", "wait"} =>
                            \A r \in Record : TurnOf[r] = t => shown[r] = None
    BY DEF ErasingOK, Named, Erasing
  <2>1. client'[d] = client[d] /\ t \in client[d].turns \ unsure
    OBVIOUS
  <2>2. ASSUME client'[d].pc = "wait", NEW i \in DOMAIN queue', NEW j \in DOMAIN queue',
               Awaits(d, i)', i <= j
        PROVE  t \notin Named(queue'[j])
    <3>1. /\ i \in 1 .. (n - 1) /\ j \in 1 .. (n - 1)
          /\ i + 1 \in DOMAIN queue /\ j + 1 \in DOMAIN queue /\ queue'[j] = queue[j + 1]
      BY <1>1
    <3>2. Awaits(d, i + 1) /\ i + 1 <= j + 1
      BY <2>2, <3>1, <1>1, <1>2
    <3> QED
      BY <2>1, <2>2, <3>1, <3>2 DEF ErasingOK
  <2> QED
    BY <2>1, <2>2 DEF ErasingOK
<1>6. SnapshotCurrent'
  <2> SUFFICES ASSUME NEW d \in Client, client'[d].pc = "rewrite", NEW t \in Turn \ unsure'
               PROVE  Replay(client'[d].events)[t] = values[t]
    BY DEF SnapshotCurrent
  <2>1. client'[d] = client[d]
    BY DEF Erasing
  <2> QED
    BY <2>1 DEF SnapshotCurrent
<1>7. \A t, i : i \in 1 .. (n - 1) /\ t \in Named(queue'[i]) => t \in Held
  BY <1>1, HeldAre
<1>8. backend = "file"
  BY DEF Elsewhere
<1> QED
  BY <1>2, <1>3, <1>4, <1>5, <1>6, <1>7, <1>8

\* An event goes from the queue to the file, and reads as before.
LEMMA WriteAppendKeeps ==
    ASSUME FeedbackInv, WriteAppend
    PROVE  FeedbackInv'
<1> USE DEF FeedbackInv
<1>n. PICK n \in Nat : n = Len(queue)
  BY BasesAre
<1>e. PICK e : e = Head(queue)
  OBVIOUS
<1>1. /\ queue # <<>> /\ queue' = Tail(queue) /\ e \in Event
      /\ file' \in Seq(Line) /\ rotated' \in Seq(Line)
      /\ unsure' \in SUBSET Turn /\ unsure \subseteq unsure'
      /\ UNCHANGED <<backend, values, shared, shown, client, erasures, erased>>
      /\ TurnsIn(file') \cup TurnsIn(rotated')
            \subseteq TurnsIn(file) \cup TurnsIn(rotated) \cup {e.turn}
      /\ TurnsIn(rotated) \subseteq TurnsIn(rotated') \cup unsure'
      /\ \A t \in Turn \ unsure' : t \notin TurnsIn(rotated') =>
            Replay(file')[t] = Merge(Replay(file)[t], Replay(<<e>>)[t])
  BY <1>e, WriteAppendCases
<1>2. /\ n >= 1 /\ DOMAIN queue' = 1 .. (n - 1) /\ queue' \in Seq(Command)
      /\ e = queue[1] /\ 1 \in DOMAIN queue /\ e.op = "append" /\ DOMAIN queue = 1 .. n
      /\ 0 \in Bases' /\ \A b \in Bases' : b # 0 => b \in 1 .. (n - 1) /\ b + 1 \in Bases
      /\ \A b \in Bases', t \in Turn : b # 0 => Read(b, t)' = Read(b + 1, t)
  BY <1>e, <1>n, <1>1, Dequeued, Entries, BasesAre
<1>3. \A t \in Turn :
         /\ Replay(Tail(queue))[t] \in Signals
         /\ Read(0, t) = Merge(Replay(file)[t], Merge(Replay(<<e>>)[t], Replay(Tail(queue))[t]))
         /\ file' \in Seq(Entry) => Read(0, t)' = Merge(Replay(file')[t], Replay(Tail(queue))[t])
  BY <1>e, <1>n, <1>1, Dequeued
<1>4. /\ \A c \in Client, i \in 1 .. (n - 1) :
            client'[c].pc \in Erasing => (Awaits(c, i)' <=> Awaits(c, i + 1))
      /\ OneRewrite' /\ ErasingOK' /\ SnapshotCurrent'
      /\ \A t, i : i \in 1 .. (n - 1) /\ t \in Named(queue'[i]) => t \in Held
      /\ backend = "file"
  BY <1>n, <1>1, MovedUp
<1>5. Held' \subseteq Held
  <2> SUFFICES ASSUME NEW t \in Held' PROVE t \in Held
    OBVIOUS
  <2>1. \/ t \in TurnsIn(file') \cup TurnsIn(rotated')
        \/ \E i \in DOMAIN queue' : t \in Named(queue'[i])
    BY DEF Held, Named
  <2>2. CASE t \in TurnsIn(file') \cup TurnsIn(rotated')
    <3>1. t = e.turn => t \in Named(queue[1])
      BY <1>2 DEF Named
    <3> QED
      BY <2>2, <3>1, <1>1, <1>2, HeldAre
  <2>3. CASE \E i \in DOMAIN queue' : t \in Named(queue'[i])
    BY <2>3, <1>2, <1>4
  <2> QED
    BY <2>1, <2>2, <2>3
<1>6. /\ \A c \in Client : Leaving(c)' = Leaving(c)
      /\ \A c \in Client : \A t : Sending(c, t)' = Sending(c, t) /\ Showing(c, t)' = Showing(c, t)
  BY <1>1 DEF Leaving, Sending, Showing, Now
<1>7. FeedbackTypeOK' /\ Elsewhere'
  BY <1>1, <1>2, <1>4 DEF FeedbackTypeOK, Elsewhere
<1>8. CallsSound' /\ Apart'
  <2>1. CallsSound'
    BY <1>1 DEF CallsSound, CallSound, Now
  <2>2. Apart'
    BY <1>1 DEF Apart, Overlap, Erases
  <2> QED
    BY <2>1, <2>2
<1>9. HeldIsKnown'
  BY <1>1, <1>5, <1>6 DEF HeldIsKnown
<1>10. IngestedOK'
  BY <1>1, <1>6 DEF IngestedOK
<1>11. FileAgrees'
  <2> SUFFICES ASSUME NEW t \in Turn \ unsure', NEW b \in Bases', Counts(t, b)'
               PROVE  /\ (\A d \in Client : ~Sending(d, t)) => values[t] = Read(b, t)'
                      /\ \A d \in Client : Sending(d, t) => values[t] = Merge(Read(b, t)', client[d].signals)
    BY <1>1, <1>6 DEF FileAgrees
  <2>1. ASSUME NEW d \in Client, t \in Leaving(d), NEW i \in DOMAIN queue, Awaits(d, i)
        PROVE  client[d].pc = "wait" /\ i - 1 \in 1 .. (n - 1) /\ i - 1 <= b
    <3>1. client'[d].pc = "wait" /\ \A j \in DOMAIN queue' : Awaits(d, j)' => j <= b
      BY <2>1, <1>6 DEF Counts
    <3>2. i # 1
      BY <2>1, <1>2 DEF Awaits
    <3>3. i - 1 \in 1 .. (n - 1) /\ (i - 1) + 1 = i
      BY <3>2, <1>2
    <3>4. Awaits(d, i - 1)'
      BY <2>1, <3>1, <3>3, <1>4 DEF Erasing
    <3> QED
      BY <3>1, <3>3, <3>4, <1>1, <1>2
  <2>0. \A d \in Client : t \in Leaving(d) => client[d].pc = "wait"
    BY <1>1, <1>6 DEF Counts
  <2>2. CASE b # 0
    <3>1. b + 1 \in Bases /\ b \in 1 .. (n - 1) /\ Read(b, t)' = Read(b + 1, t)
      BY <2>2, <1>2
    <3>2. Counts(t, b + 1)
      <4>1. b + 1 # 0
        BY <3>1
      <4>2. ASSUME NEW d \in Client, t \in Leaving(d), NEW i \in DOMAIN queue, Awaits(d, i)
            PROVE  i <= b + 1
        <5>1. i - 1 <= b /\ i \in 1 .. n
          BY <2>1, <4>2, <1>2
        <5> QED
          BY <5>1, <3>1
      <4> QED
        BY <4>1, <4>2, <2>0 DEF Counts
    <3> QED
      BY <3>1, <3>2, <1>1, <1>4 DEF FileAgrees
  <2>3. CASE b = 0
    <3>1. t \notin TurnsIn(rotated') /\ t \notin TurnsIn(rotated)
      BY <2>3, <1>1 DEF Counts
    <3>2. Counts(t, 0)
      <4>1. ASSUME NEW d \in Client, t \in Leaving(d), NEW i \in DOMAIN queue, Awaits(d, i)
            PROVE  FALSE
        BY <2>1, <2>3, <4>1
      <4> QED
        BY <4>1, <3>1, <2>0 DEF Counts
    <3>3. Read(0, t)' = Read(0, t)
      <4>1. file' \in Seq(Entry)
        BY <1>1, Entries, SeqMonotonic
      <4>2. Replay(file')[t] = Merge(Replay(file)[t], Replay(<<e>>)[t])
        BY <3>1, <1>1
      <4>3. Read(0, t)' = Merge(Merge(Replay(file)[t], Replay(<<e>>)[t]), Replay(Tail(queue))[t])
        BY <4>1, <4>2, <1>3
      <4> QED
        BY <4>3, <1>3, MergeJoins
    <3> QED
      BY <2>3, <3>2, <3>3, <1>1, <1>4, BasesAre DEF FileAgrees
  <2> QED
    BY <2>2, <2>3
<1>12. ShownAgrees'
  BY <1>1, <1>6 DEF ShownAgrees
<1>13. ErasedOK'
  <2> SUFFICES ASSUME NEW t \in erased
               PROVE  /\ values[t] = Nothing /\ shared[t] = Nothing /\ t \notin Held'
                      /\ \A d \in Client : /\ client[d].pc \in Posting => t \notin client[d].turns
                                           /\ client[d].pc = "rewrite" => t \notin TurnsIn(client[d].events)
    BY <1>1 DEF ErasedOK
  <2> QED
    BY <1>5 DEF ErasedOK
<1> QED
  BY <1>4, <1>7, <1>8, <1>9, <1>10, <1>11, <1>12, <1>13

\* A rewrite is done or fails; the call that waits for it, if one still does, is told.
LEMMA WriteRewriteCases ==
    ASSUME FeedbackInv, WriteRewrite
    PROVE  /\ queue # <<>> /\ queue' = Tail(queue)
           /\ Head(queue) \in Rewriting /\ Head(queue).op = "rewrite"
           /\ UNCHANGED <<backend, values, shared, shown, erasures>>
           /\ \/ UNCHANGED client /\ \A c \in Client : ~(client[c].pc = "wait" /\ Awaits(c, 1))
              \/ /\ client' = [client EXCEPT ![Head(queue).by] = Idle]
                 /\ client[Head(queue).by].pc = "wait" /\ Awaits(Head(queue).by, 1)
           /\ \/ /\ file' = Head(queue).events /\ rotated' = <<>> /\ unsure' = unsure
                 /\ \/ UNCHANGED <<client, erased>>
                    \/ /\ client' = [client EXCEPT ![Head(queue).by] = Idle]
                       /\ erased' = erased \cup (client[Head(queue).by].turns \ unsure)
              \/ /\ file' \in {file, Head(queue).events} /\ UNCHANGED <<rotated, erased>>
                 /\ \/ UNCHANGED <<client, unsure>>
                    \/ /\ client' = [client EXCEPT ![Head(queue).by] = Idle]
                       /\ unsure' = unsure \cup client[Head(queue).by].turns
<1> USE DEF FeedbackInv
<1>e. PICK e : e = Head(queue)
  OBVIOUS
<1>1. /\ queue # <<>> /\ queue' = Tail(queue) /\ e.op = "rewrite"
      /\ UNCHANGED <<backend, values, shared, shown, erasures>>
      /\ Rewritten \/ RewriteFails
  BY <1>e DEF WriteRewrite
<1>2. queue \in Seq(Command)
  BY DEF FeedbackTypeOK
<1>3. e = queue[1] /\ e \in Command
  BY <1>e, <1>1, <1>2
<1>4. e \in Rewriting /\ e.by \in Client
  <2>1. e \in Rewriting
    BY <1>1, <1>3, Entries DEF Command
  <2> QED
    BY <2>1 DEF Rewriting
<1>5. \A c \in Client : c \in Caller <=> client[c].pc = "wait" /\ Awaits(c, 1)
  BY <1>e, <1>1, <1>3 DEF Caller, Awaits
<1>6. Caller = {} \/ Caller = {e.by}
  BY <1>e, <1>4 DEF Caller
<1>7. CASE Caller = {}
  <2>1. \A c \in Client : ~(client[c].pc = "wait" /\ Awaits(c, 1))
    BY <1>5, <1>7
  <2>2. UNION {client[c].turns : c \in Caller} = {}
    BY <1>7
  <2> QED
    BY <2>1, <2>2, <1>1, <1>4, <1>7, <1>e DEF Rewritten, RewriteFails
<1>8. CASE Caller = {e.by}
  <2>1. client[e.by].pc = "wait" /\ Awaits(e.by, 1)
    BY <1>4, <1>5, <1>8
  <2>2. UNION {client[c].turns : c \in Caller} = client[e.by].turns
    BY <1>8
  <2>3. Caller # {}
    BY <1>8
  <2>4. Rewritten => /\ file' = e.events /\ rotated' = <<>> /\ unsure' = unsure
                     /\ client' = [client EXCEPT ![e.by] = Idle]
                     /\ erased' = erased \cup (client[e.by].turns \ unsure)
    BY <2>3, <1>e DEF Rewritten, Acknowledge, Reply
  <2>5. RewriteFails => /\ file' \in {file, e.events} /\ UNCHANGED <<rotated, erased>>
                        /\ client' = [client EXCEPT ![e.by] = Idle]
                        /\ unsure' = unsure \cup client[e.by].turns
    BY <2>2, <2>3, <1>e DEF RewriteFails, Reply
  <2> QED
    BY <2>1, <2>4, <2>5, <1>1, <1>4, <1>e
<1> QED
  BY <1>6, <1>7, <1>8

\* A snapshot goes from the queue to the file; what it left out is nowhere else.
LEMMA WriteRewriteKeeps ==
    ASSUME FeedbackInv, WriteRewrite
    PROVE  FeedbackInv'
<1> USE DEF FeedbackInv
<1>n. PICK n \in Nat : n = Len(queue)
  BY BasesAre
<1>e. PICK e : e = Head(queue)
  OBVIOUS
<1>w. PICK w : w = e.by
  OBVIOUS
<1>t. PICK turns : turns = client[w].turns
  OBVIOUS
<1>1. /\ queue # <<>> /\ queue' = Tail(queue) /\ e \in Rewriting /\ e.op = "rewrite"
      /\ UNCHANGED <<backend, values, shared, shown, erasures>>
      /\ \/ UNCHANGED client /\ \A c \in Client : ~(client[c].pc = "wait" /\ Awaits(c, 1))
         \/ client' = [client EXCEPT ![w] = Idle] /\ client[w].pc = "wait" /\ Awaits(w, 1)
      /\ \/ /\ file' = e.events /\ rotated' = <<>> /\ unsure' = unsure
            /\ \/ UNCHANGED <<client, erased>>
               \/ /\ client' = [client EXCEPT ![w] = Idle]
                  /\ erased' = erased \cup (turns \ unsure)
         \/ /\ file' \in {file, e.events} /\ UNCHANGED <<rotated, erased>>
            /\ \/ UNCHANGED <<client, unsure>>
               \/ /\ client' = [client EXCEPT ![w] = Idle]
                  /\ unsure' = unsure \cup turns
  BY <1>e, <1>w, <1>t, WriteRewriteCases
<1>2. /\ w \in Client /\ e.events \in Seq(Event) /\ e.events \in Seq(Line) /\ e.events \in Seq(Entry)
      /\ Named(e) = TurnsIn(e.events) /\ TurnsIn(e.events) \subseteq Turn
  <2>1. w \in Client /\ e.events \in Seq(Event)
    BY <1>1, <1>w DEF Rewriting
  <2>2. Event \subseteq Line
    BY DEF Line
  <2>3. e.events \in Seq(Line) /\ e.events \in Seq(Entry)
    BY <2>1, <2>2, Entries, SeqMonotonic
  <2> QED
    BY <2>1, <2>3, <1>1, TurnsInJoin DEF Named
<1>3. /\ n >= 1 /\ DOMAIN queue' = 1 .. (n - 1) /\ queue' \in Seq(Command)
      /\ e = queue[1] /\ 1 \in DOMAIN queue /\ DOMAIN queue = 1 .. n
      /\ 0 \in Bases' /\ 1 \in Bases /\ \A b \in Bases' : b # 0 => b \in 1 .. (n - 1) /\ b + 1 \in Bases
      /\ \A b \in Bases', t \in Turn : b # 0 => Read(b, t)' = Read(b + 1, t)
  <2>1. /\ n >= 1 /\ DOMAIN queue' = 1 .. (n - 1) /\ queue' \in Seq(Command)
        /\ e = queue[1] /\ 1 \in DOMAIN queue /\ DOMAIN queue = 1 .. n
        /\ 0 \in Bases' /\ \A b \in Bases' : b # 0 => b \in 1 .. (n - 1) /\ b + 1 \in Bases
        /\ \A b \in Bases', t \in Turn : b # 0 => Read(b, t)' = Read(b + 1, t)
    BY <1>e, <1>n, <1>1, Dequeued, BasesAre
  <2> QED
    BY <2>1, <1>1 DEF Bases
<1>4. \A t \in Turn :
         /\ Replay(Tail(queue))[t] \in Signals
         /\ Read(0, t) = Merge(Replay(file)[t], Merge(Replay(<<e>>)[t], Replay(Tail(queue))[t]))
         /\ file' \in Seq(Entry) => Read(0, t)' = Merge(Replay(file')[t], Replay(Tail(queue))[t])
         /\ Read(1, t) = Merge(Replay(e.events)[t], Replay(Tail(queue))[t])
  BY <1>e, <1>n, <1>1, Dequeued
<1>5. /\ client' \in [Client -> Call] /\ \A d \in Client : d # w => client'[d] = client[d]
      /\ client'[w] = Idle \/ client'[w] = client[w]
      /\ Idle.pc = "idle" /\ Idle.turns = {}
      /\ \A c \in Client : client'[c].pc # "idle" => client'[c] = client[c]
      /\ \A c \in Client : client'[c].turns \subseteq client[c].turns
      /\ turns \subseteq Turn
  <2>1. client \in [Client -> Call] /\ Idle \in Call /\ Idle.pc = "idle" /\ Idle.turns = {}
    BY DEF FeedbackTypeOK, Call, Idle
  <2>2. client' \in [Client -> Call] /\ \A d \in Client : d # w => client'[d] = client[d]
    BY <2>1, <1>1
  <2>3. client'[w] = Idle \/ client'[w] = client[w]
    BY <2>1, <1>1, <1>2
  <2> QED
    BY <2>1, <2>2, <2>3, <1>2, <1>t, Calls
<1>6. /\ file' \in {file, e.events} /\ file' \in Seq(Line) /\ file' \in Seq(Entry)
      /\ rotated' \in {rotated, <<>>} /\ rotated' \in Seq(Line)
      /\ unsure' \in SUBSET Turn /\ unsure \subseteq unsure'
      /\ erased' \in SUBSET Turn
  <2>1. file \in Seq(Entry)
    BY BasesAre
  <2>2. file' \in {file, e.events} /\ rotated' \in {rotated, <<>>}
    BY <1>1
  <2>3. unsure' \in SUBSET Turn /\ unsure \subseteq unsure' /\ erased' \in SUBSET Turn
    BY <1>1, <1>5 DEF FeedbackTypeOK
  <2>4. file \in Seq(Line) /\ rotated \in Seq(Line) /\ <<>> \in Seq(Line)
    BY DEF FeedbackTypeOK
  <2>5. file' \in Seq(Line) /\ file' \in Seq(Entry)
    BY <2>1, <2>2, <2>4, <1>2
  <2>6. rotated' \in Seq(Line)
    BY <2>2, <2>4
  <2> QED
    BY <2>2, <2>3, <2>5, <2>6
<1>7. /\ \A c \in Client, i \in 1 .. (n - 1) :
            client'[c].pc \in Erasing => (Awaits(c, i)' <=> Awaits(c, i + 1))
      /\ \A c \in Client : Leaving(c)' \subseteq Leaving(c)
      /\ OneRewrite' /\ ErasingOK' /\ SnapshotCurrent'
      /\ \A t, i : i \in 1 .. (n - 1) /\ t \in Named(queue'[i]) => t \in Held
      /\ backend = "file"
  <2>1. \A c \in Client : client'[c].pc \in Erasing => client'[c] = client[c]
    BY <1>5 DEF Erasing
  <2> QED
    BY <2>1, <1>n, <1>1, <1>6, MovedUp
<1>8. Held' \subseteq Held
  <2> SUFFICES ASSUME NEW t \in Held' PROVE t \in Held
    OBVIOUS
  <2>1. \/ t \in TurnsIn(file') \cup TurnsIn(rotated')
        \/ \E i \in DOMAIN queue' : t \in Named(queue'[i])
    BY DEF Held, Named
  <2>2. CASE t \in TurnsIn(file') \cup TurnsIn(rotated')
    <3>1. TurnsIn(<<>>) = {}
      BY <1>2, TurnsInJoin
    <3>2. t \in TurnsIn(e.events) => t \in Named(queue[1])
      BY <1>2, <1>3
    <3> QED
      BY <2>2, <3>1, <3>2, <1>3, <1>6, HeldAre
  <2>3. CASE \E i \in DOMAIN queue' : t \in Named(queue'[i])
    BY <2>3, <1>3, <1>7
  <2> QED
    BY <2>1, <2>2, <2>3
\* Of the turns that the caller was erasing nothing is held once it is told.
<1>9. ASSUME client' # client, NEW t \in turns \ unsure'
      PROVE  /\ file' = e.events /\ rotated' = <<>> /\ unsure' = unsure
             /\ client'[w] = Idle /\ client[w].pc = "wait" /\ Awaits(w, 1)
             /\ t \in client[w].turns \ unsure /\ t \in Turn
             /\ values[t] = Nothing /\ t \notin Held'
  <2>1. /\ client' = [client EXCEPT ![w] = Idle] /\ client[w].pc = "wait" /\ Awaits(w, 1)
        /\ file' = e.events /\ rotated' = <<>> /\ unsure' = unsure
    BY <1>1, <1>9
  <2>2. client'[w] = Idle /\ t \in client[w].turns \ unsure /\ t \in Turn
    BY <2>1, <1>2, <1>t, <1>5 DEF FeedbackTypeOK
  <2>3. values[t] = Nothing /\ \A j \in DOMAIN queue : 1 <= j => t \notin Named(queue[j])
    BY <2>1, <2>2, <1>2, <1>3 DEF ErasingOK
  <2>4. t \notin Held'
    <3>1. t \notin TurnsIn(e.events)
      BY <2>3, <1>2, <1>3
    <3>2. t \notin TurnsIn(<<>>)
      BY <1>2, TurnsInJoin
    <3>3. ASSUME NEW i \in DOMAIN queue' PROVE t \notin Named(queue'[i])
      <4>1. i + 1 \in DOMAIN queue /\ queue'[i] = queue[i + 1] /\ 1 <= i + 1
        BY <1>n, <1>1, Dequeued
      <4> QED
        BY <4>1, <2>3
    <3>4. t \in Held' <=> \/ t \in TurnsIn(file') \cup TurnsIn(rotated')
                          \/ \E i \in DOMAIN queue' : t \in Named(queue'[i])
      BY DEF Held, Named
    <3> QED
      BY <3>1, <3>2, <3>3, <3>4, <2>1
  <2> QED
    BY <2>1, <2>2, <2>3, <2>4
<1>10. \A c \in Client : client'[c] = client[c] \/ (c = w /\ client' # client)
  BY <1>5
<1>11. \A c \in Client : \A t : /\ Sending(c, t)' => Sending(c, t) /\ client'[c] = client[c]
                                /\ Showing(c, t)' => Showing(c, t) /\ client'[c] = client[c]
                                /\ Sending(c, t) => Sending(c, t)'
                                /\ Showing(c, t) => Showing(c, t)'
  <2>1. \A c \in Client : client'[c] # client[c] => client[c].pc = "wait"
    BY <1>1, <1>10
  <2> QED
    BY <2>1, <1>5 DEF Sending, Showing, Now
<1>12. FeedbackTypeOK' /\ Elsewhere'
  BY <1>1, <1>3, <1>5, <1>6, <1>7 DEF FeedbackTypeOK, Elsewhere
<1>13. CallsSound' /\ Apart'
  <2>1. CallSound(client[w])'
    <3>1. CASE client'[w] = Idle
      BY <3>1, <1>5 DEF CallSound, Posting, Erasing
    <3>2. CASE client'[w] = client[w]
      BY <3>2, <1>1, <1>2 DEF CallsSound, CallSound, Now
    <3> QED
      BY <3>1, <3>2, <1>5
  <2>2. backend' = backend /\ erasures' \in Nat /\ erasures <= erasures'
    BY <1>1 DEF FeedbackTypeOK
  <2>3. CallsSound'
    BY <2>1, <2>2, <1>2, <1>5, CallsKept
  <2>4. Apart'
    BY <1>2, <1>5, <1>6, ApartKept
  <2> QED
    BY <2>3, <2>4
<1>14. HeldIsKnown'
  <2> SUFFICES ASSUME NEW t \in Held' \ unsure'
               PROVE  values[t] # Nothing \/ \E c \in Client : t \in Leaving(c)'
    BY <1>1 DEF HeldIsKnown
  <2>1. values[t] # Nothing \/ \E c \in Client : t \in Leaving(c)
    BY <1>6, <1>8 DEF HeldIsKnown
  <2>2. ASSUME NEW c \in Client, t \in Leaving(c) PROVE t \in Leaving(c)'
    <3>1. CASE client'[c] = client[c]
      BY <2>2, <3>1 DEF Leaving
    <3>2. CASE c = w /\ client' # client
      <4>1. t \in turns
        BY <2>2, <3>2, <1>t DEF Leaving
      <4> QED
        BY <4>1, <3>2, <1>9
    <3> QED
      BY <3>1, <3>2, <1>10
  <2> QED
    BY <2>1, <2>2
<1>15. IngestedOK'
  <2> SUFFICES ASSUME NEW d \in Client, NEW t \in Turn \ unsure'
               PROVE  /\ backend = "file" /\ Sending(d, t)' => values[t] # Nothing
                      /\ Showing(d, t)' => client'[d].merged = values[t]
    BY <1>1 DEF IngestedOK
  <2> QED
    BY <1>6, <1>11 DEF IngestedOK
<1>16. FileAgrees'
  <2> SUFFICES ASSUME NEW t \in Turn \ unsure', NEW b \in Bases', Counts(t, b)'
               PROVE  /\ (\A d \in Client : ~Sending(d, t)) => values[t] = Read(b, t)'
                      /\ \A d \in Client : Sending(d, t) => values[t] = Merge(Read(b, t)', client[d].signals)
    <3>1. \A d \in Client : \A t : /\ Sending(d, t)' <=> Sending(d, t)
                                   /\ Sending(d, t) => client'[d].signals = client[d].signals
      BY <1>11
    <3> QED
      BY <3>1, <1>1 DEF FileAgrees
  <2>0. b \in 0 .. (n - 1) /\ b + 1 \in Bases
    BY <1>3
  <2>1. ASSUME NEW d \in Client, t \in Leaving(d), client'[d] = client[d]
        PROVE  /\ client[d].pc = "wait" /\ ~Awaits(d, 1)
               /\ \A i \in DOMAIN queue : Awaits(d, i) => i # 1 /\ i - 1 <= b
    <3>1. client'[d].pc = "wait" /\ \A j \in DOMAIN queue' : Awaits(d, j)' => j <= b
      BY <2>1 DEF Counts, Leaving
    <3>2. ~Awaits(d, 1)
      <4>1. CASE client' = client
        <5>1. client' = [client EXCEPT ![w] = Idle] => client[w].pc = "idle"
          BY <4>1, <1>2, <1>5 DEF FeedbackTypeOK
        <5>2. \A c \in Client : ~(client[c].pc = "wait" /\ Awaits(c, 1))
          BY <5>1, <1>1
        <5> QED
          BY <5>2, <2>1, <3>1
      <4>2. CASE client' # client
        <5>1. d # w
          BY <2>1, <3>1, <4>2, <1>1, <1>2, <1>5 DEF FeedbackTypeOK
        <5> QED
          BY <5>1, <1>3, <1>w DEF Awaits
      <4> QED
        BY <4>1, <4>2
    <3>3. ASSUME NEW i \in DOMAIN queue, Awaits(d, i) PROVE i # 1 /\ i - 1 <= b
      <4>1. i # 1
        BY <3>2, <3>3
      <4>2. i - 1 \in 1 .. (n - 1) /\ (i - 1) + 1 = i
        BY <4>1, <1>3
      <4>3. Awaits(d, i - 1)'
        BY <3>1, <3>3, <4>2, <1>7 DEF Erasing
      <4> QED
        BY <3>1, <4>1, <4>2, <4>3, <1>3
    <3> QED
      BY <2>1, <3>1, <3>2, <3>3
  <2>2. CASE b # 0 \/ file' = e.events
    <3>1. Counts(t, b + 1)
      <4> SUFFICES ASSUME NEW d \in Client, t \in Leaving(d)
                   PROVE  /\ client[d].pc = "wait"
                          /\ \A i \in DOMAIN queue : Awaits(d, i) => i <= b + 1
        BY <2>0 DEF Counts
      <4>1. CASE client'[d] = client[d]
        <5>1. /\ client[d].pc = "wait"
              /\ \A i \in DOMAIN queue : Awaits(d, i) => i - 1 <= b
          BY <4>1, <2>1
        <5> QED
          BY <5>1, <2>0, <1>3
      <4>2. CASE d = w /\ client' # client
        <5>1. t \in turns
          BY <4>2, <1>t DEF Leaving
        <5>2. client[w].pc = "wait" /\ Awaits(w, 1)
          BY <5>1, <4>2, <1>9
        <5>3. \A j \in DOMAIN queue : Awaits(w, j) => j = 1
          BY <5>2, <1>1, <1>2, <1>3 DEF OneRewrite, Erasing
        <5> QED
          BY <4>2, <5>2, <5>3, <2>0
      <4> QED
        BY <4>1, <4>2, <1>10
    <3>2. Read(b, t)' = Read(b + 1, t)
      <4>1. CASE b # 0
        BY <4>1, <1>3
      <4>2. CASE b = 0
        <5>1. Read(0, t)' = Read(1, t)
          BY <4>2, <2>2, <1>4, <1>6
        <5> QED
          BY <5>1, <4>2
      <4> QED
        BY <4>1, <4>2
    <3> QED
      BY <2>0, <3>1, <3>2, <1>6, <1>7 DEF FileAgrees
  <2>3. CASE b = 0 /\ file' # e.events
    <3>1. file' = file /\ rotated' = rotated /\ (client' # client => unsure' = unsure \cup turns)
      BY <2>3, <1>1
    <3>2. Counts(t, 0)
      <4>1. t \notin TurnsIn(rotated)
        BY <2>3, <3>1 DEF Counts
      <4>2. ASSUME NEW d \in Client, t \in Leaving(d)
            PROVE  client[d].pc = "wait" /\ \A i \in DOMAIN queue : Awaits(d, i) => i <= 0
        <5>1. client'[d] = client[d]
          <6>1. ~(d = w /\ client' # client)
            BY <4>2, <3>1, <1>t DEF Leaving
          <6> QED
            BY <6>1, <1>10
        <5>2. /\ client[d].pc = "wait"
              /\ \A i \in DOMAIN queue : Awaits(d, i) => i # 1 /\ i - 1 <= 0
          BY <5>1, <4>2, <2>1, <2>3
        <5> QED
          BY <5>2, <1>3
      <4> QED
        BY <4>1, <4>2 DEF Counts
    <3>3. Read(0, t)' = Read(0, t)
      <4>1. Replay(<<e>>)[t] = Nothing
        BY <1>1, Entries, ReplayOne DEF Entry
      <4>2. Read(0, t)' = Merge(Replay(file)[t], Replay(Tail(queue))[t])
        BY <3>1, <1>4, <1>6
      <4>3. Merge(Nothing, Replay(Tail(queue))[t]) = Replay(Tail(queue))[t]
        BY <1>4, SignalsAre, MergeIs
      <4> QED
        BY <4>1, <4>2, <4>3, <1>4
    <3> QED
      BY <2>3, <3>2, <3>3, <1>6, <1>7, BasesAre DEF FileAgrees
  <2> QED
    BY <2>2, <2>3
<1>17. ShownAgrees'
  <2> SUFFICES ASSUME backend = "file"
               PROVE  /\ \A r \in Record :
                            (shown[r] # None /\ TurnOf[r] \notin unsure'
                             /\ \A d \in Client : ~Showing(d, TurnOf[r])') => shown[r] = values[TurnOf[r]]
                      /\ \A d \in Client :
                            (client'[d].pc = "store" /\ TurnOf[client'[d].record] \notin unsure')
                                => client'[d].signals = values[TurnOf[client'[d].record]]
    BY <1>1 DEF ShownAgrees
  <2>1. \A d \in Client : client'[d].pc = "store" => client'[d] = client[d]
    BY <1>5
  <2> QED
    BY <2>1, <1>6, <1>11 DEF ShownAgrees
<1>18. ErasedOK'
  <2> SUFFICES ASSUME NEW t \in erased'
               PROVE  /\ values[t] = Nothing /\ shared[t] = Nothing /\ t \notin Held'
                      /\ \A d \in Client : /\ client'[d].pc \in Posting => t \notin client'[d].turns
                                           /\ client'[d].pc = "rewrite" => t \notin TurnsIn(client'[d].events)
    BY <1>1 DEF ErasedOK
  <2>1. CASE t \in erased
    <3>1. \A d \in Client : client'[d].pc \in Posting \/ client'[d].pc = "rewrite" => client'[d] = client[d]
      BY <1>5 DEF Posting
    <3> QED
      BY <2>1, <3>1, <1>8 DEF ErasedOK
  <2>2. CASE t \notin erased
    <3>1. client' # client /\ t \in turns \ unsure'
      <4>1. client' = [client EXCEPT ![w] = Idle] /\ erased' = erased \cup (turns \ unsure) /\ unsure' = unsure
        BY <2>2, <1>1
      <4>2. t \in turns /\ t \notin unsure
        BY <2>2, <4>1
      <4>3. client[w] # Idle
        BY <4>2, <1>t, <1>5
      <4>4. client'[w] = Idle
        BY <4>1, <1>2 DEF FeedbackTypeOK
      <4> QED
        BY <4>1, <4>2, <4>3, <4>4
    <3>2. client'[w] = Idle /\ t \in client[w].turns \ unsure /\ t \in Turn /\ values[t] = Nothing /\ t \notin Held'
      BY <3>1, <1>9
    <3>3. shared[t] = Nothing
      BY <3>2, <1>7 DEF Elsewhere
    <3>4. \A d \in Client : d # w => t \notin client[d].turns /\ client[d].pc \notin Erasing
      BY <3>2, <1>2, Alone
    <3> QED
      BY <3>2, <3>3, <3>4, <1>5 DEF Posting, Erasing
  <2> QED
    BY <2>1, <2>2
<1> QED
  BY <1>7, <1>12, <1>13, <1>14, <1>15, <1>16, <1>17, <1>18

-----------------------------------------------------------------------------
(* The end of the process, and its start.                                    *)

\* The process starts from what the file has, which is what memory had.
LEMMA RestartKeeps ==
    ASSUME FeedbackInv, Restart
    PROVE  FeedbackInv'
<1> USE DEF FeedbackInv
<1>l. PICK lost : lost = TurnsIn(queue) \cup UNION {client[c].turns : c \in Working}
  OBVIOUS
<1>1. /\ values' = Replay(file) /\ queue' = <<>> /\ client' = [c \in Client |-> Idle]
      /\ shown' \in [Record -> UNION {Reconciled(r, values') : r \in Record}]
      /\ \A r \in Record : shown'[r] \in Reconciled(r, values')
      /\ unsure' = TurnsIn(rotated) \cup {t \in unsure \cup lost : values'[t] = Nothing}
      /\ UNCHANGED <<backend, shared, file, rotated, erasures, erased>>
  BY <1>l DEF Restart
<1>2. /\ file \in Seq(Entry) /\ queue \in Seq(Entry) /\ values' \in [Turn -> Signals]
      /\ TurnsIn(queue) \subseteq Turn /\ TurnsIn(rotated) \subseteq Turn /\ TurnsIn(<<>>) = {}
      /\ 0 \in Bases
  BY <1>1, BasesAre, TurnsInJoin, ReplayTyped
<1>3. /\ \A c \in Client : client'[c] = Idle /\ client'[c].pc = "idle" /\ client'[c].turns = {}
      /\ client' \in [Client -> Call]
  BY <1>1 DEF Idle, Call
<1>4. /\ lost \subseteq Turn /\ unsure' \in SUBSET Turn
      /\ \A c \in Client : client[c].turns \subseteq lost
  <2>1. \A c \in Client : client[c].turns \subseteq Turn /\ (client[c] = Idle => client[c].turns = {})
    BY Calls DEF Idle
  <2>2. lost \subseteq Turn /\ \A c \in Client : client[c].turns \subseteq lost
    BY <2>1, <1>l, <1>2 DEF Working
  <2> QED
    BY <2>2, <1>1, <1>2 DEF FeedbackTypeOK
<1>5. \A t \in Turn : t \in TurnsIn(file) <=> values'[t] # Nothing
  BY <1>1, <1>2, ReplayHas
<1>6. Held' = TurnsIn(file) \cup TurnsIn(rotated) /\ Held' \subseteq Held /\ Held \subseteq Turn
  <2>1. Held' = TurnsIn(file) \cup TurnsIn(rotated)
    BY <1>1 DEF Held, Named
  <2> QED
    BY <2>1, HeldAre, HeldInTurn
<1>7. \A c \in Client : \A t : ~Sending(c, t)' /\ ~Showing(c, t)' /\ t \notin Leaving(c)'
  BY <1>3 DEF Sending, Showing, Leaving
<1>8. Bases' = {0} /\ \A t \in Turn : Read(0, t)' = values'[t]
  <2>1. Bases' = {0}
    BY <1>1 DEF Bases
  <2>2. From(0)' = file
    <3>1. Base(0)' = file
      BY <1>1 DEF Base
    <3>2. SubSeq(queue', 0 + 1, Len(queue')) = <<>> /\ file \o <<>> = file
      BY <1>1, <1>2
    <3>3. From(0)' = Base(0)' \o SubSeq(queue', 0 + 1, Len(queue'))
      BY DEF From
    <3> QED
      BY <3>1, <3>2, <3>3
  <2> QED
    BY <2>1, <2>2, <1>1 DEF Read
<1>9. FeedbackTypeOK' /\ Elsewhere'
  <2>1. shown' \in [Record -> Signals \cup {None}]
    <3>1. \A r \in Record : TurnOf[r] \in Turn
      BY FeedbackAssumption
    <3>2. \A r \in Record : Reconciled(r, values') \subseteq Signals \cup {None}
      BY <3>1, <1>2, SignalsAre DEF Reconciled, FeedbackTypeOK
    <3> QED
      BY <3>2, <1>1
  <2> QED
    BY <2>1, <1>1, <1>2, <1>3, <1>4 DEF FeedbackTypeOK, Elsewhere
<1>10. CallsSound' /\ Apart' /\ OneRewrite' /\ IngestedOK' /\ ErasingOK' /\ SnapshotCurrent'
  <2>1. CallsSound'
    BY <1>3 DEF CallsSound, CallSound, Posting, Erasing
  <2>2. Apart'
    BY <1>3 DEF Apart, Overlap, Erases
  <2>3. OneRewrite'
    BY <1>1 DEF OneRewrite
  <2>4. IngestedOK' /\ ErasingOK' /\ SnapshotCurrent'
    BY <1>3, <1>7 DEF IngestedOK, ErasingOK, SnapshotCurrent
  <2> QED
    BY <2>1, <2>2, <2>3, <2>4
<1>11. HeldIsKnown'
  <2> SUFFICES ASSUME NEW t \in Held' \ unsure' PROVE values'[t] # Nothing
    BY DEF HeldIsKnown
  <2>1. t \in TurnsIn(file) /\ t \in Turn
    BY <1>1, <1>6
  <2> QED
    BY <2>1, <1>5
<1>12. FileAgrees'
  <2> SUFFICES ASSUME NEW t \in Turn, NEW b \in Bases'
               PROVE  values'[t] = Read(b, t)'
    BY <1>7 DEF FileAgrees
  <2> QED
    BY <1>8
<1>13. ShownAgrees'
  <2> SUFFICES ASSUME backend = "file", NEW r \in Record, shown'[r] # None, TurnOf[r] \notin unsure'
               PROVE  shown'[r] = values'[TurnOf[r]]
    BY <1>1, <1>3 DEF ShownAgrees
  <2>t. PICK t \in Turn : t = TurnOf[r]
    BY FeedbackAssumption
  <2>1. /\ shown[r] # None
        /\ \/ shown'[r] = values'[t]
           \/ values'[t] = Nothing /\ shown'[r] \in {Nothing, shown[r]}
    BY <2>t, <1>1 DEF Reconciled, Lasts
  <2>2. CASE values'[t] = Nothing /\ shown'[r] = shown[r]
    <3>1. t \notin TurnsIn(rotated) /\ t \notin unsure /\ t \notin lost /\ t \notin TurnsIn(queue)
          /\ t \notin TurnsIn(file)
      BY <2>t, <2>2, <1>1, <1>l, <1>5
    <3>2. \A c \in Client : ~Showing(c, t) /\ ~Sending(c, t) /\ t \notin Leaving(c)
      <4>1. \A c \in Client : t \notin client[c].turns
        BY <3>1, <1>4
      <4>2. \A c \in Client : client[c].pc \in Posting => Now(client[c]) \in client[c].turns
        BY NowIn
      <4> QED
        BY <4>1, <4>2 DEF Showing, Sending, Leaving, Posting
    <3>3. shown[r] = values[t]
      BY <2>t, <2>1, <3>1, <3>2 DEF ShownAgrees
    <3>4. values[t] = Read(0, t)
      <4>1. Counts(t, 0)
        BY <3>1, <3>2 DEF Counts
      <4> QED
        BY <4>1, <3>1, <3>2, <1>2 DEF FileAgrees
    <3>5. Read(0, t) = Nothing
      <4>1. SubSeq(queue, 0 + 1, Len(queue)) = queue
        BY <1>2, SubSeqFull
      <4>2. Read(0, t) = Merge(Replay(file)[t], Replay(queue)[t])
        BY <4>1, <1>2, ReadIs DEF Base
      <4>3. Replay(file)[t] = Nothing /\ Replay(queue)[t] = Nothing
        BY <3>1, <1>2, ReplayHas
      <4> QED
        BY <4>2, <4>3, SignalsAre, MergeIs
    <3> QED
      BY <2>t, <2>2, <3>3, <3>4, <3>5
  <2> QED
    BY <2>t, <2>1, <2>2
<1>14. ErasedOK'
  <2> SUFFICES ASSUME NEW t \in erased
               PROVE  values'[t] = Nothing /\ shared[t] = Nothing /\ t \notin Held'
    BY <1>1, <1>3 DEF ErasedOK, Posting
  <2>1. shared[t] = Nothing /\ t \notin Held /\ t \in Turn
    BY DEF ErasedOK, FeedbackTypeOK
  <2>2. t \notin TurnsIn(file)
    BY <2>1, HeldAre
  <2> QED
    BY <2>1, <2>2, <1>5, <1>6
<1> QED
  BY <1>9, <1>10, <1>11, <1>12, <1>13, <1>14

\* Before anything has happened.
LEMMA Initially ==
    FeedbackInit /\ backend \in {"memory", "file", "redis"} => FeedbackInv
<1> SUFFICES ASSUME FeedbackInit, backend \in {"memory", "file", "redis"} PROVE FeedbackInv
  OBVIOUS
<1>1. /\ values = [t \in Turn |-> Nothing] /\ shared = values
      /\ queue = <<>> /\ file = <<>> /\ rotated = <<>>
      /\ shown = [r \in Record |-> None]
      /\ client = [c \in Client |-> Idle] /\ erasures = 0 /\ unsure = {} /\ erased = {}
  BY DEF FeedbackInit
<1>2. /\ \A c \in Client : client[c] = Idle /\ client[c].pc = "idle" /\ client[c].turns = {}
      /\ client \in [Client -> Call]
  BY <1>1 DEF Idle, Call
<1>3. FeedbackTypeOK
  BY <1>1, <1>2, SignalsAre DEF FeedbackTypeOK
<1>4. TurnsIn(<<>>) = {}
  BY DEF TurnsIn, ToSet
<1>5. Elsewhere /\ OneRewrite /\ CallsSound /\ Apart
  <2>1. Elsewhere /\ OneRewrite
    BY <1>1 DEF Elsewhere, OneRewrite
  <2>2. CallsSound
    BY <1>2 DEF CallsSound, CallSound, Posting, Erasing
  <2>3. Apart
    BY <1>2 DEF Apart, Overlap, Erases
  <2> QED
    BY <2>1, <2>2, <2>3
<1>6. HeldIsKnown /\ IngestedOK /\ ErasingOK /\ SnapshotCurrent /\ ErasedOK
  <2>1. Held = {}
    BY <1>1, <1>4 DEF Held
  <2>2. HeldIsKnown /\ ErasedOK
    BY <2>1, <1>1 DEF HeldIsKnown, ErasedOK
  <2>3. IngestedOK /\ ErasingOK /\ SnapshotCurrent
    BY <1>2 DEF IngestedOK, ErasingOK, SnapshotCurrent, Sending, Showing
  <2> QED
    BY <2>2, <2>3
<1>7. ShownAgrees
  BY <1>1, <1>2 DEF ShownAgrees
<1>8. FileAgrees
  <2> SUFFICES ASSUME NEW t \in Turn, NEW b \in Bases
               PROVE  values[t] = Read(b, t) /\ \A c \in Client : ~Sending(c, t)
    BY DEF FileAgrees
  <2>1. \A c \in Client : ~Sending(c, t)
    BY <1>2 DEF Sending
  <2>2. b = 0
    BY <1>1 DEF Bases
  <2>3. From(0) = <<>>
    BY <1>1 DEF From, Base
  <2>4. <<>> \in Seq(Entry)
    OBVIOUS
  <2>5. Replay(<<>>)[t] = Nothing
    BY <1>4, <2>4, ReplayHas
  <2> QED
    BY <2>1, <2>2, <2>3, <2>5, <1>1 DEF Read
<1> QED
  BY <1>3, <1>5, <1>6, <1>7, <1>8 DEF FeedbackInv

-----------------------------------------------------------------------------
(* The process.                                                              *)

\* A first start finds nothing.
LEMMA InitiallyNext ==
    (FeedbackInit /\ backend \in {"memory", "file", "redis"})' => FeedbackInv'
BY Initially, PTL

\* A start, the first or a later one (main.rs, before the listener is bound).
LEMMA ServeKeeps ==
    ASSUME FeedbackInv, Serve
    PROVE  FeedbackInv'
<1>1. CASE \E c \in Client : Accept(c)
  <2>1. PICK c \in Client : Post(c) \/ Lookup(c) \/ Erase(c)
    BY <1>1 DEF Accept
  <2> QED
    BY <2>1, PostKeeps, LookupKeeps, EraseKeeps
<1>2. CASE \E c \in Client : Proceed(c)
  <2>1. PICK c \in Client : Proceed(c)
    BY <1>2
  <2>2. \/ MergeShared(c) \/ ReadBack(c) \/ Upsert(c) \/ Send(c) \/ Show(c) \/ Store(c)
        \/ DeleteRecords(c) \/ Retained(c) \/ EraseShared(c) \/ EraseValues(c) \/ SendRewrite(c)
    BY <2>1 DEF Proceed
  <2> QED
    BY <2>2, MergeSharedKeeps, ReadBackKeeps, UpsertKeeps, SendKeeps, ShowKeeps, StoreKeeps,
       DeleteRecordsKeeps, RetainedKeeps, EraseSharedKeeps, EraseValuesKeeps, SendRewriteKeeps
<1>3. CASE \E c \in Client : HangUp(c)
  BY <1>3, HangUpKeeps
<1>4. CASE Writer
  BY <1>4, WriteAppendKeeps, WriteRewriteKeeps DEF Writer
<1>5. CASE \E t \in Turn : Expire(t)
  BY <1>5, ExpireKeeps
<1> QED
  BY <1>1, <1>2, <1>3, <1>4, <1>5 DEF Serve

\* Nothing is done before the process serves.
LEMMA NothingToDo ==
    ASSUME FeedbackInit, backend = "memory", phase \notin {"serving", "draining"}
    PROVE  ~Serve
<1>1. queue = <<>> /\ \A c \in Client : client[c].pc = "idle"
  BY DEF FeedbackInit, Idle
<1>2. \A c \in Client : ~Accept(c)
  BY DEF Accept
<1>3. ASSUME NEW c \in Client PROVE ~Proceed(c) /\ ~HangUp(c)
  <2>1. ~MergeShared(c) /\ ~ReadBack(c) /\ ~Upsert(c) /\ ~Send(c) /\ ~Show(c) /\ ~Store(c)
    BY <1>1 DEF MergeShared, ReadBack, Upsert, Send, Show, Store
  <2>2. /\ ~DeleteRecords(c) /\ ~Retained(c) /\ ~EraseShared(c) /\ ~EraseValues(c)
        /\ ~SendRewrite(c) /\ ~HangUp(c)
    BY <1>1 DEF DeleteRecords, Retained, EraseShared, EraseValues, SendRewrite, HangUp
  <2> QED
    BY <2>1, <2>2 DEF Proceed
<1>4. ~Writer
  BY <1>1 DEF Writer, WriteAppend, WriteRewrite
<1>5. \A t \in Turn : ~Expire(t)
  BY DEF Expire
<1> QED
  BY <1>2, <1>3, <1>4, <1>5 DEF Serve

\* ServiceInv is inductive.
LEMMA ServiceInvHolds == ServiceSpec => []ServiceInv
<1>1. ServiceInit => ServiceInv
  BY Initially DEF ServiceInit, ServiceInv
<1>2. ServiceInv /\ [ServiceNext]_serviceVars => ServiceInv'
  <2> SUFFICES ASSUME ServiceInv, [ServiceNext]_serviceVars PROVE ServiceInv'
    OBVIOUS
  <2>1. /\ FeedbackInv
        /\ phase \notin {"serving", "draining"} => FeedbackInit /\ backend = "memory"
        /\ phase = "checked" => report = DryRun(launch.args, launch.world)
    BY DEF ServiceInv
  <2>u. ASSUME UNCHANGED feedbackVars
        PROVE  /\ FeedbackInv' /\ backend' = backend
               /\ FeedbackInit => FeedbackInit'
    <3>1. UNCHANGED <<backend, values, shared, queue, file, rotated, shown, client, erasures, unsure, erased>>
      BY <2>u DEF feedbackVars
    <3>2. FeedbackInv'
      BY <2>1, <3>1 DEF FeedbackInv, FeedbackTypeOK, Elsewhere, CallsSound, CallSound, Now, Apart,
         Overlap, Erases, OneRewrite, Awaits, HeldIsKnown, Held, Named, Leaving, IngestedOK,
         Sending, Showing, ErasingOK, SnapshotCurrent, FileAgrees, Bases, Counts, Read, From,
         Base, ShownAgrees, ErasedOK
    <3>3. FeedbackInit => FeedbackInit'
      BY <2>u DEF feedbackVars, FeedbackInit
    <3> QED
      BY <3>1, <3>2, <3>3
  <2>2. CASE Check
    BY <2>1, <2>2, <2>u DEF Check, ServiceInv
  <2>3. CASE Start
    <3>1. phase \in {"down", "checked"} /\ phase' = "serving" /\ backend' = Backend(launch.args)
      BY <2>3 DEF Start
    <3>2. UNCHANGED <<values, shared, queue, file, rotated, shown, client, posts, erasures,
                      failures, restarts, unsure, erased>>
      BY <2>3 DEF Start, counters
    <3>3. FeedbackInit'
      BY <2>1, <3>1, <3>2 DEF FeedbackInit
    <3>4. backend' \in {"memory", "file", "redis"}
      BY <3>1 DEF Backend
    <3> QED
      BY <3>1, <3>3, <3>4, InitiallyNext DEF ServiceInv
  <2>4. CASE Refuse
    BY <2>1, <2>4, <2>u DEF Refuse, ServiceInv
  <2>5. CASE Drain
    BY <2>1, <2>5, <2>u DEF Drain, ServiceInv
  <2>6. CASE End
    BY <2>1, <2>6, RestartKeeps DEF End, ServiceInv
  <2>7. CASE Serve
    <3>1. phase \in {"serving", "draining"} /\ phase' = phase
      BY <2>1, <2>7, NothingToDo DEF Serve
    <3> QED
      BY <2>1, <2>7, <3>1, ServeKeeps DEF ServiceInv
  <2>8. CASE UNCHANGED serviceVars
    BY <2>1, <2>8, <2>u DEF serviceVars, ServiceInv
  <2> QED
    BY <2>2, <2>3, <2>4, <2>5, <2>6, <2>7, <2>8 DEF ServiceNext
<1> QED
  BY <1>1, <1>2, PTL DEF ServiceSpec

\* The memory, the queue, the files, the records and the calls have what FeedbackTypeOK
\* says they have: above all, the file and its rotated copy are lines, and every signal is
\* one of normalize_signal's kinds with a strength from 0 to 1.
THEOREM FeedbackTypeCorrect == ServiceSpec => []FeedbackTypeOK
<1>1. ServiceInv => FeedbackTypeOK
  BY DEF ServiceInv, FeedbackInv
<1> QED
  BY <1>1, ServiceInvHolds, PTL

\* Feedback whose erasure was acknowledged is nowhere, through restarts, until a signal is
\* posted on the turn again (delete_matching, rewrite_feedback).
THEOREM ErasedFeedbackStaysGone == ServiceSpec => []ErasedFeedbackIsGone
<1>1. ServiceInv => ErasedFeedbackIsGone
  <2> SUFFICES ASSUME FeedbackInv, NEW t \in erased
               PROVE  /\ values[t] = Nothing /\ shared[t] = Nothing
                      /\ t \notin TurnsIn(file) \cup TurnsIn(rotated)
                      /\ \A i \in DOMAIN queue : t \notin Named(queue[i])
    BY DEF ServiceInv, ErasedFeedbackIsGone, Named, ToSet
  <2> QED
    BY HeldAre DEF FeedbackInv, ErasedOK
<1> QED
  BY <1>1, ServiceInvHolds, PTL

\* What a restart would read once the queue is written is what memory holds of every turn
\* that no call is on and no rotation has moved (upsert, delete_matching and
\* feedback_writer against open).
THEOREM RestartAlwaysAgrees == ServiceSpec => []RestartAgrees
<1>1. ServiceInv => RestartAgrees
  <2> SUFFICES ASSUME FeedbackInv, backend = "file", NEW t \in Turn \ TurnsIn(rotated), Quiet(t)
               PROVE  Replay(Written)[t] = values[t]
    BY DEF ServiceInv, RestartAgrees
  <2> USE DEF FeedbackInv
  <2>n. PICK n \in Nat : n = Len(queue) /\ Bases \subseteq 0 .. n /\ 0 \in Bases
    BY BasesAre
  <2>1. Max(Bases) \in Bases
    <3>1. PICK m \in Bases : \A b \in Bases : m >= b
      <4>1. CASE Bases \ {0} = {}
        BY <4>1, <2>n
      <4>2. CASE Bases \ {0} # {}
        <5>1. Bases \ {0} \in SUBSET (1 .. n)
          BY <2>n
        <5>2. PICK m : m \in Bases \ {0} /\ \A j \in Bases \ {0} : j <= m
          BY <4>2, <5>1, LastPlace
        <5>3. m \in 1 .. n /\ \A b \in Bases : b \in 0 .. n /\ (b # 0 => b <= m)
          BY <5>1, <5>2, <2>n
        <5>4. \A b \in Bases : m >= b
          BY <5>3
        <5> QED
          BY <5>2, <5>4
      <4> QED
        BY <4>1, <4>2
    <3> QED
      BY <3>1 DEF Max
  <2>2. t \notin unsure /\ \A c \in Client : t \notin client[c].turns
    BY DEF Quiet
  <2>3. \A c \in Client : ~Sending(c, t) /\ t \notin Leaving(c)
    <3>1. \A c \in Client : client[c].pc \in Posting => Now(client[c]) \in client[c].turns
      BY NowIn
    <3> QED
      BY <2>2, <3>1 DEF Sending, Leaving, Posting
  <2>4. Counts(t, Max(Bases))
    BY <2>3 DEF Counts
  <2> QED
    BY <2>1, <2>2, <2>3, <2>4 DEF FileAgrees, Read, Written
<1> QED
  BY <1>1, ServiceInvHolds, PTL

\* The records of a turn show its feedback as it stands, whichever came first, the record
\* or the signal, before a restart or after it (ingest_feedback, store_record,
\* reconcile_feedback).
THEOREM ShownStaysCurrent == ServiceSpec => []ShownIsCurrent
<1>1. ServiceInv => ShownIsCurrent
  <2> SUFFICES ASSUME FeedbackInv, backend = "file", NEW r \in Record, shown[r] # None,
                      Quiet(TurnOf[r])
               PROVE  shown[r] = values[TurnOf[r]]
    BY DEF ServiceInv, ShownIsCurrent
  <2> USE DEF FeedbackInv
  <2>1. \A c \in Client : client[c].pc \in Posting => Now(client[c]) \in client[c].turns
    BY NowIn
  <2>2. \A c \in Client : ~Showing(c, TurnOf[r])
    BY <2>1 DEF Quiet, Showing, Posting
  <2> QED
    BY <2>2 DEF Quiet, ShownAgrees
<1> QED
  BY <1>1, ServiceInvHolds, PTL

\* Start-up stops for a reason that the dry run has not excluded, and goes on only with
\* what main does not look at missing.
LEMMA Foretold ==
    ASSUME NEW a, NEW w
    PROVE  LET report_ == DryRun(a, w)
           IN  /\ report_.valid /\ Stopped(a, w) # None =>
                     \/ Stopped(a, w) \in {"state", "management", "stores", "port"}
                     \/ Stopped(a, w) = "control" /\ a.manifest
               /\ Stopped(a, w) = None =>
                     report_.failed \subseteq {"referenced_provider_auth", "catalog_manifest",
                                               "cost_override_reason", "quota_scope_topology"}
<1>1. ASSUME ValidateArgs(a), w.catalog # None, w.route # None
      PROVE  DryRun(a, w).valid = (Failures(a, w) = {}) /\ DryRun(a, w).failed = Failures(a, w)
  BY <1>1 DEF DryRun
<1>2. ASSUME ~(ValidateArgs(a) /\ w.catalog # None /\ w.route # None)
      PROVE  DryRun(a, w).valid = FALSE
  BY <1>2 DEF DryRun
<1>3. ASSUME DryRun(a, w).valid, Stopped(a, w) # None
      PROVE  \/ Stopped(a, w) \in {"state", "management", "stores", "port"}
             \/ Stopped(a, w) = "control" /\ a.manifest
  <2>1. ValidateArgs(a) /\ w.catalog # None /\ w.route # None /\ Failures(a, w) = {}
    BY <1>1, <1>2, <1>3
  <2>2. ArtifactsLoad(a, w)
    BY <2>1 DEF Failures, ArtifactChecks
  <2>3. Validate(w.route, w.catalog)
    BY <2>1 DEF Failures, RouteChecks
  <2>4. ~a.manifest => ControlLoads(a, w)
    BY <2>1, <2>3 DEF ControlLoads, KeyReadable, ValidateArgs
  <2> QED
    BY <2>1, <2>2, <2>4, <1>3 DEF Stopped
<1>4. ASSUME Stopped(a, w) = None
      PROVE  DryRun(a, w).failed \subseteq {"referenced_provider_auth", "catalog_manifest",
                                            "cost_override_reason", "quota_scope_topology"}
  <2>1. ValidateArgs(a) /\ ControlLoads(a, w) /\ ArtifactsLoad(a, w)
    BY <1>4, ServiceAssumption DEF Stopped
  <2>2. w.catalog # None /\ w.route # None /\ Validate(w.route, w.catalog)
    BY <2>1 DEF ControlLoads
  <2>3. Duplicates(w.route.quotas) = {}
    BY <2>2 DEF Validate
  <2>4. ArtifactChecks(a, w) = {}
    BY <2>1 DEF ArtifactChecks
  <2>5. RouteChecks(a, w) = {}
    BY <2>1, <2>2 DEF RouteChecks, ValidateArgs, ExplorationValid
  <2>6. DryRun(a, w).failed = Failures(a, w)
    BY <1>1, <2>1, <2>2
  <2> QED
    BY <2>3, <2>4, <2>5, <2>6 DEF Failures, CatalogChecks
<1> QED
  BY <1>3, <1>4

\* The dry run foretells the start (dry_run.rs against main.rs).
THEOREM DryRunAlwaysForetells == ServiceSpec => DryRunForetells
<1> DEFINE Foretells ==
      LET a == launch.args
          w == launch.world
      IN  phase = "checked" =>
            /\ (phase' = "refused" /\ report.valid) =>
                 \/ Stopped(a, w) \in {"state", "management", "stores", "port"}
                 \/ Stopped(a, w) = "control" /\ a.manifest
            /\ phase' = "serving" =>
                 report.failed \subseteq {"referenced_provider_auth", "catalog_manifest",
                                          "cost_override_reason", "quota_scope_topology"}
<1>1. ServiceInv /\ [ServiceNext]_serviceVars => [Foretells]_serviceVars
  <2> SUFFICES ASSUME ServiceInv, ServiceNext, phase = "checked"
               PROVE  /\ (phase' = "refused" /\ report.valid) =>
                           \/ Stopped(launch.args, launch.world) \in {"state", "management", "stores", "port"}
                           \/ Stopped(launch.args, launch.world) = "control" /\ launch.args.manifest
                      /\ phase' = "serving" =>
                           report.failed \subseteq {"referenced_provider_auth", "catalog_manifest",
                                                    "cost_override_reason", "quota_scope_topology"}
    BY DEF Foretells
  <2>1. report = DryRun(launch.args, launch.world)
    BY DEF ServiceInv
  <2>2. phase' = "refused" => Stopped(launch.args, launch.world) # None
    BY DEF ServiceNext, Check, Start, Refuse, Drain, End, Serve
  <2>3. phase' = "serving" => Stopped(launch.args, launch.world) = None
    BY DEF ServiceNext, Check, Start, Refuse, Drain, End, Serve
  <2> QED
    BY <2>1, <2>2, <2>3, Foretold
<1>2. ServiceSpec => [][Foretells]_serviceVars
  BY <1>1, ServiceInvHolds, PTL DEF ServiceSpec
<1> QED
  BY <1>2 DEF DryRunForetells
=============================================================================
