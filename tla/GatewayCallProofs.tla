-------------------------- MODULE GatewayCallProofs --------------------------
(***************************************************************************)
(* Proofs about GatewayCall: what one call sends, keeps, records and binds  *)
(* agrees with what it was reserved for and with how it ended, for any      *)
(* route, deployments, decisions and failures.                              *)
(***************************************************************************)
EXTENDS GatewayCall, FiniteSetTheorems, TLAPS

-----------------------------------------------------------------------------
(* The inductive invariant.                                                  *)

Models == {Facts[d].model : d \in DOMAIN Facts} \cup {d.model : d \in Decisions} \cup {None}

Reasons == {d.reason : d \in Decisions}
             \cup {"none", "migration", "session_binding", "task_binding", "fallback_degraded"}

Boundaries == {d.boundary : d \in Decisions} \cup {"none"}

RouteDecision == [tier : TierSet, model : Models, reason : Reasons, conversation : BOOLEAN,
                  boundary : Boundaries]

SentRecord == [tier : TierSet, deployment : DOMAIN Facts, model : Models]
AttemptRecord == [tier : TierSet, model : Models, ok : BOOLEAN]
DecisionRecord == [stored : BOOLEAN, tier : TierSet \cup {None},
                   execution : [ok : BOOLEAN, attempts : Nat]]

\* Where the handler is before the walk, on a tier, and after the answer.
Early == {"arrived", "entered", "decided", "budgeted", "admitted", "bound"}
Walking == {"routing", "tier", "leased", "sent"}
Answered == {"served", "settled", "committed"}

Typed ==
    /\ phase \in Early \cup Walking \cup Answered \cup {"failed", "ended"}
    /\ decision \in RouteDecision
    /\ pending \in Seq(TierSet) /\ visited \subseteq TierSet
    /\ tier \in TierSet \cup {None}
    /\ retries \in 0..MaxRetries
    /\ lost \subseteq {"completion", "setup"}
    /\ sends \in Seq(SentRecord) /\ attempts \in Seq(AttemptRecord)
    /\ record \in DecisionRecord
    /\ scoped \in BOOLEAN

\* The budget and the quota are held from their grants to the end of the call.
Reserved ==
    /\ phase \in {"arrived", "entered", "decided"} => budget = "none"
    /\ phase \in {"budgeted", "admitted", "bound", "served", "failed"} \cup Walking => budget = "held"
    /\ phase \in {"settled", "committed"} => budget \in {"held", "settled"}
    /\ phase = "ended" => budget \in {"none", "released", "settled", "dropped"}
    /\ phase \in {"arrived", "entered", "decided", "budgeted"} => quota = "none"
    /\ quota \in {"none", "held", "released"}
    /\ phase = "ended" => quota # "held"

\* Nothing is sent before the walk.
StartsClean ==
    phase \in Early => /\ sends = <<>> /\ attempts = <<>> /\ lost = {}
                       /\ visited = {} /\ pending = <<>>

\* What is leased may be leased, and what is sent is sent on it.
LeaseFits ==
    /\ phase \in {"tier", "leased", "sent"} \cup Answered => tier \in visited
    /\ phase \in {"leased", "sent"} => lease \in Candidates(tier)
    /\ phase = "served" => lease \in DOMAIN Facts
    /\ phase \notin {"leased", "sent", "served"} => lease = None
    /\ scoped => phase \in {"sent"} \cup Answered
    /\ phase \in {"sent"} \cup Answered => sends # <<>> /\ sends[Len(sends)].tier = tier
    /\ phase = "sent" => sends[Len(sends)].model = ModelOf(lease)

\* The list of attempts is what was sent, but for those in lost; a conversation that fell
\* over to a tier without its model is one that is bound to it.
Listed ==
    /\ lost = {} /\ phase \notin {"sent", "ended"} => Len(attempts) = Len(sends)
    /\ lost = {} /\ phase = "sent" => Len(sends) = Len(attempts) + 1
    /\ "setup" \in lost => phase \in {"failed", "ended"} /\ SessionBound
    /\ budget = "released" => phase = "ended"

\* Attempts fail until one is answered, on the tier the decision then has.
LastSucceeds ==
    /\ phase \in Walking \cup {"failed"} => \A i \in DOMAIN attempts : ~attempts[i].ok
    /\ phase \in Answered =>
          /\ attempts # <<>> /\ attempts[Len(attempts)].ok
          /\ \A i \in 1..(Len(attempts) - 1) : ~attempts[i].ok
          /\ decision.tier = tier

\* Records and bindings are written when the call is over.
WrittenLast ==
    /\ record.execution.ok => phase = "ended"
    /\ binding # None => phase \in {"committed", "ended"} /\ sends # <<>>

Sound ==
    /\ Typed /\ Reserved /\ StartsClean /\ LeaseFits /\ Listed /\ LastSucceeds /\ WrittenLast
    /\ SpendIsKept /\ RecordTellsServed

\* What is sent to a tier of the plan has its price in the estimate, as long as the call
\* is where its rule put it.
Priced ==
    /\ budget = "none" => estimate = NoEstimate /\ sends = <<>>
    /\ budget # "none" /\ decision.reason = "rule" => estimate = Estimate
    /\ decision.reason = "rule" =>
          \A i \in DOMAIN sends : sends[i].tier \in estimate.tiers =>
                                     sends[i].model \in estimate.models

\* A tier is gone through once, from its first attempt to its last.
Contiguous ==
    /\ \A i, j \in DOMAIN sends : i < j /\ sends[i].tier = sends[j].tier =>
          \A k \in i..j : sends[k].tier = sends[i].tier
    /\ \A i \in DOMAIN sends : sends[i].tier \in visited
    /\ phase \in {"tier", "leased", "sent"} =>
          \A i, k \in DOMAIN sends : sends[i].tier = tier /\ i < k => sends[k].tier = tier

Plan == ToSet(PlanFallbackTiers(decision.tier, MaxFallbackDepth))

\* The walk stays in the plan, unless the plan has more tiers than a walk may leave.
StaysInPlan ==
    decision.reason = "rule" /\ ~SessionBound /\ Cardinality(Plan) <= MaxFallbackDepth =>
        visited \cup ToSet(pending) \subseteq Plan

\* Each tier is sent a first attempt and its retries.
Tries == MaxRetries + 1

Counted ==
    /\ Cardinality(visited) <= MaxFallbackDepth + 1
    /\ phase \notin {"tier", "leased", "sent"} => Len(sends) <= Cardinality(visited) * Tries
    /\ phase \in {"tier", "leased"} =>
          Len(sends) <= (Cardinality(visited) - 1) * Tries + retries
    /\ phase = "sent" => Len(sends) <= (Cardinality(visited) - 1) * Tries + retries + 1

Measured == Priced /\ Contiguous /\ StaysInPlan /\ Counted

IInv == Sound /\ Measured

-----------------------------------------------------------------------------
(* What the queue of a walk is made of.                                      *)

\* The first n numbers are n.
LEMMA UpTo == ASSUME NEW n \in Nat PROVE IsFiniteSet(1..n) /\ Cardinality(1..n) = n
BY FS_Interval

\* The places of the members that are kept are those of the sequence that is kept.
LEMMA PlaceOf ==
    ASSUME NEW n \in Nat, NEW kept \in SUBSET (1..n), NEW k \in 1..Cardinality(kept)
    PROVE  /\ IsFiniteSet(kept) /\ Cardinality(kept) \in Nat
           /\ \E i \in kept : Cardinality({j \in kept : j <= i}) = k
<1> DEFINE upTo(i) == {j \in kept : j <= i}
           place == [i \in kept |-> Cardinality(upTo(i))]
<1>1. IsFiniteSet(1..n) /\ kept \subseteq Int
  BY UpTo
<1>2. IsFiniteSet(kept) /\ Cardinality(kept) \in Nat
  BY <1>1, FS_Subset, FS_CardinalityType
<1>3. \A i \in kept : /\ IsFiniteSet(upTo(i)) /\ Cardinality(upTo(i)) \in 1..Cardinality(kept)
  <2>1. SUFFICES ASSUME NEW i \in kept
                 PROVE  /\ IsFiniteSet(upTo(i))
                        /\ Cardinality(upTo(i)) \in 1..Cardinality(kept)
    OBVIOUS
  <2>2. IsFiniteSet(upTo(i)) /\ Cardinality(upTo(i)) <= Cardinality(kept)
    BY <1>2, FS_Subset
  <2>3. i \in upTo(i)
    OBVIOUS
  <2>4. Cardinality(upTo(i)) # 0 /\ Cardinality(upTo(i)) \in Nat
    BY <2>2, <2>3, FS_EmptySet, FS_CardinalityType
  <2>5. QED BY <1>2, <2>2, <2>4
<1>4. ASSUME NEW i \in kept, NEW j \in kept, i < j
      PROVE  Cardinality(upTo(i)) # Cardinality(upTo(j))
  <2>0. i \in Int /\ j \in Int /\ \A x \in kept : x \in Int
    BY <1>1
  <2>1. upTo(i) \in SUBSET upTo(j)
    <3>1. \A x \in kept : x <= i => x <= j
      BY <1>4, <2>0
    <3>2. QED BY <3>1
  <2>2. j \in upTo(j) /\ j \notin upTo(i)
    BY <1>1, <1>4
  <2>3. upTo(i) # upTo(j)
    BY <2>2
  <2>4. QED BY <1>3, <2>1, <2>3, FS_Subset
<1>5. ASSUME \A i \in kept : Cardinality(upTo(i)) # k
      PROVE  FALSE
  <2> DEFINE all == 1..Cardinality(kept)
             others == all \ {k}
  <2>1. IsFiniteSet(all) /\ Cardinality(all) = Cardinality(kept) /\ k \in all
    BY <1>2, UpTo
  <2>3. place \in [kept -> others]
    BY <1>3, <1>5
  <2> HIDE DEF all, place
  <2>2. IsFiniteSet(others) /\ Cardinality(others) < Cardinality(kept)
    BY <1>2, <2>1, FS_RemoveElement
  <2> HIDE DEF others
  <2>4. \E i, j \in kept : i # j /\ place[i] = place[j]
    BY <1>2, <2>2, <2>3, FS_PigeonHole
  <2>5. PICK i \in kept, j \in kept : i # j /\ place[i] = place[j]
    BY <2>4
  <2> USE DEF place
  <2>6. i < j \/ j < i
    BY <1>1, <2>5
  <2>7. QED BY <1>4, <2>5, <2>6
<1>6. QED BY <1>2, <1>5

\* Kept keeps members of the sequence that are in the set, and all of them if all are.
LEMMA KeptOf ==
    ASSUME NEW T, NEW s \in Seq(T), NEW S
    PROVE  /\ Kept(s, S) \in Seq(T)
           /\ ToSet(Kept(s, S)) \subseteq ToSet(s)
           /\ ToSet(s) \subseteq S => Kept(s, S) = s
<1> DEFINE kept == {i \in DOMAIN s : s[i] \in S}
           place(i) == Cardinality({j \in kept : j <= i})
           order(k) == CHOOSE i \in kept : place(i) = k
<1>1. Kept(s, S) = [k \in 1..Cardinality(kept) |-> s[order(k)]]
  BY DEF Kept
<1>2. Len(s) \in Nat /\ DOMAIN s = 1..Len(s) /\ kept \in SUBSET (1..Len(s))
  OBVIOUS
<1>3. IsFiniteSet(kept) /\ Cardinality(kept) \in Nat
  BY <1>2, UpTo, FS_Subset, FS_CardinalityType
<1>4. \A k \in 1..Cardinality(kept) : order(k) \in kept /\ place(order(k)) = k
  <2>1. SUFFICES ASSUME NEW k \in 1..Cardinality(kept)
                 PROVE  order(k) \in kept /\ place(order(k)) = k
    OBVIOUS
  <2>2. \E i \in kept : place(i) = k
    BY <1>2, PlaceOf
  <2>3. QED BY <2>2
<1> HIDE DEF order
<1>5. Kept(s, S) \in Seq(T)
  <2>1. ASSUME NEW k \in 1..Cardinality(kept)
        PROVE  s[order(k)] \in T
    <3>1. order(k) \in 1..Len(s)
      BY <1>2, <1>4
    <3>2. QED BY <3>1
  <2>2. QED BY <1>1, <1>3, <2>1
<1>6. ToSet(Kept(s, S)) \subseteq ToSet(s)
  BY <1>1, <1>2, <1>4 DEF ToSet
<1>7. ASSUME ToSet(s) \subseteq S
      PROVE  Kept(s, S) = s
  <2>1. kept = 1..Len(s)
    BY <1>2, <1>7 DEF ToSet
  <2>2. Cardinality(kept) = Len(s)
    BY <1>2, <2>1, UpTo
  <2>3. \A i \in kept : place(i) = i
    <3>1. SUFFICES ASSUME NEW i \in kept
                   PROVE  place(i) = i
      OBVIOUS
    <3>2. {j \in kept : j <= i} = 1..i /\ i \in Nat /\ i >= 1
      BY <1>2, <2>1
    <3>3. Cardinality(1..i) = i
      BY <3>2, UpTo
    <3>4. QED BY <3>2, <3>3
  <2>4. \A k \in 1..Len(s) : order(k) = k
    BY <1>4, <2>2, <2>3
  <2>5. Kept(s, S) = [k \in 1..Len(s) |-> s[k]]
    BY <1>1, <2>2, <2>4
  <2>6. QED BY <2>5
<1>8. QED BY <1>5, <1>6, <1>7

\* A sequence has no more members than its length.
LEMMA MembersOf ==
    ASSUME NEW T, NEW s \in Seq(T)
    PROVE  /\ IsFiniteSet(ToSet(s)) /\ ToSet(s) \subseteq T
           /\ Cardinality(ToSet(s)) \in Nat /\ Cardinality(ToSet(s)) <= Len(s)
<1>1. Len(s) \in Nat /\ IsFiniteSet(1..Len(s)) /\ Cardinality(1..Len(s)) = Len(s)
  BY UpTo
<1>2. s \in Surjection(1..Len(s), ToSet(s))
  BY DEF Surjection, ToSet
<1>3. QED BY <1>1, <1>2, FS_Surjection, FS_CardinalityType DEF ToSet

\* A route has finitely many tiers.
LEMMA TiersFinite == IsFiniteSet(TierSet)
BY RouteAssumption, MembersOf DEF TierSet

\* Whatever its cause, a failure falls over to tiers.
LEMMA FallbacksAre ==
    ASSUME NEW t \in TierSet, NEW c
    PROVE  /\ FallbacksFor(t, c) \in Seq(TierSet)
           /\ ToSet(FallbacksFor(t, c)) \subseteq Falls(t)
BY RouteAssumption DEF FallbacksFor, Falls

\* The deployments of a tier are configured ones.
LEMMA DeploymentsAre ==
    ASSUME NEW t \in TierSet
    PROVE  /\ DeploymentsOf(t) \subseteq DOMAIN Facts
           /\ Candidates(t) \subseteq DeploymentsOf(t)
           /\ DeploymentsOf(t) = {} => ~ExplicitModel /\ SessionBound
<1>1. Deployments[t] # {} /\ Deployments[t] \subseteq DOMAIN Facts /\ Explicit \in DOMAIN Facts
  BY ConstantsAssumption
<1>2. DeploymentsOf(t) \subseteq DOMAIN Facts /\ Candidates(t) \subseteq DeploymentsOf(t)
  BY <1>1 DEF DeploymentsOf, Candidates
<1>3. DeploymentsOf(t) = {} => ~ExplicitModel /\ SessionBound
  BY <1>1 DEF DeploymentsOf
<1>4. QED BY <1>2, <1>3

-----------------------------------------------------------------------------
(* What a step that leaves the decision alone leaves alone with it.          *)

\* Where a call may be executed hangs on its decision and its request alone.
LEMMA SameDecision ==
    ASSUME decision' = decision
    PROVE  /\ ExplicitModel' <=> ExplicitModel
           /\ SessionBound' <=> SessionBound
           /\ \A d : ModelOf(d)' = ModelOf(d)
           /\ \A t : DeploymentsOf(t)' = DeploymentsOf(t)
           /\ \A d : FilterReasons(d)' = FilterReasons(d)
           /\ \A t : Candidates(t)' = Candidates(t)
<1>1. /\ ExplicitModel' <=> ExplicitModel
      /\ SessionBound' <=> SessionBound
      /\ BoundRequest' <=> BoundRequest
  BY DEF ExplicitModel, SessionBound, BoundRequest
<1>2. \A d : ModelOf(d)' = ModelOf(d)
  BY DEF ModelOf
<1>3. \A t : DeploymentsOf(t)' = DeploymentsOf(t)
  BY <1>1 DEF DeploymentsOf
<1>4. \A d : FilterReasons(d)' = FilterReasons(d)
  BY <1>1, <1>2 DEF FilterReasons
<1>5. \A t : Candidates(t)' = Candidates(t)
  BY <1>3, <1>4 DEF Candidates
<1>6. QED BY <1>1, <1>2, <1>3, <1>4, <1>5

\* A model is one of the deployment's or the decision's.
LEMMA ModelIs ==
    ASSUME decision \in RouteDecision, NEW d \in DOMAIN Facts
    PROVE  ModelOf(d) \in Models
BY DEF ModelOf, RouteDecision, Models

\* The tier that is left queues tiers it falls over to.
LEMMA TierLeft ==
    ASSUME Typed, tier \in TierSet, NEW why, NEW from, LeaveTier(why, from)
    PROVE  /\ phase' \in {"routing", "failed"}
           /\ pending' \in Seq(TierSet)
           /\ ToSet(pending') \subseteq ToSet(pending) \cup Falls(tier)
<1> DEFINE fell == IF why = "none" THEN "capacity" ELSE why
           falls == IF ExplicitModel THEN <<>> ELSE Kept(FallbacksFor(tier, fell), TierSet \ visited)
<1>1. pending \in Seq(TierSet)
  BY DEF Typed
<1>2. falls \in Seq(TierSet) /\ ToSet(falls) \subseteq Falls(tier)
  <2>1. /\ FallbacksFor(tier, fell) \in Seq(TierSet)
        /\ ToSet(FallbacksFor(tier, fell)) \subseteq Falls(tier)
    BY FallbacksAre
  <2>2. /\ Kept(FallbacksFor(tier, fell), TierSet \ visited) \in Seq(TierSet)
        /\ ToSet(Kept(FallbacksFor(tier, fell), TierSet \ visited)) \subseteq Falls(tier)
    BY <2>1, KeptOf
  <2>3. <<>> \in Seq(TierSet) /\ ToSet(<<>>) = {}
    BY DEF ToSet
  <2>4. QED BY <2>2, <2>3
<1>3. \/ phase' = "failed" /\ pending' = pending
      \/ phase' = "routing" /\ pending' = pending \o falls
  BY DEF LeaveTier
<1> HIDE DEF falls
<1>4. /\ pending \o falls \in Seq(TierSet)
      /\ ToSet(pending \o falls) \subseteq ToSet(pending) \cup ToSet(falls)
  BY <1>1, <1>2 DEF ToSet
<1>5. QED BY <1>1, <1>2, <1>3, <1>4

-----------------------------------------------------------------------------
(* How a call ends agrees with what it did (Sound).                          *)

\* What routing can decide is a RouteDecision.
LEMMA DecisionsTyped == Decisions \subseteq RouteDecision /\ NoDecision \in RouteDecision
<1>1. \A d \in Decisions : d \in [tier : TierSet, model : {d.model}, reason : {d.reason},
                                  conversation : BOOLEAN, boundary : {d.boundary}]
  BY ConstantsAssumption
<1>2. \A d \in Decisions : d.model \in Models /\ d.reason \in Reasons /\ d.boundary \in Boundaries
  BY DEF Models, Reasons, Boundaries
<1>3. \A d \in Decisions : d \in RouteDecision
  BY <1>1, <1>2 DEF RouteDecision
<1>4. Tier[1] \in TierSet
  BY RouteAssumption DEF TierSet, ToSet
<1>5. QED BY <1>3, <1>4 DEF NoDecision, RouteDecision, Models, Reasons, Boundaries

\* Before a call enters nothing is held, listed or recorded.
LEMMA InitSound == Init => Sound
<1>1. SUFFICES ASSUME Init PROVE Sound
  OBVIOUS
<1>2. Typed
  <2>1. record \in DecisionRecord
    BY <1>1 DEF Init, NoRecord, DecisionRecord
  <2>2. decision \in RouteDecision /\ retries \in 0..MaxRetries
    BY <1>1, DecisionsTyped, ConstantsAssumption DEF Init
  <2>3. /\ phase = "arrived" /\ pending = <<>> /\ visited = {} /\ tier = None /\ lost = {}
        /\ sends = <<>> /\ attempts = <<>> /\ scoped = FALSE
    BY <1>1 DEF Init
  <2>4. /\ pending \in Seq(TierSet) /\ sends \in Seq(SentRecord) /\ attempts \in Seq(AttemptRecord)
    BY <2>3
  <2>5. QED BY <2>1, <2>2, <2>3, <2>4 DEF Typed, Early
<1>3. /\ Reserved /\ StartsClean /\ LeaseFits /\ Listed /\ LastSucceeds /\ WrittenLast
  <2>1. ~record.execution.ok
    BY <1>1 DEF Init, NoRecord
  <2>2. QED BY <1>1, <2>1 DEF Init, Reserved, StartsClean, LeaseFits, Listed, LastSucceeds,
                              WrittenLast, Early, Walking, Answered
<1>5. SpendIsKept /\ RecordTellsServed
  BY <1>1 DEF Init, SpendIsKept, RecordTellsServed, NoRecord
<1>4. QED BY <1>2, <1>3, <1>5 DEF Sound

\* Before the walk there is nothing to agree with.
LEMMA AdmissionSound ==
    ASSUME Sound, phase \in Early, phase' \in Early, decision' \in RouteDecision,
           UNCHANGED <<walk, lease, scoped, outcome>>, Reserved'
    PROVE  Sound'
<1>1. Typed'
  BY DEF Sound, Typed, walk, outcome, history
<1>2. /\ sends = <<>> /\ attempts = <<>> /\ lost = {} /\ visited = {} /\ pending = <<>>
      /\ sends' = <<>> /\ attempts' = <<>> /\ lost' = {} /\ visited' = {} /\ pending' = <<>>
      /\ phase' # "ended" /\ ~record.execution.ok /\ binding = None
      /\ record' = record /\ binding' = binding /\ lease = None /\ lease' = None
      /\ ~scoped /\ scoped' = scoped /\ budget' # "released"
  BY DEF Sound, StartsClean, LeaseFits, WrittenLast, Reserved, walk, outcome, history, Early,
         Answered, Walking
<1>3. /\ StartsClean' /\ LeaseFits' /\ Listed' /\ LastSucceeds' /\ WrittenLast'
      /\ SpendIsKept' /\ RecordTellsServed'
  BY <1>2 DEF StartsClean, LeaseFits, Listed, LastSucceeds, WrittenLast, SpendIsKept,
              RecordTellsServed, Early, Walking, Answered
<1>4. QED BY <1>1, <1>3 DEF Sound

\* The front end, the decision and the two admissions: a budget is taken only when
\* nothing was sent.
LEMMA EntersSound ==
    ASSUME Sound,
           \/ \E api \in Apis, stream \in BOOLEAN : Enter(api, stream)
           \/ \E d \in Decisions : Decide(d)
           \/ AcquireBudget \/ AcquireQuota \/ ApplyTaskBinding
    PROVE  Sound'
<1>1. decision \in RouteDecision /\ Reserved
  BY DEF Sound, Typed
<1>2. CASE \E api \in Apis, stream \in BOOLEAN : Enter(api, stream)
  <2>1. phase \in Early /\ phase' \in Early /\ decision' = decision /\ Reserved'
    BY <1>1, <1>2 DEF Enter, Reserved, Early, Walking
  <2>2. UNCHANGED <<walk, lease, scoped, outcome>>
    BY <1>2 DEF Enter
  <2>3. QED BY <1>1, <2>1, <2>2, AdmissionSound
<1>3. CASE \E d \in Decisions : Decide(d)
  <2>1. /\ phase \in Early /\ phase' \in Early /\ decision' \in Decisions /\ Reserved'
        /\ UNCHANGED <<walk, lease, scoped, outcome>>
    BY <1>1, <1>3 DEF Decide, Reserved, Early, Walking
  <2>2. QED BY <2>1, AdmissionSound, DecisionsTyped
<1>4. CASE AcquireBudget \/ AcquireQuota
  <2>1. /\ phase \in Early /\ phase' \in Early /\ decision' = decision /\ Reserved'
        /\ UNCHANGED <<walk, lease, scoped, outcome>>
    BY <1>1, <1>4 DEF AcquireBudget, AcquireQuota, Reserved, Early, Walking
  <2>2. QED BY <1>1, <2>1, AdmissionSound
<1>5. CASE ApplyTaskBinding
  <2>1. /\ phase \in Early /\ phase' \in Early /\ Reserved'
        /\ UNCHANGED <<walk, lease, scoped, outcome>>
    BY <1>1, <1>5 DEF ApplyTaskBinding, Reserved, Early, Walking
  <2>2. decision' \in RouteDecision
    <3>1. CASE decision' = decision
      BY <1>1, <3>1
    <3>2. CASE decision' = [decision EXCEPT !.reason = "migration"]
      BY <1>1, <3>2 DEF RouteDecision, Reasons
    <3>3. CASE \E t \in TierSet, d \in UNION {Deployments[u] : u \in TierSet}, why \in MovedAs :
                  decision' = [decision EXCEPT !.tier = t, !.model = Facts[d].model,
                                               !.reason = why]
      <4>1. PICK t \in TierSet, d \in UNION {Deployments[u] : u \in TierSet}, why \in MovedAs :
                  decision' = [decision EXCEPT !.tier = t, !.model = Facts[d].model,
                                               !.reason = why]
        BY <3>3
      <4>2. d \in DOMAIN Facts
        BY ConstantsAssumption
      <4>3. Facts[d].model \in Models
        BY <4>2 DEF Models
      <4>4. QED BY <1>1, <4>1, <4>3 DEF RouteDecision, Reasons, MovedAs
    <3>4. QED BY <1>5, <3>1, <3>2, <3>3 DEF ApplyTaskBinding
  <2>3. QED BY <2>1, <2>2, AdmissionSound
<1>6. QED BY <1>2, <1>3, <1>4, <1>5

\* A call that ends with nothing written.
LEMMA EndSound ==
    ASSUME Sound, phase # "ended", NEW r, End(r),
           budget' \in {"none", "released", "settled", "dropped"},
           budget' = "released" => sends = <<>>,
           binding # None => budget' \in {"settled", "dropped"},
           UNCHANGED <<decision, walk, attempts, record, binding, history>>
    PROVE  Sound'
<1>1. Typed'
  BY DEF Sound, Typed, End, walk, history
<1>2. Reserved'
  BY DEF Sound, Reserved, End, Returned, Early, Walking, Answered
<1>3. SessionBound' <=> SessionBound
  BY SameDecision
<1>4. StartsClean' /\ LeaseFits' /\ Listed' /\ LastSucceeds' /\ WrittenLast'
  BY <1>3 DEF Sound, End, StartsClean, LeaseFits, Listed, LastSucceeds, WrittenLast,
              walk, history, Early, Walking, Answered
<1>5. SpendIsKept' /\ RecordTellsServed'
  BY DEF Sound, SpendIsKept, RecordTellsServed, WrittenLast, walk, history
<1>6. QED BY <1>1, <1>2, <1>4, <1>5 DEF Sound

\* A call that is refused, aborted or abandoned ends with what it holds dropped.
LEMMA AbortSound ==
    ASSUME Sound,
           \/ \E api \in Apis, stream \in BOOLEAN : EnterRefused(api, stream)
           \/ RefuseQuota \/ Abort \/ AnswerBreaks \/ ServedFails \/ Disconnect
    PROVE  Sound'
<1>1. /\ Typed /\ Reserved /\ StartsClean /\ WrittenLast /\ RecordTellsServed
  BY DEF Sound
<1>2. CASE RefuseQuota
  <2>1. phase # "ended" /\ End("error") /\ budget' = "released" /\ sends = <<>> /\ binding = None
    BY <1>1, <1>2 DEF RefuseQuota, StartsClean, WrittenLast, Early
  <2>2. UNCHANGED <<decision, walk, attempts, record, binding, history>>
    BY <1>2 DEF RefuseQuota
  <2>3. QED BY <2>1, <2>2, EndSound
<1>3. ASSUME NEW r, EndDropping(r), phase # "ended",
             UNCHANGED <<decision, walk, attempts, record, binding, history>>
      PROVE  Sound'
  <2>1. /\ budget' \in {"none", "settled", "dropped"}
        /\ binding # None => budget' \in {"settled", "dropped"}
    BY <1>1, <1>3 DEF EndDropping, Dropped, Reserved, RecordTellsServed, Typed, Early, Walking,
                      Answered
  <2>2. End(r)
    BY <1>3 DEF EndDropping
  <2>3. QED BY <1>3, <2>1, <2>2, EndSound
<1>4. CASE \E api \in Apis, stream \in BOOLEAN : EnterRefused(api, stream)
  <2>1. /\ EndDropping("error") /\ phase # "ended"
        /\ UNCHANGED <<decision, walk, attempts, record, binding, history>>
    BY <1>4 DEF EnterRefused
  <2>2. QED BY <1>3, <2>1
<1>5. CASE Abort \/ AnswerBreaks \/ ServedFails
  <2>1. /\ EndDropping("error") /\ phase # "ended"
        /\ UNCHANGED <<decision, walk, attempts, record, binding, history>>
    BY <1>5 DEF Abort, AnswerBreaks, ServedFails
  <2>2. QED BY <1>3, <2>1
<1>6. CASE Disconnect
  <2>1. /\ EndDropping("none") /\ phase # "ended"
        /\ UNCHANGED <<decision, walk, attempts, record, binding, history>>
    BY <1>6 DEF Disconnect
  <2>2. QED BY <1>3, <2>1
<1>7. QED BY <1>2, <1>4, <1>5, <1>6

\* A step of the walk that sends nothing.
LEMMA WalkSound ==
    ASSUME Sound, phase \in {"routing", "tier", "leased"},
           phase' \in {"routing", "tier", "leased", "failed"},
           UNCHANGED <<admission, outcome>>, Typed', LeaseFits'
    PROVE  Sound'
<1>1. SessionBound' <=> SessionBound
  BY SameDecision DEF admission
<1>2. Reserved' /\ StartsClean' /\ Listed' /\ LastSucceeds' /\ WrittenLast'
  BY <1>1 DEF Sound, Reserved, StartsClean, Listed, LastSucceeds, WrittenLast, Typed,
              admission, outcome, history, Early, Walking, Answered
<1>3. SpendIsKept' /\ RecordTellsServed'
  BY <1>1 DEF Sound, SpendIsKept, RecordTellsServed, Listed, WrittenLast, admission, outcome,
              history
<1>4. QED BY <1>2, <1>3 DEF Sound

\* The binding may move the call, and the walk begins with an empty list.
LEMMA PrepareSound ==
    ASSUME Sound, Prepare
    PROVE  Sound'
<1>1. /\ Typed /\ Reserved /\ StartsClean /\ LeaseFits /\ Listed /\ WrittenLast
      /\ SpendIsKept /\ RecordTellsServed
  BY DEF Sound
<1>2. Typed'
  BY <1>1 DEF Prepare, Typed, RouteDecision, admission, outcome, history, Walking
<1>3. /\ Reserved' /\ StartsClean' /\ LeaseFits' /\ Listed' /\ LastSucceeds' /\ WrittenLast'
      /\ SpendIsKept' /\ RecordTellsServed'
  BY <1>1 DEF Prepare, Reserved, StartsClean, LeaseFits, Listed, LastSucceeds, WrittenLast,
              SpendIsKept, RecordTellsServed, admission, outcome, history, Early, Walking, Answered
<1>4. QED BY <1>2, <1>3 DEF Sound

\* A step between tiers neither sends nor lists anything.
LEMMA RoutesSound ==
    ASSUME Sound, StartTier \/ SkipTier \/ Exhausted
    PROVE  Sound'
<1>1. Typed /\ LeaseFits
  BY DEF Sound
<1>2. pending # <<>> => Head(pending) \in TierSet /\ Tail(pending) \in Seq(TierSet)
  BY <1>1 DEF Typed
<1>3. CASE StartTier
  <2>1. /\ phase = "routing" /\ phase' = "tier" /\ UNCHANGED <<admission, lease, scoped, outcome>>
        /\ pending # <<>> /\ pending' = Tail(pending) /\ tier' = Head(pending)
        /\ visited' = visited \cup {Head(pending)} /\ retries' = 0
    BY <1>3 DEF StartTier
  <2>2. Typed'
    BY <1>1, <1>2, <2>1, ConstantsAssumption DEF Typed, admission, outcome, history, Walking
  <2>3. LeaseFits'
    BY <1>1, <2>1 DEF LeaseFits, Answered
  <2>4. QED BY <2>1, <2>2, <2>3, WalkSound
<1>4. CASE SkipTier
  <2>1. /\ phase = "routing" /\ phase' = "routing" /\ UNCHANGED <<admission, outcome>>
        /\ Typed' /\ LeaseFits'
    BY <1>1, <1>2, <1>4 DEF SkipTier, Typed, LeaseFits, admission, outcome, history, Answered
  <2>2. QED BY <2>1, WalkSound
<1>5. CASE Exhausted
  <2>1. /\ phase = "routing" /\ phase' = "failed" /\ UNCHANGED <<admission, outcome>>
        /\ Typed' /\ LeaseFits'
    BY <1>1, <1>5 DEF Exhausted, Typed, LeaseFits, admission, walk, outcome, history, Answered
  <2>2. QED BY <2>1, WalkSound
<1>6. QED BY <1>3, <1>4, <1>5

\* A tier that cannot be set up ends the walk or goes on to its fallbacks.
LEMMA SetupFailsSound ==
    ASSUME Sound, SetupFails
    PROVE  Sound'
<1>1. /\ Typed /\ Reserved /\ StartsClean /\ LeaseFits /\ Listed /\ LastSucceeds /\ WrittenLast
      /\ SpendIsKept /\ RecordTellsServed
  BY DEF Sound
<1>2. SessionBound /\ (SessionBound' <=> SessionBound)
  <2>1. Head(pending) \in TierSet /\ DeploymentsOf(Head(pending)) = {}
    BY <1>1 DEF SetupFails, Typed
  <2>2. decision' = decision
    BY DEF SetupFails, admission
  <2>3. QED BY <2>1, <2>2, DeploymentsAre, SameDecision
<1>3. Typed'
  BY <1>1 DEF SetupFails, Typed, RouteDecision, admission, outcome, history
<1>4. Listed'
  BY <1>1, <1>2 DEF SetupFails, Listed, Reserved, Walking, admission
<1>5. /\ Reserved' /\ StartsClean' /\ LeaseFits' /\ LastSucceeds' /\ WrittenLast'
      /\ SpendIsKept' /\ RecordTellsServed'
  BY <1>1, <1>2 DEF SetupFails, Reserved, StartsClean, LeaseFits, LastSucceeds, Listed,
        WrittenLast, SpendIsKept, RecordTellsServed, admission, Early, Walking, Answered
<1>6. QED BY <1>3, <1>4, <1>5 DEF Sound

\* A step within a tier that sends nothing: a lease is taken, refused or given back.
LEMMA TierSound ==
    ASSUME Sound, \/ \E d \in DOMAIN Facts : Lease(d)
                  \/ NoLease \/ ScopedRefuses \/ PrepareFails
    PROVE  Sound'
<1>1. Typed /\ LeaseFits
  BY DEF Sound
<1>2. decision' = decision => \A t : Candidates(t)' = Candidates(t)
  BY SameDecision
<1>3. CASE \E d \in DOMAIN Facts : Lease(d)
  <2>1. PICK d \in DOMAIN Facts : Lease(d)
    BY <1>3
  <2>2. /\ phase = "tier" /\ phase' = "leased" /\ UNCHANGED <<admission, walk, scoped, outcome>>
        /\ lease' = d /\ d \in Candidates(tier) /\ decision' = decision /\ tier' = tier
    BY <2>1 DEF Lease, admission, walk
  <2>3. Typed'
    BY <1>1, <2>2 DEF Typed, admission, walk, outcome, history, Walking
  <2>4. lease' \in Candidates(tier)'
    BY <1>2, <2>2
  <2>5. LeaseFits'
    BY <1>1, <2>2, <2>4 DEF LeaseFits, walk, Answered
  <2>6. QED BY <2>2, <2>3, <2>5, WalkSound
<1>4. CASE NoLease \/ PrepareFails
  <2>1. /\ phase \in {"tier", "leased"} /\ tier' = tier /\ lease' = None
        /\ UNCHANGED <<admission, visited, tier, excluded, retries, scoped, outcome>>
        /\ \E why, from : LeaveTier(why, from)
    BY <1>1, <1>4 DEF NoLease, PrepareFails, LeaseFits
  <2>2. tier \in TierSet
    BY <1>1, <2>1 DEF Typed, LeaseFits
  <2>3. phase' \in {"routing", "failed"} /\ pending' \in Seq(TierSet)
    BY <1>1, <2>1, <2>2, TierLeft
  <2>4. Typed'
    BY <1>1, <2>1, <2>3 DEF Typed, admission, outcome, history, Walking
  <2>5. LeaseFits'
    BY <1>1, <2>1, <2>3 DEF LeaseFits, Answered
  <2>6. QED BY <2>1, <2>3, <2>4, <2>5, WalkSound
<1>5. CASE ScopedRefuses
  <2>1. /\ phase = "leased" /\ phase' = "tier" /\ UNCHANGED <<admission, outcome>>
        /\ Typed' /\ LeaseFits'
    BY <1>1, <1>5 DEF ScopedRefuses, Typed, LeaseFits, admission, outcome, history, Walking, Answered
  <2>2. QED BY <2>1, WalkSound
<1>6. QED BY <1>3, <1>4, <1>5

\* What is appended to a sequence leaves its members where they are.
LEMMA AppendedTo ==
    ASSUME NEW T, NEW s \in Seq(T), NEW x \in T
    PROVE  /\ Append(s, x) \in Seq(T) /\ Append(s, x) # <<>>
           /\ Len(s) \in Nat /\ Len(Append(s, x)) = Len(s) + 1
           /\ DOMAIN s = 1..Len(s) /\ DOMAIN Append(s, x) = 1..(Len(s) + 1)
           /\ Append(s, x)[Len(s) + 1] = x
           /\ \A i \in 1..Len(s) : Append(s, x)[i] = s[i]
OBVIOUS

\* An attempt is sent under the lease of one of the tier's candidates.
LEMMA SendSound ==
    ASSUME Sound, Send
    PROVE  Sound'
<1>1. /\ Typed /\ Reserved /\ StartsClean /\ LeaseFits /\ Listed /\ LastSucceeds /\ WrittenLast
      /\ SpendIsKept /\ RecordTellsServed
  BY DEF Sound
<1> DEFINE sent == [tier |-> tier, deployment |-> lease, model |-> ModelOf(lease)]
<1>2. /\ phase = "leased" /\ phase' = "sent" /\ scoped' = TRUE
      /\ sends' = Append(sends, sent)
      /\ UNCHANGED <<admission, walk, lease, attempts, record, binding, reply, lost>>
  BY DEF Send
<1>3. sent \in SentRecord
  <2>1. tier \in TierSet /\ lease \in DOMAIN Facts
    BY <1>1, <1>2, DeploymentsAre DEF Typed, LeaseFits
  <2>2. QED BY <1>1, <2>1, ModelIs DEF Typed, SentRecord
<1>4. Typed'
  BY <1>1, <1>2, <1>3 DEF Typed, admission, walk, Walking
<1>5. /\ sends' # <<>> /\ Len(sends') = Len(sends) + 1 /\ sends'[Len(sends')] = sent
      /\ sends \in Seq(SentRecord)
  <2>1. sends \in Seq(SentRecord)
    BY <1>1 DEF Typed
  <2> HIDE DEF sent
  <2>2. QED BY <1>2, <1>3, <2>1, AppendedTo
<1>6. LeaseFits'
  <2>1. /\ \A d : ModelOf(d)' = ModelOf(d)
        /\ \A t : Candidates(t)' = Candidates(t)
    BY <1>2, SameDecision DEF admission
  <2>2. lease' \in Candidates(tier)' /\ sends'[Len(sends')].model = ModelOf(lease)'
    BY <1>1, <1>2, <1>5, <2>1 DEF LeaseFits, walk
  <2>3. QED BY <1>1, <1>2, <1>5, <2>2 DEF LeaseFits, walk, Answered
<1>7. SessionBound' <=> SessionBound
  BY <1>2, SameDecision DEF admission
<1>8. Reserved' /\ StartsClean' /\ Listed' /\ LastSucceeds' /\ WrittenLast'
  BY <1>1, <1>2, <1>5, <1>7 DEF Reserved, StartsClean, Listed, LastSucceeds, WrittenLast,
        Typed, admission, walk, Early, Walking, Answered
<1>9. SpendIsKept' /\ RecordTellsServed'
  BY <1>1, <1>2 DEF SpendIsKept, RecordTellsServed, WrittenLast, Reserved, admission, Walking
<1>10. QED BY <1>4, <1>6, <1>8, <1>9 DEF Sound

\* An attempt is put on the list when its lease is completed.
LEMMA AttemptIs ==
    ASSUME Sound, phase = "sent", NEW ok \in BOOLEAN
    PROVE  /\ Attempt(lease, ok) \in AttemptRecord /\ Attempt(lease, ok).ok = ok
           /\ attempts \in Seq(AttemptRecord) /\ tier \in TierSet /\ lease \in DOMAIN Facts
<1>1. /\ tier \in TierSet /\ lease \in DOMAIN Facts /\ decision \in RouteDecision
      /\ attempts \in Seq(AttemptRecord)
  BY DeploymentsAre DEF Sound, Typed, LeaseFits
<1>2. QED BY <1>1, ModelIs DEF Attempt, AttemptRecord

\* A served attempt is the last that was sent, and the record will name its tier.
LEMMA ServeSound ==
    ASSUME Sound, Serve
    PROVE  Sound'
<1>1. /\ Typed /\ Reserved /\ StartsClean /\ LeaseFits /\ Listed /\ LastSucceeds /\ WrittenLast
      /\ SpendIsKept /\ RecordTellsServed
  BY DEF Sound
<1> DEFINE attempt == Attempt(lease, TRUE)
<1>2. /\ phase = "sent" /\ phase' = "served"
      /\ attempts' = Append(attempts, attempt)
      /\ decision' = IF tier = decision.tier THEN decision
                     ELSE [decision EXCEPT !.tier = tier, !.model = ModelOf(lease),
                                           !.reason = "fallback_degraded"]
      /\ UNCHANGED <<front, budget, quota, estimate, walk, lease, scoped, record, binding, reply,
                     history>>
  BY DEF Serve
<1>3. /\ attempt \in AttemptRecord /\ attempt.ok /\ attempts \in Seq(AttemptRecord)
      /\ tier \in TierSet /\ lease \in DOMAIN Facts
  BY <1>2, AttemptIs
<1> HIDE DEF attempt
<1>4. /\ attempts' \in Seq(AttemptRecord) /\ attempts' # <<>> /\ Len(attempts') = Len(attempts) + 1
      /\ Len(attempts) \in Nat /\ attempts'[Len(attempts')].ok
      /\ \A i \in 1..Len(attempts) : attempts'[i] = attempts[i]
      /\ DOMAIN attempts = 1..Len(attempts)
  BY <1>2, <1>3, AppendedTo
<1>5. decision' \in RouteDecision /\ decision'.tier = tier
  BY <1>1, <1>2, <1>3, ModelIs DEF Typed, RouteDecision, Reasons
<1>6. Typed'
  BY <1>1, <1>2, <1>4, <1>5 DEF Typed, walk, history, Answered
<1>7. LeaseFits'
  BY <1>1, <1>2, <1>3 DEF LeaseFits, walk, history, Answered
<1>8. LastSucceeds'
  BY <1>1, <1>2, <1>4, <1>5 DEF LastSucceeds, Walking, walk, Answered
<1>9. Reserved' /\ StartsClean' /\ Listed' /\ WrittenLast'
  BY <1>1, <1>2, <1>4 DEF Reserved, StartsClean, Listed, WrittenLast, history, Early, Walking,
        Answered
<1>10. SpendIsKept' /\ RecordTellsServed'
  BY <1>1, <1>2 DEF SpendIsKept, RecordTellsServed, WrittenLast, Reserved, Walking
<1>11. QED BY <1>6, <1>7, <1>8, <1>9, <1>10 DEF Sound

\* A failed attempt is listed, and retried or left for a fallback.
LEMMA AttemptFailsSound ==
    ASSUME Sound, NEW f \in Failures, AttemptFails(f)
    PROVE  Sound'
<1>1. /\ Typed /\ Reserved /\ StartsClean /\ LeaseFits /\ Listed /\ LastSucceeds /\ WrittenLast
      /\ SpendIsKept /\ RecordTellsServed
  BY DEF Sound
<1> DEFINE attempt == Attempt(lease, FALSE)
<1>2. /\ phase = "sent" /\ attempts' = Append(attempts, attempt)
      /\ lease' = None /\ scoped' = FALSE
      /\ UNCHANGED <<admission, visited, tier, record, binding, reply, history>>
      /\ \/ LeaveTier(f.cause, "upstream") /\ UNCHANGED <<excluded, retries>>
         \/ /\ retries # MaxRetries /\ retries' = retries + 1
            /\ phase' = "tier" /\ UNCHANGED pending
  BY DEF AttemptFails
<1>3. /\ attempt \in AttemptRecord /\ ~attempt.ok /\ attempts \in Seq(AttemptRecord)
      /\ tier \in TierSet
  BY <1>2, AttemptIs
<1> HIDE DEF attempt
<1>4. /\ attempts' \in Seq(AttemptRecord) /\ Len(attempts') = Len(attempts) + 1
      /\ Len(attempts) \in Nat /\ DOMAIN attempts' = 1..(Len(attempts) + 1)
      /\ attempts'[Len(attempts) + 1] = attempt
      /\ \A i \in 1..Len(attempts) : attempts'[i] = attempts[i]
      /\ DOMAIN attempts = 1..Len(attempts)
  BY <1>2, <1>3, AppendedTo
<1>5. /\ phase' \in {"routing", "failed", "tier"} /\ pending' \in Seq(TierSet)
      /\ retries' \in 0..MaxRetries
  <2>1. CASE LeaveTier(f.cause, "upstream") /\ UNCHANGED <<excluded, retries>>
    <3>1. phase' \in {"routing", "failed"} /\ pending' \in Seq(TierSet)
      BY <1>1, <1>3, <2>1, TierLeft
    <3>2. QED BY <1>1, <2>1, <3>1 DEF Typed
  <2>2. CASE /\ retries # MaxRetries /\ retries' = retries + 1
             /\ phase' = "tier" /\ UNCHANGED pending
    BY <1>1, <2>2, ConstantsAssumption DEF Typed
  <2>3. QED BY <1>2, <2>1, <2>2
<1>6. Typed'
  BY <1>1, <1>2, <1>4, <1>5 DEF Typed, admission, history, Walking
<1>7. LeaseFits'
  BY <1>1, <1>2, <1>5 DEF LeaseFits, history, Answered
<1>8. LastSucceeds'
  <2>1. \A i \in DOMAIN attempts' : ~attempts'[i].ok
    BY <1>1, <1>2, <1>3, <1>4 DEF LastSucceeds, Walking
  <2>2. QED BY <1>5, <2>1 DEF LastSucceeds, Walking, Answered
<1>9. Reserved' /\ StartsClean' /\ Listed' /\ WrittenLast'
  BY <1>1, <1>2, <1>4, <1>5 DEF Reserved, StartsClean, Listed, WrittenLast, admission, history,
        Early, Walking, Answered
<1>10. SpendIsKept' /\ RecordTellsServed'
  BY <1>1, <1>2 DEF SpendIsKept, RecordTellsServed, WrittenLast, Reserved, admission, Walking
<1>11. QED BY <1>6, <1>7, <1>8, <1>9, <1>10 DEF Sound

\* A lease that cannot be completed leaves its attempt out of the list: it is lost.
LEMMA CompletionFailsSound ==
    ASSUME Sound, NEW f \in Failures, CompletionFails(f)
    PROVE  Sound'
<1>1. /\ Typed /\ Reserved /\ StartsClean /\ LeaseFits /\ Listed /\ LastSucceeds /\ WrittenLast
      /\ SpendIsKept /\ RecordTellsServed
  BY DEF Sound
<1>2. /\ phase = "sent" /\ LeaveTier(f.cause, "internal")
      /\ lost' = lost \cup {"completion"} /\ lease' = None /\ scoped' = FALSE
      /\ UNCHANGED <<admission, visited, tier, excluded, retries, attempts, record, binding,
                     reply, sends>>
  BY DEF CompletionFails
<1>3. phase' \in {"routing", "failed"} /\ pending' \in Seq(TierSet)
  BY <1>1, <1>2, TierLeft DEF Typed, LeaseFits
<1>4. Typed'
  BY <1>1, <1>2, <1>3 DEF Typed, admission, Walking
<1>5. LeaseFits' /\ LastSucceeds'
  BY <1>1, <1>2, <1>3 DEF LeaseFits, LastSucceeds, Walking, Answered
<1>6. Reserved' /\ StartsClean' /\ Listed' /\ WrittenLast'
  BY <1>1, <1>2, <1>3 DEF Reserved, StartsClean, Listed, WrittenLast, admission, Early, Walking,
        Answered
<1>7. SpendIsKept' /\ RecordTellsServed'
  BY <1>1, <1>2 DEF SpendIsKept, RecordTellsServed, WrittenLast, Reserved, admission, Walking
<1>8. QED BY <1>4, <1>5, <1>6, <1>7 DEF Sound

\* A call that failed on all its tiers is recorded as failed, and its budget goes as
\* FailureBudget says.
LEMMA RecordFailureSound ==
    ASSUME Sound, RecordFailure
    PROVE  Sound'
<1>1. /\ Typed /\ Reserved /\ StartsClean /\ LeaseFits /\ Listed /\ LastSucceeds /\ WrittenLast
      /\ SpendIsKept /\ RecordTellsServed
  BY DEF Sound
<1>2. /\ phase = "failed" /\ End("error") /\ budget' = FailureBudget
      /\ record' = BuildRecord(tier, Execution(FALSE)) \/ record' = record
      /\ UNCHANGED <<front, decision, estimate, walk, attempts, binding, history>>
  BY DEF RecordFailure
<1>3. record' \in DecisionRecord /\ ~record'.execution.ok
  <2>1. Len(attempts) \in Nat /\ tier \in TierSet \cup {None} /\ record \in DecisionRecord
    BY <1>1 DEF Typed
  <2>2. CASE record' = BuildRecord(tier, Execution(FALSE))
    BY <2>1, <2>2 DEF BuildRecord, Execution, DecisionRecord
  <2>3. CASE record' = record
    BY <1>1, <1>2, <2>1, <2>3 DEF WrittenLast
  <2>4. QED BY <1>2, <2>2, <2>3
<1>4. Typed' /\ Reserved'
  BY <1>1, <1>2, <1>3 DEF Typed, Reserved, End, Returned, FailureBudget, walk, history,
        Early, Walking, Answered
<1>5. SessionBound' <=> SessionBound
  BY <1>2, SameDecision
<1>6. StartsClean' /\ LeaseFits' /\ Listed' /\ LastSucceeds' /\ WrittenLast'
  BY <1>1, <1>2, <1>3, <1>5 DEF StartsClean, LeaseFits, Listed, LastSucceeds, WrittenLast, End,
        walk, history, Early, Walking, Answered
<1>7. SpendIsKept'
  <2>1. CASE attempts = <<>> /\ sends # <<>>
    <3>1. lost # {}
      BY <1>1, <1>2, <2>1 DEF Listed, Typed
    <3>2. "completion" \in lost \/ "setup" \in lost
      BY <1>1, <3>1 DEF Typed
    <3>3. "setup" \in lost => SessionBound
      BY <1>1 DEF Listed
    <3>4. QED BY <1>2, <1>5, <3>2, <3>3 DEF SpendIsKept, history
  <2>2. CASE ~(attempts = <<>> /\ sends # <<>>)
    BY <1>2, <2>2 DEF SpendIsKept, FailureBudget, history
  <2>3. QED BY <2>1, <2>2
<1>8. RecordTellsServed'
  BY <1>1, <1>2, <1>3 DEF RecordTellsServed, WrittenLast
<1>9. QED BY <1>3, <1>4, <1>6, <1>7, <1>8 DEF Sound

\* An answer that is read, breaks off or is committed keeps what was sent.
LEMMA AnsweredSound ==
    ASSUME Sound, (\E usage \in BOOLEAN : Complete(usage)) \/ Commit
    PROVE  Sound'
<1>1. /\ Typed /\ Reserved /\ StartsClean /\ LeaseFits /\ Listed /\ LastSucceeds /\ WrittenLast
      /\ SpendIsKept /\ RecordTellsServed
  BY DEF Sound
<1>2. CASE \E usage \in BOOLEAN : Complete(usage)
  <2>1. /\ phase = "served" /\ phase' = "settled" /\ lease' = None
        /\ budget = "held" /\ budget' \in {"held", "settled"}
        /\ UNCHANGED <<front, decision, quota, estimate, walk, scoped, outcome>>
    BY <1>1, <1>2 DEF Complete, SettledBudget, Reserved
  <2>2. Typed' /\ Reserved'
    BY <1>1, <2>1 DEF Typed, Reserved, walk, outcome, history, Early, Walking, Answered
  <2>3. SessionBound' <=> SessionBound
    BY <2>1, SameDecision
  <2>4. StartsClean' /\ LeaseFits' /\ Listed' /\ LastSucceeds' /\ WrittenLast'
    BY <1>1, <2>1, <2>3 DEF StartsClean, LeaseFits, Listed, LastSucceeds, WrittenLast, walk,
          outcome, history, Early, Walking, Answered
  <2>5. SpendIsKept' /\ RecordTellsServed'
    BY <1>1, <2>1 DEF SpendIsKept, RecordTellsServed, WrittenLast, outcome, history
  <2>6. QED BY <2>2, <2>4, <2>5 DEF Sound
<1>3. CASE Commit
  <2>1. /\ phase = "settled" /\ phase' = "committed"
        /\ binding' = decision.tier \/ binding' = binding
        /\ UNCHANGED <<admission, walk, lease, scoped, attempts, record, reply, history>>
    BY <1>3 DEF Commit
  <2>2. Typed' /\ Reserved'
    BY <1>1, <2>1 DEF Typed, Reserved, admission, walk, history, Early, Walking, Answered
  <2>3. SessionBound' <=> SessionBound
    BY <2>1, SameDecision DEF admission
  <2>4. sends # <<>> /\ sends[Len(sends)].tier = decision.tier
    BY <1>1, <2>1 DEF LeaseFits, LastSucceeds, Answered
  <2>5. StartsClean' /\ LeaseFits' /\ Listed' /\ LastSucceeds' /\ WrittenLast'
    BY <1>1, <2>1, <2>3, <2>4 DEF StartsClean, LeaseFits, Listed, LastSucceeds, WrittenLast,
          admission, walk, history, Early, Walking, Answered
  <2>6. SpendIsKept' /\ RecordTellsServed'
    BY <1>1, <2>1, <2>4 DEF SpendIsKept, RecordTellsServed, WrittenLast, Reserved, admission,
          history
  <2>7. QED BY <2>2, <2>5, <2>6 DEF Sound
<1>4. QED BY <1>2, <1>3

\* An answered call is recorded with the tier that served it, and drops what it holds.
LEMMA ReplySound ==
    ASSUME Sound, Reply
    PROVE  Sound'
<1>1. /\ Typed /\ Reserved /\ StartsClean /\ LeaseFits /\ Listed /\ LastSucceeds /\ WrittenLast
      /\ SpendIsKept /\ RecordTellsServed
  BY DEF Sound
<1>2. PICK r : /\ phase = "committed" /\ EndDropping(r)
               /\ record' = BuildRecord(decision.tier, Execution(TRUE))
               /\ UNCHANGED <<front, decision, estimate, walk, attempts, binding, history>>
  BY DEF Reply
<1>3. /\ budget \in {"held", "settled"} /\ budget' \in {"settled", "dropped"} /\ End(r)
  BY <1>1, <1>2 DEF EndDropping, Dropped, Reserved
<1>4. /\ record' \in DecisionRecord /\ record'.tier = decision.tier
      /\ record'.execution.attempts = Len(attempts)
  BY <1>1, <1>2 DEF Typed, BuildRecord, Execution, DecisionRecord, RouteDecision
<1>5. Typed' /\ Reserved'
  BY <1>1, <1>2, <1>3, <1>4 DEF Typed, Reserved, End, Returned, walk, history, Early, Walking,
        Answered
<1>6. SessionBound' <=> SessionBound
  BY <1>2, SameDecision
<1>7. StartsClean' /\ LeaseFits' /\ Listed' /\ LastSucceeds' /\ WrittenLast'
  BY <1>1, <1>2, <1>3, <1>6 DEF StartsClean, LeaseFits, Listed, LastSucceeds, WrittenLast, End,
        walk, history, Early, Walking, Answered
<1>8. SpendIsKept'
  BY <1>3 DEF SpendIsKept
<1>9. RecordTellsServed'
  <2>1. /\ sends # <<>> /\ sends[Len(sends)].tier = decision.tier
        /\ attempts[Len(attempts)].ok
        /\ lost = {} => Len(attempts) = Len(sends)
        /\ \A i \in 1..(Len(attempts) - 1) : ~attempts[i].ok
    BY <1>1, <1>2 DEF LeaseFits, LastSucceeds, Listed, Answered
  <2>2. attempts' = attempts /\ sends' = sends /\ lost' = lost /\ binding' = binding
    BY <1>2 DEF history
  <2>3. binding # None => binding = sends[Len(sends)].tier
    BY <1>1 DEF RecordTellsServed
  <2>4. record'.tier = sends'[Len(sends')].tier
    BY <1>4, <2>1, <2>2
  <2>5. binding' # None => binding' = sends'[Len(sends')].tier /\ budget' \in {"settled", "dropped"}
    BY <1>3, <2>2, <2>3
  <2>6. /\ sends' # <<>> /\ record'.execution.attempts = Len(attempts')
        /\ attempts'[Len(attempts')].ok
        /\ lost' = {} => Len(attempts') = Len(sends')
        /\ \A i \in 1..(Len(attempts') - 1) : ~attempts'[i].ok
    BY <1>4, <2>1, <2>2
  <2>7. QED BY <2>4, <2>5, <2>6 DEF RecordTellsServed
<1>10. QED BY <1>5, <1>7, <1>8, <1>9 DEF Sound

\* Nobody is answered by another model than he asked for, and the types are as declared.
LEMMA SoundTells ==
    ASSUME Sound
    PROVE  TypeOK /\ NoSubstitution
<1>1. Typed /\ Reserved /\ LeaseFits
  BY DEF Sound
<1>2. phase \in {"leased", "sent"} => lease \in DeploymentsOf(tier) /\ lease \in DOMAIN Facts
  <2>1. phase \in {"leased", "sent"} => tier \in TierSet
    BY <1>1 DEF LeaseFits, Typed
  <2>2. QED BY <1>1, <2>1, DeploymentsAre DEF LeaseFits
<1>3. TypeOK
  <2>1. budget \in {"none", "held", "released", "settled", "dropped"}
    BY <1>1 DEF Typed, Reserved, Early, Walking, Answered
  <2>2. ToSet(pending) \subseteq TierSet
    BY <1>1, MembersOf DEF Typed
  <2>3. lease \in DOMAIN Facts \cup {None}
    BY <1>1, <1>2 DEF LeaseFits
  <2>4. scoped => lease # None \/ phase \in {"settled", "committed"}
    BY <1>1, <1>2, ConstantsAssumption DEF LeaseFits, Answered
  <2>5. phase = "ended" => lease = None /\ ~scoped /\ quota # "held" /\ budget # "held"
    BY <1>1 DEF LeaseFits, Reserved, Answered
  <2>6. QED BY <1>1, <2>1, <2>2, <2>3, <2>4, <2>5 DEF TypeOK, Typed, Reserved
<1>4. NoSubstitution
  <2>1. SUFFICES ASSUME phase = "sent", ExplicitModel \/ SessionBound
                 PROVE  sends[Len(sends)].model = decision.model
    BY DEF NoSubstitution
  <2>2. sends[Len(sends)].model = ModelOf(lease) /\ lease \in DeploymentsOf(tier)
    BY <1>1, <1>2, <2>1 DEF LeaseFits
  <2>3. ModelOf(lease) = decision.model
    BY <2>1, <2>2 DEF ModelOf, DeploymentsOf
  <2>4. QED BY <2>2, <2>3
<1>5. QED BY <1>3, <1>4

\* Every step of a call keeps Sound.
LEMMA NextSound ==
    ASSUME Sound, [Next]_vars
    PROVE  Sound'
<1>1. CASE \/ \E api \in Apis, stream \in BOOLEAN : Enter(api, stream)
           \/ \E d \in Decisions : Decide(d)
           \/ AcquireBudget \/ AcquireQuota \/ ApplyTaskBinding
  BY <1>1, EntersSound
<1>2. CASE \/ \E api \in Apis, stream \in BOOLEAN : EnterRefused(api, stream)
           \/ RefuseQuota \/ Abort \/ AnswerBreaks \/ ServedFails \/ Disconnect
  BY <1>2, AbortSound
<1>3. CASE Prepare \/ StartTier \/ SkipTier \/ Exhausted \/ SetupFails
  BY <1>3, PrepareSound, RoutesSound, SetupFailsSound
<1>4. CASE (\E d \in DOMAIN Facts : Lease(d)) \/ NoLease \/ ScopedRefuses \/ PrepareFails
  BY <1>4, TierSound
<1>5. CASE Send \/ Serve \/ RecordFailure \/ Commit \/ Reply
           \/ (\E usage \in BOOLEAN : Complete(usage))
  BY <1>5, SendSound, ServeSound, RecordFailureSound, AnsweredSound, ReplySound
<1>6. CASE \E f \in Failures : AttemptFails(f) \/ CompletionFails(f)
  BY <1>6, AttemptFailsSound, CompletionFailsSound
<1>7. CASE UNCHANGED vars
  <2>1. SessionBound' <=> SessionBound
    BY <1>7, SameDecision DEF vars, admission
  <2>2. /\ \A d : ModelOf(d)' = ModelOf(d)
        /\ \A t : Candidates(t)' = Candidates(t)
    BY <1>7, SameDecision DEF vars, admission
  <2>3. Typed' /\ Reserved' /\ StartsClean' /\ Listed' /\ LastSucceeds' /\ WrittenLast'
    BY <1>7, <2>1 DEF Sound, Typed, Reserved, StartsClean, Listed, LastSucceeds, WrittenLast,
          vars, admission, walk, outcome, history
  <2>4. LeaseFits'
    BY <1>7, <2>2 DEF Sound, LeaseFits, vars, admission, walk, outcome, history
  <2>5. SpendIsKept' /\ RecordTellsServed'
    BY <1>7, <2>1 DEF Sound, SpendIsKept, RecordTellsServed, vars, admission, outcome, history
  <2>6. QED BY <2>3, <2>4, <2>5 DEF Sound
<1>8. QED BY <1>1, <1>2, <1>3, <1>4, <1>5, <1>6, <1>7 DEF Next

\* What a call holds, sends, lists and records agrees at every step of its handler,
\* whatever fails and whenever its client goes away.
THEOREM SoundAlways == Spec => []Sound
<1>1. Init => Sound
  BY InitSound
<1>2. Sound /\ [Next]_vars => Sound'
  BY NextSound
<1>3. QED BY <1>1, <1>2, PTL DEF Spec

-----------------------------------------------------------------------------
(* What a call sends is within what it was reserved for (Measured).          *)

\* The price of a call depends on its decision and its request alone.
LEMMA SameEstimate ==
    ASSUME decision' = decision
    PROVE  /\ Plan' = Plan
           /\ ExecutionTiers' = ExecutionTiers
           /\ Estimate' = Estimate
<1>1. /\ ExplicitModel' <=> ExplicitModel
      /\ \A d : ModelOf(d)' = ModelOf(d)
      /\ \A t : DeploymentsOf(t)' = DeploymentsOf(t)
      /\ \A d : FilterReasons(d)' = FilterReasons(d)
  BY SameDecision
<1>2. {t \in TierSet : DeploymentsOf(t) # {}}' = {t \in TierSet : DeploymentsOf(t) # {}}
  BY <1>1
<1>3. ExecutionTiers' = ExecutionTiers
  BY <1>1, <1>2 DEF ExecutionTiers
<1>4. Estimate' = Estimate
  BY <1>1, <1>3 DEF Estimate
<1>5. Plan' = Plan
  BY DEF Plan
<1>6. QED BY <1>3, <1>4, <1>5

\* Tiers that were tried, counted.
LEMMA VisitedCounted ==
    ASSUME Typed
    PROVE  /\ IsFiniteSet(visited) /\ Cardinality(visited) \in Nat
           /\ \A t \in visited : Cardinality(visited) >= 1
           /\ Tries \in Nat /\ MaxRetries \in Nat /\ MaxFallbackDepth \in Nat
           /\ Cardinality(visited) * Tries \in Nat
           /\ (Cardinality(visited) + 1) * Tries = Cardinality(visited) * Tries + Tries
           /\ (Cardinality(visited) - 1) * Tries = Cardinality(visited) * Tries - Tries
<1>1. IsFiniteSet(visited) /\ Cardinality(visited) \in Nat
  BY TiersFinite, FS_Subset, FS_CardinalityType DEF Typed
<1>2. \A t \in visited : Cardinality(visited) >= 1
  <2>1. \A t \in visited : Cardinality(visited) # 0
    BY <1>1, FS_EmptySet
  <2>2. QED BY <1>1, <2>1
<1>3. Tries \in Nat /\ MaxRetries \in Nat /\ MaxFallbackDepth \in Nat
  BY ConstantsAssumption DEF Tries
<1>4. \A n, m \in Nat : n * m \in Nat /\ (n + 1) * m = n * m + m /\ (n - 1) * m = n * m - m
  OBVIOUS
<1>5. QED BY <1>1, <1>2, <1>3, <1>4

\* A step that sends nothing and takes up no tier.
LEMMA QuietMeasured ==
    ASSUME Sound, Measured, UNCHANGED <<sends, visited, estimate>>,
           decision' \in RouteDecision, decision' = decision \/ decision'.reason # "rule",
           budget' = "none" <=> budget = "none",
           \/ ToSet(pending') \subseteq ToSet(pending)
           \/ /\ tier \in visited /\ PlanSuffices(MaxFallbackDepth)
              /\ ToSet(pending') \subseteq ToSet(pending) \cup Falls(tier),
           \/ phase' \notin {"tier", "leased", "sent"}
           \/ /\ phase \in {"tier", "leased"} /\ phase' \in {"tier", "leased"}
              /\ tier' = tier /\ retries' = retries
           \/ /\ phase = "sent" /\ phase' = "tier"
              /\ tier' = tier /\ retries' = retries + 1
    PROVE  Measured'
<1>1. Typed /\ Priced /\ Contiguous /\ StaysInPlan /\ Counted
  BY DEF Sound, Measured
<1>2. Priced'
  <2>1. CASE decision' = decision
    <3>1. Estimate' = Estimate
      BY <2>1, SameEstimate
    <3>2. QED BY <1>1, <2>1, <3>1 DEF Priced
  <2>2. CASE decision'.reason # "rule"
    BY <1>1, <2>2 DEF Priced
  <2>3. QED BY <2>1, <2>2
<1>3. Contiguous'
  BY <1>1 DEF Contiguous
<1>4. StaysInPlan'
  <2>1. CASE decision' = decision
    <3>1. Plan' = Plan /\ (SessionBound' <=> SessionBound)
      BY <2>1, SameEstimate, SameDecision
    <3>2. CASE ToSet(pending') \subseteq ToSet(pending)
      BY <1>1, <2>1, <3>1, <3>2 DEF StaysInPlan
    <3>3. CASE /\ tier \in visited /\ PlanSuffices(MaxFallbackDepth)
               /\ ToSet(pending') \subseteq ToSet(pending) \cup Falls(tier)
      <4>1. SUFFICES ASSUME decision.reason = "rule", ~SessionBound,
                            Cardinality(Plan) <= MaxFallbackDepth
                     PROVE  visited \cup ToSet(pending') \subseteq Plan
        BY <2>1, <3>1 DEF StaysInPlan
      <4>2. visited \cup ToSet(pending) \subseteq Plan
        BY <1>1, <4>1 DEF StaysInPlan
      <4>3. Falls(tier) \subseteq Plan
        <5>1. decision.tier \in TierSet
          BY <1>1 DEF Typed, RouteDecision
        <5>2. /\ PlanFallbackTiers(decision.tier, MaxFallbackDepth) \in Seq(TierSet)
              /\ \/ Cardinality(Plan) > MaxFallbackDepth
                 \/ \A u \in Plan : Falls(u) \subseteq Plan
          BY <3>3, <5>1 DEF PlanSuffices, Plan
        <5>3. Cardinality(Plan) \in Nat /\ MaxFallbackDepth \in Nat
          BY <5>2, MembersOf, ConstantsAssumption DEF Plan
        <5>4. QED BY <3>3, <4>1, <4>2, <5>2, <5>3
      <4>4. QED BY <3>3, <4>2, <4>3
    <3>4. QED BY <3>2, <3>3
  <2>2. CASE decision'.reason # "rule"
    BY <2>2 DEF StaysInPlan
  <2>3. QED BY <2>1, <2>2
<1>5. Counted'
  <2>1. /\ Cardinality(visited) * Tries \in Nat /\ Tries \in Nat
        /\ (Cardinality(visited) - 1) * Tries = Cardinality(visited) * Tries - Tries
        /\ MaxRetries \in Nat
    BY <1>1, VisitedCounted
  <2>4. Tries = MaxRetries + 1 /\ retries \in 0..MaxRetries /\ Len(sends) \in Nat
    BY <1>1 DEF Tries, Typed
  <2>2. Len(sends) <= Cardinality(visited) * Tries
    BY <1>1, <2>1, <2>4 DEF Counted
  <2>3. QED BY <1>1, <2>1, <2>2, <2>4 DEF Counted
<1>6. QED BY <1>2, <1>3, <1>4, <1>5 DEF Measured

\* Before the walk nothing is sent.
LEMMA EarlyMeasured ==
    ASSUME sends' = <<>>, visited' = {}, pending' = <<>>, phase' \notin {"tier", "leased", "sent"},
           Priced'
    PROVE  Measured'
<1>1. Contiguous'
  BY DEF Contiguous
<1>2. StaysInPlan'
  BY DEF StaysInPlan, ToSet
<1>3. Counted'
  <2>1. Cardinality(visited') = 0
    BY FS_EmptySet
  <2>2. QED BY <2>1, ConstantsAssumption DEF Counted, Tries
<1>4. QED BY <1>1, <1>2, <1>3 DEF Measured

\* Nothing is estimated or sent before a call enters.
LEMMA InitMeasured == Init => Measured
<1>1. SUFFICES ASSUME Init PROVE Measured
  OBVIOUS
<1>2. Priced /\ Contiguous
  BY <1>1 DEF Init, Priced, Contiguous
<1>3. StaysInPlan
  BY <1>1 DEF Init, StaysInPlan, ToSet
<1>4. Counted
  <2>1. Cardinality(visited) = 0
    BY <1>1, FS_EmptySet DEF Init
  <2>2. QED BY <1>1, <2>1, ConstantsAssumption DEF Init, Counted, Tries
<1>5. QED BY <1>2, <1>3, <1>4 DEF Measured

\* The estimate is made for the tiers that were decided, before anything is sent.
LEMMA EntersMeasured ==
    ASSUME Sound, Measured, Sound',
           \/ \E api \in Apis, stream \in BOOLEAN : Enter(api, stream)
           \/ \E d \in Decisions : Decide(d)
           \/ AcquireBudget \/ AcquireQuota \/ ApplyTaskBinding
    PROVE  Measured'
<1>1. Typed /\ Reserved /\ StartsClean /\ Priced /\ Typed'
  BY DEF Sound, Measured
<1>2. /\ phase \in Early /\ phase' \in Early /\ UNCHANGED <<walk, outcome>>
  BY DEF Enter, Decide, AcquireBudget, AcquireQuota, ApplyTaskBinding, Early
<1>3. /\ sends' = <<>> /\ visited' = {} /\ pending' = <<>>
      /\ phase' \notin {"tier", "leased", "sent"}
  BY <1>1, <1>2 DEF StartsClean, walk, outcome, history, Early
<1>4. Priced'
  <2>1. SUFFICES /\ budget' = "none" => estimate' = NoEstimate
                 /\ budget' # "none" /\ decision'.reason = "rule" => estimate' = Estimate'
    BY <1>3 DEF Priced
  <2>2. CASE \/ \E api \in Apis, stream \in BOOLEAN : Enter(api, stream)
             \/ \E d \in Decisions : Decide(d)
    <3>1. budget = "none" /\ budget' = "none" /\ estimate' = estimate
      BY <1>1, <2>2 DEF Enter, Decide, Reserved
    <3>2. QED BY <1>1, <3>1 DEF Priced
  <2>3. CASE AcquireBudget
    <3>1. estimate' = Estimate /\ decision' = decision /\ budget' = "held"
      BY <2>3 DEF AcquireBudget
    <3>2. QED BY <3>1, SameEstimate
  <2>4. CASE AcquireQuota
    <3>1. estimate' = estimate /\ decision' = decision /\ budget' = budget
      BY <2>4 DEF AcquireQuota
    <3>2. QED BY <1>1, <3>1, SameEstimate DEF Priced
  <2>5. CASE ApplyTaskBinding
    <3>1. estimate' = estimate /\ budget' = budget
      BY <2>5 DEF ApplyTaskBinding
    <3>2. decision' = decision \/ decision'.reason # "rule"
      BY <1>1, <2>5 DEF ApplyTaskBinding, MovedAs, Typed, RouteDecision
    <3>3. QED BY <1>1, <3>1, <3>2, SameEstimate DEF Priced
  <2>6. QED BY <2>2, <2>3, <2>4, <2>5
<1>5. QED BY <1>3, <1>4, EarlyMeasured

\* A step after the walk, or an end at any await, sends nothing more.
LEMMA EndsMeasured ==
    ASSUME Sound, Measured,
           \/ \E api \in Apis, stream \in BOOLEAN : EnterRefused(api, stream)
           \/ RefuseQuota \/ Abort \/ AnswerBreaks \/ ServedFails \/ Disconnect
           \/ RecordFailure \/ Reply \/ Commit \/ (\E usage \in BOOLEAN : Complete(usage))
    PROVE  Measured'
<1>1. /\ UNCHANGED <<decision, estimate, walk, sends>>
      /\ phase' \in {"ended", "settled", "committed"}
  BY DEF EnterRefused, RefuseQuota, Abort, AnswerBreaks, ServedFails, Disconnect, RecordFailure,
         Reply, Commit, Complete, EndDropping, End, admission, outcome, history
<1>2. budget' = "none" <=> budget = "none"
  <2>1. Reserved
    BY DEF Sound
  <2>2. CASE \/ RefuseQuota \/ RecordFailure \/ Commit
             \/ \E usage \in BOOLEAN : Complete(usage)
    BY <2>1, <2>2 DEF RefuseQuota, RecordFailure, Commit, Complete, FailureBudget, SettledBudget,
                      admission, Reserved
  <2>3. CASE \/ \E api \in Apis, stream \in BOOLEAN : EnterRefused(api, stream)
             \/ Abort \/ AnswerBreaks \/ ServedFails \/ Disconnect \/ Reply
    <3>1. budget' = Dropped(budget)
      BY <2>3 DEF EnterRefused, Abort, AnswerBreaks, ServedFails, Disconnect, Reply, EndDropping
    <3>2. QED BY <3>1 DEF Dropped
  <2>4. QED BY <2>2, <2>3
<1>3. decision' \in RouteDecision /\ visited' = visited /\ pending' = pending
  BY <1>1 DEF Sound, Typed, walk
<1>4. QED BY <1>1, <1>2, <1>3, QuietMeasured

\* A served attempt was sent before it is adopted.
LEMMA ServeMeasured ==
    ASSUME Sound, Measured, Serve
    PROVE  Measured'
<1>1. /\ UNCHANGED <<sends, visited, estimate, pending, budget>> /\ phase' = "served"
  BY DEF Serve, walk, history
<1>2. decision' \in RouteDecision
  BY ServeSound DEF Sound, Typed
<1>3. decision' = decision \/ decision'.reason # "rule"
  BY DEF Serve, Sound, Typed, RouteDecision
<1>4. QED BY <1>1, <1>2, <1>3, QuietMeasured

\* A tier is left for fallbacks that the plan has.
LEMMA WalkMeasured ==
    ASSUME Sound, Measured, PlanSuffices(MaxFallbackDepth),
           \/ SkipTier \/ Exhausted \/ SetupFails \/ NoLease \/ ScopedRefuses \/ PrepareFails
           \/ \E d \in DOMAIN Facts : Lease(d)
           \/ \E f \in Failures : AttemptFails(f) \/ CompletionFails(f)
    PROVE  Measured'
<1>1. Typed /\ LeaseFits /\ decision \in RouteDecision
  BY DEF Sound, Typed
<1>2. CASE SkipTier \/ Exhausted \/ SetupFails
  <2>1. /\ UNCHANGED <<decision, sends, visited, estimate, budget>>
        /\ phase' \notin {"tier", "leased", "sent"}
    BY <1>2 DEF SkipTier, Exhausted, SetupFails, admission, walk, outcome, history
  <2>2. ToSet(pending') \subseteq ToSet(pending)
    BY <1>1, <1>2 DEF SkipTier, Exhausted, SetupFails, walk, Typed, ToSet
  <2>3. QED BY <1>1, <2>1, <2>2, QuietMeasured
<1>3. CASE ScopedRefuses \/ \E d \in DOMAIN Facts : Lease(d)
  <2>1. /\ UNCHANGED <<decision, sends, visited, estimate, budget, pending, tier, retries>>
        /\ phase \in {"tier", "leased"} /\ phase' \in {"tier", "leased"}
    BY <1>3 DEF ScopedRefuses, Lease, admission, walk, outcome, history
  <2>2. QED BY <1>1, <2>1, QuietMeasured
<1>4. ASSUME NEW why, NEW from, LeaveTier(why, from), tier \in visited,
             UNCHANGED <<decision, sends, visited, estimate, budget>>
      PROVE  Measured'
  <2>1. tier \in TierSet
    BY <1>1, <1>4 DEF Typed
  <2>2. /\ phase' \in {"routing", "failed"}
        /\ ToSet(pending') \subseteq ToSet(pending) \cup Falls(tier)
    BY <1>1, <1>4, <2>1, TierLeft
  <2>3. QED BY <1>1, <1>4, <2>2, QuietMeasured
<1>5. CASE NoLease \/ PrepareFails \/ \E f \in Failures : CompletionFails(f)
  <2>1. /\ UNCHANGED <<decision, sends, visited, estimate, budget>> /\ tier \in visited
        /\ \E why, from : LeaveTier(why, from)
    BY <1>1, <1>5 DEF NoLease, PrepareFails, CompletionFails, LeaseFits, admission, outcome,
                      history
  <2>2. QED BY <1>4, <2>1
<1>6. CASE \E f \in Failures : AttemptFails(f)
  <2>1. PICK f \in Failures : AttemptFails(f)
    BY <1>6
  <2>2. /\ UNCHANGED <<decision, sends, visited, estimate, budget, tier>> /\ tier \in visited
        /\ phase = "sent"
        /\ \/ LeaveTier(f.cause, "upstream")
           \/ phase' = "tier" /\ retries' = retries + 1 /\ UNCHANGED pending
    BY <1>1, <2>1 DEF AttemptFails, LeaseFits, admission, history
  <2>3. CASE LeaveTier(f.cause, "upstream")
    BY <1>4, <2>2, <2>3
  <2>4. CASE phase' = "tier" /\ retries' = retries + 1 /\ UNCHANGED pending
    BY <1>1, <2>2, <2>4, QuietMeasured
  <2>5. QED BY <2>2, <2>3, <2>4
<1>7. QED BY <1>2, <1>3, <1>5, <1>6

\* A call that the rule placed starts on the tier it was estimated from.
LEMMA PrepareMeasured ==
    ASSUME Sound, Measured, PlanSuffices(MaxFallbackDepth), Prepare
    PROVE  Measured'
<1>1. Typed /\ StartsClean /\ Priced
  BY DEF Sound, Measured
<1>2. /\ UNCHANGED <<decision, budget, estimate>> /\ phase' = "routing"
      /\ sends' = <<>> /\ visited' = {} /\ pending' = <<decision.tier>>
  BY <1>1 DEF Prepare, StartsClean, Early, admission, outcome, history
<1>3. Priced' /\ Contiguous'
  BY <1>1, <1>2, SameEstimate DEF Priced, Contiguous
<1>4. StaysInPlan'
  <2>1. Plan' = Plan /\ ToSet(pending') = {decision.tier}
    BY <1>2, SameEstimate DEF ToSet
  <2>2. decision.tier \in Plan
    BY <1>1 DEF Typed, RouteDecision, PlanSuffices, Plan
  <2>3. QED BY <1>2, <2>1, <2>2 DEF StaysInPlan
<1>5. Counted'
  <2>1. Cardinality(visited') = 0
    BY <1>2, FS_EmptySet
  <2>2. QED BY <1>2, <2>1, ConstantsAssumption DEF Counted, Tries
<1>6. QED BY <1>3, <1>4, <1>5 DEF Measured

\* A tier that is started was not started before.
LEMMA StartTierMeasured ==
    ASSUME Sound, Measured, StartTier
    PROVE  Measured'
<1>1. Typed /\ Priced /\ Contiguous /\ StaysInPlan /\ Counted
  BY DEF Sound, Measured
<1> DEFINE t == Head(pending)
<1>2. /\ phase = "routing" /\ pending # <<>> /\ t \notin visited
      /\ Cardinality(visited) <= MaxFallbackDepth
      /\ pending' = Tail(pending) /\ visited' = visited \cup {t} /\ tier' = t
      /\ retries' = 0 /\ phase' = "tier"
      /\ UNCHANGED <<decision, budget, estimate, sends>>
  BY DEF StartTier, admission, outcome, history
<1>3. t \in ToSet(pending) /\ ToSet(Tail(pending)) \subseteq ToSet(pending)
  BY <1>1, <1>2 DEF Typed, ToSet
<1> HIDE DEF t
<1>4. Priced' /\ Contiguous'
  BY <1>1, <1>2, SameEstimate DEF Priced, Contiguous
<1>5. StaysInPlan'
  <2>1. Plan' = Plan /\ (SessionBound' <=> SessionBound)
    BY <1>2, SameEstimate, SameDecision
  <2>2. visited' \cup ToSet(pending') \subseteq visited \cup ToSet(pending)
    BY <1>2, <1>3
  <2>3. QED BY <1>1, <1>2, <2>1, <2>2 DEF StaysInPlan
<1>6. Counted'
  <2>1. /\ IsFiniteSet(visited) /\ Cardinality(visited) \in Nat /\ MaxFallbackDepth \in Nat
    BY <1>1, VisitedCounted
  <2>2. Cardinality(visited') = Cardinality(visited) + 1
    BY <1>2, <2>1, FS_AddElement
  <2>3. Cardinality(visited') - 1 = Cardinality(visited)
    BY <2>1, <2>2
  <2>4. Len(sends) <= Cardinality(visited) * Tries + 0
    BY <1>1, <1>2, VisitedCounted DEF Counted, Typed
  <2>5. QED BY <1>2, <2>1, <2>2, <2>3, <2>4 DEF Counted
<1>7. QED BY <1>4, <1>5, <1>6 DEF Measured

\* An attempt within the retries of its tier and model is within the estimate.
LEMMA SendMeasured ==
    ASSUME Sound, Measured, Send
    PROVE  Measured'
<1>1. Typed /\ Reserved /\ LeaseFits /\ Priced /\ Contiguous /\ StaysInPlan /\ Counted
  BY DEF Sound, Measured
<1> DEFINE sent == [tier |-> tier, deployment |-> lease, model |-> ModelOf(lease)]
<1>2. /\ phase = "leased" /\ phase' = "sent" /\ sends' = Append(sends, sent)
      /\ UNCHANGED <<decision, budget, estimate, pending, visited, tier, retries>>
  BY DEF Send, admission, walk
<1>3. tier \in TierSet /\ lease \in DeploymentsOf(tier) /\ lease \in DOMAIN Facts
  BY <1>1, <1>2, DeploymentsAre DEF Typed, LeaseFits
<1>4. sent \in SentRecord /\ sent.tier = tier /\ sent.model = ModelOf(lease)
  BY <1>1, <1>3, ModelIs DEF Typed, SentRecord
<1>5. /\ sends' \in Seq(SentRecord) /\ Len(sends) \in Nat /\ Len(sends') = Len(sends) + 1
      /\ DOMAIN sends = 1..Len(sends) /\ DOMAIN sends' = 1..(Len(sends) + 1)
      /\ sends'[Len(sends) + 1].tier = tier /\ sends'[Len(sends) + 1].model = ModelOf(lease)
      /\ \A i \in 1..Len(sends) : sends'[i] = sends[i]
  <2>1. sends \in Seq(SentRecord)
    BY <1>1 DEF Typed
  <2> HIDE DEF sent
  <2>2. QED BY <1>2, <1>4, <2>1, AppendedTo
<1> HIDE DEF sent
<1>6. Priced'
  <2>1. Estimate' = Estimate /\ (budget = "held")
    BY <1>1, <1>2, SameEstimate DEF Reserved, Walking
  <2>2. SUFFICES ASSUME decision.reason = "rule", NEW i \in DOMAIN sends',
                        sends'[i].tier \in estimate.tiers
                 PROVE  sends'[i].model \in estimate.models
    BY <1>1, <1>2, <2>1 DEF Priced
  <2>3. CASE i \in 1..Len(sends)
    BY <1>1, <1>5, <2>2, <2>3 DEF Priced
  <2>4. CASE i = Len(sends) + 1
    <3>1. estimate = Estimate
      BY <1>1, <2>1, <2>2 DEF Priced
    <3>2. tier \in ToSet(ExecutionTiers)
      BY <1>5, <2>2, <2>4, <3>1 DEF Estimate
    <3>3. FilterReasons(lease) = {}
      BY <1>1, <1>2 DEF LeaseFits, Candidates
    <3>4. ModelOf(lease) \in Estimate.models
      BY <1>3, <3>2, <3>3 DEF Estimate
    <3>5. QED BY <1>5, <2>4, <3>1, <3>4
  <2>5. QED BY <1>5, <2>3, <2>4
<1>7. Contiguous'
  <2>1. tier \in visited /\ \A i \in 1..Len(sends) : sends[i].tier \in visited
    BY <1>1, <1>2, <1>5 DEF Contiguous, LeaseFits
  <2>2. \A i \in DOMAIN sends' : sends'[i].tier \in visited'
    BY <1>2, <1>5, <2>1
  <2>3. \A i, k \in DOMAIN sends' : sends'[i].tier = tier /\ i < k => sends'[k].tier = tier
    <3>1. \A i, k \in 1..Len(sends) : sends[i].tier = tier /\ i < k => sends[k].tier = tier
      BY <1>1, <1>2, <1>5 DEF Contiguous
    <3>2. QED BY <1>5, <3>1
  <2>4. \A i, j \in DOMAIN sends' : i < j /\ sends'[i].tier = sends'[j].tier =>
            \A k \in i..j : sends'[k].tier = sends'[i].tier
    <3>1. SUFFICES ASSUME NEW i \in DOMAIN sends', NEW j \in DOMAIN sends', i < j,
                          sends'[i].tier = sends'[j].tier, NEW k \in i..j
                   PROVE  sends'[k].tier = sends'[i].tier
      OBVIOUS
    <3>2. CASE j \in 1..Len(sends)
      <4>1. i \in 1..Len(sends) /\ k \in 1..Len(sends)
        BY <1>5, <3>1, <3>2
      <4>2. QED BY <1>1, <1>5, <3>1, <3>2, <4>1 DEF Contiguous
    <3>3. CASE j = Len(sends) + 1
      <4>1. sends'[i].tier = tier /\ k \in DOMAIN sends' /\ (k = i \/ i < k)
        BY <1>5, <3>1, <3>3
      <4>2. QED BY <2>3, <3>1, <4>1
    <3>4. QED BY <1>5, <3>2, <3>3
  <2>5. QED BY <1>2, <2>2, <2>3, <2>4 DEF Contiguous
<1>8. StaysInPlan'
  <2>1. Plan' = Plan /\ (SessionBound' <=> SessionBound)
    BY <1>2, SameEstimate, SameDecision
  <2>2. QED BY <1>1, <1>2, <2>1 DEF StaysInPlan
<1>9. Counted'
  <2>1. (Cardinality(visited) - 1) * Tries \in Int /\ retries \in Nat
    BY <1>1, VisitedCounted, ConstantsAssumption DEF Typed
  <2>2. QED BY <1>1, <1>2, <1>5, <2>1 DEF Counted
<1>10. QED BY <1>6, <1>7, <1>8, <1>9 DEF Measured

\* Every step of a sound call keeps Measured.
LEMMA NextMeasured ==
    ASSUME Sound, Sound', Measured, PlanSuffices(MaxFallbackDepth), [Next]_vars
    PROVE  Measured'
<1>1. CASE \/ \E api \in Apis, stream \in BOOLEAN : Enter(api, stream)
           \/ \E d \in Decisions : Decide(d)
           \/ AcquireBudget \/ AcquireQuota \/ ApplyTaskBinding
  BY <1>1, EntersMeasured
<1>2. CASE \/ \E api \in Apis, stream \in BOOLEAN : EnterRefused(api, stream)
           \/ RefuseQuota \/ Abort \/ AnswerBreaks \/ ServedFails \/ Disconnect
           \/ RecordFailure \/ Reply \/ Commit \/ (\E usage \in BOOLEAN : Complete(usage))
  BY <1>2, EndsMeasured
<1>3. CASE \/ SkipTier \/ Exhausted \/ SetupFails \/ NoLease \/ ScopedRefuses \/ PrepareFails
           \/ \E d \in DOMAIN Facts : Lease(d)
           \/ \E f \in Failures : AttemptFails(f) \/ CompletionFails(f)
  BY <1>3, WalkMeasured
<1>4. CASE Prepare \/ StartTier \/ Send \/ Serve
  BY <1>4, PrepareMeasured, StartTierMeasured, SendMeasured, ServeMeasured
<1>5. CASE UNCHANGED vars
  <2>1. decision' = decision
    BY <1>5 DEF vars, admission
  <2>2. /\ Plan' = Plan /\ Estimate' = Estimate /\ (SessionBound' <=> SessionBound)
    BY <2>1, SameEstimate, SameDecision
  <2>3. QED BY <1>5, <2>1, <2>2 DEF Measured, Priced, Contiguous, StaysInPlan, Counted,
                vars, admission, walk, outcome, history
<1>6. QED BY <1>1, <1>2, <1>3, <1>4, <1>5 DEF Next

\* A walk that stays within the depth or within the plan tries no more tiers than the plan has.
LEMMA VisitedWithinPlan ==
    ASSUME Sound, Measured, PlanSuffices(MaxFallbackDepth), decision.reason = "rule", ~SessionBound
    PROVE  /\ ExecutionTiers = PlanFallbackTiers(decision.tier, MaxFallbackDepth)
           /\ Cardinality(visited) <= Len(ExecutionTiers)
           /\ Len(ExecutionTiers) \in Nat
<1>1. Typed /\ StaysInPlan /\ Counted /\ ~ExplicitModel
  BY DEF Sound, Measured, ExplicitModel
<1> DEFINE plan == PlanFallbackTiers(decision.tier, MaxFallbackDepth)
<1>2. plan \in Seq(TierSet) /\ Plan = ToSet(plan)
  BY <1>1 DEF PlanSuffices, Typed, RouteDecision, Plan
<1> HIDE DEF plan
<1>3. /\ IsFiniteSet(Plan) /\ Plan \subseteq TierSet /\ Cardinality(Plan) \in Nat
      /\ Cardinality(Plan) <= Len(plan) /\ Len(plan) \in Nat
  BY <1>2, MembersOf
<1>4. ExecutionTiers = plan
  <2>1. \A t \in TierSet : DeploymentsOf(t) # {}
    BY DeploymentsAre
  <2>2. Kept(plan, {t \in TierSet : DeploymentsOf(t) # {}}) = plan
    BY <1>2, <1>3, <2>1, KeptOf
  <2>3. QED BY <1>1, <2>2 DEF ExecutionTiers, plan
<1>5. Cardinality(visited) <= Cardinality(Plan)
  <2>1. CASE Cardinality(Plan) <= MaxFallbackDepth
    <3>1. visited \in SUBSET Plan
      BY <1>1, <2>1 DEF StaysInPlan
    <3>2. QED BY <1>3, <3>1, FS_Subset
  <2>2. CASE ~(Cardinality(Plan) <= MaxFallbackDepth)
    <3>1. Cardinality(visited) \in Nat /\ MaxFallbackDepth \in Nat
      BY <1>1, VisitedCounted
    <3>2. QED BY <1>1, <1>3, <2>2, <3>1 DEF Counted
  <2>3. QED BY <2>1, <2>2
<1>6. Cardinality(visited) \in Nat
  BY <1>1, VisitedCounted
<1>7. QED BY <1>3, <1>4, <1>5, <1>6 DEF plan

\* What Measured says makes the sends fit into the estimate.
LEMMA MeasuredTells ==
    ASSUME Sound, Measured, PlanSuffices(MaxFallbackDepth)
    PROVE  WithinEstimate
<1>1. Typed /\ Reserved /\ StartsClean /\ Priced /\ Contiguous /\ Counted
  BY DEF Sound, Measured
<1>2. ASSUME decision.reason = "rule", ~SessionBound
      PROVE  Len(sends) <= estimate.attempts
  <2>1. CASE budget = "none"
    BY <1>1, <2>1 DEF Priced, NoEstimate
  <2>2. CASE budget # "none"
    <3>1. estimate.attempts = Len(ExecutionTiers) * Tries
      BY <1>1, <1>2, <2>2 DEF Priced, Estimate, Tries
    <3>2. Cardinality(visited) <= Len(ExecutionTiers) /\ Len(ExecutionTiers) \in Nat
      BY <1>2, VisitedWithinPlan
    <3>3. /\ Cardinality(visited) \in Nat /\ Tries \in Nat /\ MaxRetries \in Nat
          /\ Cardinality(visited) * Tries \in Nat
          /\ (Cardinality(visited) - 1) * Tries = Cardinality(visited) * Tries - Tries
      BY <1>1, VisitedCounted
    <3>4. Tries = MaxRetries + 1 /\ retries \in 0..MaxRetries /\ Len(sends) \in Nat
      BY <1>1 DEF Tries, Typed
    <3>5. Len(sends) <= Cardinality(visited) * Tries
      BY <1>1, <3>3, <3>4 DEF Counted
    <3>6. \A a, b, m \in Nat : a <= b => a * m <= b * m /\ b * m \in Nat
      OBVIOUS
    <3>7. /\ Cardinality(visited) * Tries <= Len(ExecutionTiers) * Tries
          /\ Len(ExecutionTiers) * Tries \in Nat
      BY <3>2, <3>3, <3>6
    <3>8. QED BY <3>1, <3>3, <3>4, <3>5, <3>7
  <2>3. QED BY <2>1, <2>2
<1>3. QED BY <1>1, <1>2 DEF WithinEstimate, Priced, Contiguous, Counted

-----------------------------------------------------------------------------
(* The theorems.                                                             *)

\* TypeOK: budget, quota, queue, retries and leases have their types, and a call that ended
\* holds nothing (End).
THEOREM Typing == Spec => []TypeOK
<1>1. Sound => TypeOK
  BY SoundTells
<1>2. QED BY <1>1, SoundAlways, PTL

\* SpendIsKept: record_routed_failure gives the budget back only to a call that sent nothing,
\* but for attempts that a failed completion or routed_setup_failure left out of the list.
THEOREM SpendKept == Spec => []SpendIsKept
<1>1. Sound => SpendIsKept
  BY DEF Sound
<1>2. QED BY <1>1, SoundAlways, PTL

\* NoSubstitution: what is sent for an explicit model, or in a conversation, is of the
\* decision's model (effective_deployments).
THEOREM NeverSubstituted == Spec => []NoSubstitution
<1>1. Sound => NoSubstitution
  BY SoundTells
<1>2. QED BY <1>1, SoundAlways, PTL

\* RecordTellsServed: the record and the binding of a call that was served name the tier of its
\* last attempt, which alone succeeded (adopt_served_tier, commit_task_binding, store_record).
THEOREM RecordsTell == Spec => []RecordTellsServed
<1>1. Sound => RecordTellsServed
  BY DEF Sound
<1>2. QED BY <1>1, SoundAlways, PTL

\* WithinEstimate: the attempts of a call that is where its rule put it are within those its
\* budget was reserved for (estimate_request_cost), whatever fails, if the plan suffices.
THEOREM SendsWithinEstimate ==
    ASSUME PlanSuffices(MaxFallbackDepth)
    PROVE  Spec => []WithinEstimate
<1>1. Init => Measured
  BY InitMeasured
<1>2. Sound /\ Sound' /\ Measured /\ [Next]_vars => Measured'
  BY NextMeasured
<1>3. Sound /\ Measured => WithinEstimate
  BY MeasuredTells
<1>4. QED BY <1>1, <1>2, <1>3, SoundAlways, PTL DEF Spec
=============================================================================
