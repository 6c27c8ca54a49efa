-------------------------- MODULE TierExecutionProofs --------------------------
(***************************************************************************)
(* What CapacityManager's health says of the leases that are out, and that *)
(* a deployment which is alone in its tiers is never opened, for any        *)
(* requests, deployments, tiers and cooldown policy.                        *)
(***************************************************************************)
EXTENDS TierExecution, FiniteSetTheorems, TLAPS

\* A deployment that a failure may open: it is one of several somewhere.
Openable(d) == \E c \in Candidates : d \in c /\ Cardinality(c) > 1

\* Only such a deployment ever has a cooldown.
OpenedIsOpenable == \A d \in Deployment : health[d].cooldown >= 0 => Openable(d)

\* A lease is on one of the request's candidates, a snapshot is of all of them,
\* and on local circuits only an openable one is anything but closed in it.
Shaped(q) ==
    /\ q.phase \in {"selected", "executing"} => q.deployment \in q.tier
    /\ q.phase = "snapped" =>
           /\ DOMAIN q.snapshot = q.tier
           /\ ~shared_gate => \A d \in q.tier : q.snapshot[d] # "closed" => Openable(d)
    /\ q.phase = "exhausted" /\ q.excluded = {} /\ ~shared_gate =>
           \E d \in q.tier : Openable(d)

\* A request outside the phases that Shaped speaks of.
Quiet(q) == q.phase \notin {"selected", "executing", "snapped", "exhausted"}

IInv ==
    /\ TypeOK
    /\ \A d \in Deployment : IsFiniteSet(LeasesOn(d))
    /\ InFlightExact
    /\ ProbeFlagHasLease
    /\ OpenedIsOpenable
    /\ \A r \in Request : Shaped(request[r])

-----------------------------------------------------------------------------
(* The pieces the actions are made of.                                       *)

\* saturating_sub never saturates where it is applied to a positive count.
LEMMA LessType ==
    ASSUME NEW n \in Nat
    PROVE  Less(n) \in Nat /\ (n > 0 => Less(n) = n - 1)
BY DEF Less

\* The state of a request without a lease (the end of a lease's life).
LEMMA ReleasedType ==
    ASSUME TypeOK, NEW r \in Request, NEW phase \in Phase, NEW excluded \in SUBSET Deployment
    PROVE  /\ Released(r, phase, excluded) \in RequestState
           /\ Released(r, phase, excluded).phase = phase
           /\ Released(r, phase, excluded).tier = request[r].tier
           /\ Released(r, phase, excluded).excluded = excluded
           /\ Released(r, phase, excluded).retries = request[r].retries
<1>1. request[r] \in RequestState
  BY DEF TypeOK
<1>2. EmptySnapshot \in Snapshots
  <2>1. EmptySnapshot \in [{} -> Availability]
    BY DEF EmptySnapshot
  <2>2. [{} -> Availability] \in {[c -> Availability] : c \in Candidates \cup {{}}}
    OBVIOUS
  <2>3. QED BY <2>1, <2>2 DEF Snapshots
<1>3. QED BY <1>1, <1>2 DEF Released, RequestState

\* What abandon leaves of a deployment's health.
LEMMA GivenUpType ==
    ASSUME NEW h \in Health
    PROVE  /\ GivenUp(h) \in Health
           /\ GivenUp(h).in_flight = Less(h.in_flight)
           /\ GivenUp(h).half_open_probe = FALSE
           /\ GivenUp(h).cooldown = h.cooldown
<1>1. Less(h.in_flight) \in Nat
  BY LessType DEF Health
<1>2. QED BY <1>1 DEF GivenUp, Health

\* What finish with Ok leaves of it.
LEMMA SucceededType ==
    ASSUME TypeOK, NEW r \in Request, NEW h \in Health
    PROVE  /\ Succeeded(h, r) \in Health
           /\ Succeeded(h, r).in_flight = Less(h.in_flight)
           /\ Succeeded(h, r).half_open_probe = FALSE
           /\ Succeeded(h, r).cooldown = -1
<1>1. Less(h.in_flight) \in Nat
  BY LessType DEF Health
<1>2. -1 \in -1..Cooldown /\ Window \in 0..Window
  BY ConstantsAssumption
<1>3. Outcome(r, TRUE) \in Event
  BY <1>2 DEF Outcome, Event, TypeOK, RequestState
<1>4. QED BY <1>1, <1>2, <1>3 DEF Succeeded, Health

\* What finish with Err leaves of it: only a tier of several is opened.
LEMMA FailedType ==
    ASSUME TypeOK, NEW r \in Request, NEW h \in Health, NEW kind, NEW tierSize
    PROVE  /\ Failed(h, r, kind, tierSize) \in Health
           /\ Failed(h, r, kind, tierSize).in_flight = Less(h.in_flight)
           /\ Failed(h, r, kind, tierSize).half_open_probe = FALSE
           /\ \/ Failed(h, r, kind, tierSize).cooldown = h.cooldown
              \/ Opens(h, kind, tierSize)
<1>1. Less(h.in_flight) \in Nat
  BY LessType DEF Health
<1>2. Cooldown \in -1..Cooldown /\ Window \in 0..Window
  BY ConstantsAssumption
<1>3. Outcome(r, FALSE) \in Event
  BY <1>2 DEF Outcome, Event, TypeOK, RequestState
<1> DEFINE e == [h EXCEPT !.in_flight = Less(@), !.half_open_probe = FALSE]
<1>4. /\ e \in Health /\ e.in_flight = Less(h.in_flight) /\ e.half_open_probe = FALSE
      /\ e.cooldown = h.cooldown
  BY <1>1 DEF Health
<1>5. CASE kind = "bad_request"
  <2>1. Failed(h, r, kind, tierSize) = e
    BY <1>5 DEF Failed
  <2> HIDE DEF e
  <2>2. QED BY <1>4, <2>1
<1>6. CASE kind # "bad_request"
  <2> DEFINE opens == Opens(h, kind, tierSize)
             cooldown == IF opens THEN Cooldown ELSE e.cooldown
             events == e.events \cup {Outcome(r, FALSE)}
  <2>1. Failed(h, r, kind, tierSize) = [e EXCEPT !.cooldown = cooldown, !.events = events]
    BY <1>6 DEF Failed
  <2>2. cooldown \in -1..Cooldown /\ (cooldown = h.cooldown \/ opens)
    BY <1>2, <1>4 DEF Health
  <2> HIDE DEF e, cooldown
  <2>3. events \in SUBSET Event
    BY <1>3, <1>4 DEF Health
  <2> HIDE DEF events
  <2>4. QED BY <1>4, <2>1, <2>2, <2>3 DEF Health
<1>7. QED BY <1>5, <1>6

-----------------------------------------------------------------------------
(* How the steps of a request change the leases that are out.                *)

\* A step of a request that neither takes nor gives up a lease.
LEMMA NoLeaseMoves ==
    ASSUME IInv, NEW r \in Request, NEW q \in RequestState, Shaped(q),
           \/ ~Holds(r) /\ q.phase \notin {"selected", "executing"}
           \/ /\ Holds(r) /\ q.phase \in {"selected", "executing"}
              /\ q.deployment = request[r].deployment,
           request' = [request EXCEPT ![r] = q], UNCHANGED <<shared_gate, health>>
    PROVE  IInv'
<1>1. request'[r] = q /\ \A s \in Request \ {r} : request'[s] = request[s]
  BY DEF IInv, TypeOK
<1>2. \A d \in Deployment : LeasesOn(d)' = LeasesOn(d)
  BY <1>1 DEF LeasesOn, Holds
<1>3. TypeOK'
  BY DEF IInv, TypeOK
<1>4. \A s \in Request : Shaped(request[s])'
  BY <1>1 DEF IInv, Shaped, Openable
<1>5. OpenedIsOpenable'
  BY DEF IInv, OpenedIsOpenable, Openable
<1>6. InFlightExact' /\ ProbeFlagHasLease'
  BY <1>2 DEF IInv, InFlightExact, ProbeFlagHasLease
<1>7. QED BY <1>2, <1>3, <1>4, <1>5, <1>6 DEF IInv

\* A lease is given up, completed or dropped.
LEMMA LeaseEnds ==
    ASSUME IInv, NEW r \in Request, Holds(r),
           NEW d \in Deployment, d = request[r].deployment,
           NEW h \in Health, h.in_flight = Less(health[d].in_flight),
           h.half_open_probe = FALSE, h.cooldown >= 0 => Openable(d),
           NEW q \in RequestState, Quiet(q),
           health' = [health EXCEPT ![d] = h], request' = [request EXCEPT ![r] = q],
           UNCHANGED shared_gate
    PROVE  IInv'
<1>1. request'[r] = q /\ \A s \in Request \ {r} : request'[s] = request[s]
  BY DEF IInv, TypeOK
<1>2. health'[d] = h /\ \A e \in Deployment \ {d} : health'[e] = health[e]
  BY DEF IInv, TypeOK
<1>3. LeasesOn(d)' = LeasesOn(d) \ {r} /\ r \in LeasesOn(d)
  BY <1>1 DEF LeasesOn, Holds, Quiet
<1>4. \A e \in Deployment \ {d} : LeasesOn(e)' = LeasesOn(e)
  BY <1>1 DEF LeasesOn, Holds, Quiet
<1>5. /\ IsFiniteSet(LeasesOn(d)) /\ health[d].in_flight = Cardinality(LeasesOn(d))
      /\ Cardinality(LeasesOn(d)) \in Nat
  BY FS_CardinalityType DEF IInv, InFlightExact
<1>6. /\ IsFiniteSet(LeasesOn(d) \ {r})
      /\ Cardinality(LeasesOn(d) \ {r}) = Cardinality(LeasesOn(d)) - 1
  BY <1>3, <1>5, FS_RemoveElement
<1>7. Cardinality(LeasesOn(d) \ {r}) \in Nat
  BY <1>6, FS_CardinalityType
<1>8. health'[d].in_flight = Cardinality(LeasesOn(d)')
  BY <1>2, <1>3, <1>5, <1>6, <1>7, LessType
<1>9. TypeOK'
  BY DEF IInv, TypeOK
<1>10. \A e \in Deployment : IsFiniteSet(LeasesOn(e)')
  BY <1>3, <1>4, <1>6 DEF IInv
<1>11. InFlightExact'
  BY <1>2, <1>4, <1>8 DEF IInv, InFlightExact
<1>12. ProbeFlagHasLease'
  BY <1>2, <1>4 DEF IInv, ProbeFlagHasLease
<1>13. OpenedIsOpenable'
  BY <1>2 DEF IInv, OpenedIsOpenable, Openable
<1>14. \A s \in Request : Shaped(request[s])'
  BY <1>1 DEF IInv, Shaped, Quiet, Openable
<1>15. QED BY <1>9, <1>10, <1>11, <1>12, <1>13, <1>14 DEF IInv

\* What a request with a lease has its lease on.
LEMMA LeaseHolder ==
    ASSUME IInv, NEW r \in Request, Holds(r)
    PROVE  /\ request[r] \in RequestState
           /\ request[r].deployment \in request[r].tier
           /\ request[r].tier \in Candidates
           /\ request[r].deployment \in Deployment
           /\ health[request[r].deployment] \in Health
<1>1. request[r] \in RequestState /\ Shaped(request[r])
  BY DEF IInv, TypeOK
<1>2. request[r].deployment \in request[r].tier /\ request[r].tier \in Candidates
  BY <1>1 DEF Holds, Shaped, RequestState
<1>3. request[r].deployment \in Deployment
  BY <1>2, ConstantsAssumption
<1>4. QED BY <1>1, <1>2, <1>3 DEF IInv, TypeOK

-----------------------------------------------------------------------------
(* The actions.                                                              *)

\* A snapshot on local circuits shows only openable deployments as not closed.
LEMMA SnapshotKeeps ==
    ASSUME IInv, NEW r \in Request, Snapshot(r)
    PROVE  IInv'
<1>1. request[r].phase = "start" /\ UNCHANGED <<shared_gate, health>>
  BY DEF Snapshot
<1>2. PICK shared \in [request[r].tier -> SharedStates] :
         request' = [request EXCEPT
             ![r].phase = "snapped",
             ![r].snapshot = [d \in request[r].tier |->
                                 Overlay(CircuitOf(health[d]), shared[d])]]
  BY DEF Snapshot
<1> DEFINE snapshot == [d \in request[r].tier |-> Overlay(CircuitOf(health[d]), shared[d])]
           q == [request[r] EXCEPT !.phase = "snapped", !.snapshot = snapshot]
<1>3. request' = [request EXCEPT ![r] = q]
  BY <1>2
<1>4. /\ request[r] \in RequestState /\ request[r].tier \in Candidates
      /\ request[r].tier \subseteq Deployment
  BY ConstantsAssumption DEF IInv, TypeOK, RequestState
<1>5. \A d \in request[r].tier :
         /\ snapshot[d] \in Availability
         /\ ~shared_gate /\ snapshot[d] # "closed" => Openable(d)
  <2> SUFFICES ASSUME NEW d \in request[r].tier
               PROVE  /\ snapshot[d] \in Availability
                      /\ ~shared_gate /\ snapshot[d] # "closed" => Openable(d)
    OBVIOUS
  <2>1. snapshot[d] = Overlay(CircuitOf(health[d]), shared[d])
    OBVIOUS
  <2>2. shared[d] \in SharedStates
    OBVIOUS
  <2>3. d \in Deployment /\ health[d] \in Health
    BY <1>4 DEF IInv, TypeOK
  <2>4. CircuitOf(health[d]) \in Availability
    BY <2>3 DEF CircuitOf, Availability
  <2>5. CircuitOf(health[d]) # "closed" => Openable(d)
    BY <2>3 DEF CircuitOf, IInv, OpenedIsOpenable, Health
  <2> HIDE DEF snapshot
  <2>6. snapshot[d] \in Availability
    BY <2>1, <2>2, <2>4 DEF Overlay, Availability, SharedStates
  <2>7. ~shared_gate => snapshot[d] = CircuitOf(health[d])
    BY <2>1, <2>2 DEF Overlay, SharedStates
  <2>8. QED BY <2>5, <2>6, <2>7
<1>6. snapshot \in Snapshots /\ DOMAIN snapshot = request[r].tier
  <2>1. snapshot \in [request[r].tier -> Availability]
    BY <1>5
  <2> HIDE DEF snapshot
  <2>2. QED BY <1>4, <2>1 DEF Snapshots
<1> HIDE DEF snapshot
<1>7. /\ q \in RequestState /\ q.phase = "snapped" /\ q.snapshot = snapshot
      /\ q.tier = request[r].tier
  BY <1>4, <1>6 DEF RequestState, Phase
<1> HIDE DEF q
<1>8. Shaped(q)
  BY <1>5, <1>6, <1>7 DEF Shaped
<1>9. ~Holds(r) /\ q.phase \notin {"selected", "executing"}
  BY <1>1, <1>7 DEF Holds
<1>10. QED BY <1>1, <1>3, <1>7, <1>8, <1>9, NoLeaseMoves

\* select_from_snapshot adds one lease, counts it, and may reserve the probe.
LEMMA SelectKeeps ==
    ASSUME IInv, NEW r \in Request, Select(r)
    PROVE  IInv'
<1>1. request[r].phase = "snapped" /\ UNCHANGED shared_gate
  BY DEF Select
<1>2. PICK d \in Available(request[r]) :
         LET probe == request[r].snapshot[d] = "half_open"
         IN  /\ health' = [health EXCEPT ![d].in_flight = @ + 1,
                                         ![d].half_open_probe = @ \/ probe]
             /\ request' = [request EXCEPT ![r].phase = "selected", ![r].deployment = d,
                                           ![r].probe = probe,
                                           ![r].snapshot = EmptySnapshot]
  BY DEF Select
<1> DEFINE probe == request[r].snapshot[d] = "half_open"
           flag == health[d].half_open_probe \/ probe
           h == [health[d] EXCEPT !.in_flight = @ + 1, !.half_open_probe = flag]
           q == [request[r] EXCEPT !.phase = "selected", !.deployment = d,
                                   !.probe = probe, !.snapshot = EmptySnapshot]
<1>3. health' = [health EXCEPT ![d] = h] /\ request' = [request EXCEPT ![r] = q]
  BY <1>2
<1>4. /\ request[r] \in RequestState /\ d \in request[r].tier /\ d \in Deployment
      /\ health[d] \in Health
  BY ConstantsAssumption DEF IInv, TypeOK, RequestState, Available
<1>5. flag \in BOOLEAN /\ probe \in BOOLEAN /\ EmptySnapshot \in Snapshots
  <2>1. EmptySnapshot \in [{} -> Availability]
    BY DEF EmptySnapshot
  <2>2. [{} -> Availability] \in {[c -> Availability] : c \in Candidates \cup {{}}}
    OBVIOUS
  <2>3. QED BY <2>1, <2>2 DEF Snapshots
<1> HIDE DEF flag, probe
<1>6. /\ h \in Health /\ h.in_flight = health[d].in_flight + 1
      /\ h.cooldown = health[d].cooldown
  <2> DEFINE count == health[d].in_flight + 1
  <2>1. h = [health[d] EXCEPT !.in_flight = count, !.half_open_probe = flag]
    OBVIOUS
  <2>2. count \in Nat
    BY <1>4 DEF Health
  <2> HIDE DEF count, h
  <2>3. /\ h \in Health /\ h.in_flight = count /\ h.cooldown = health[d].cooldown
    BY <1>4, <1>5, <2>1, <2>2 DEF Health
  <2>4. QED BY <2>3 DEF count
<1>7. q \in RequestState /\ q.phase = "selected" /\ q.deployment = d /\ q.tier = request[r].tier
  BY <1>4, <1>5 DEF RequestState, Phase
<1> HIDE DEF h, q
<1>8. request'[r] = q /\ \A s \in Request \ {r} : request'[s] = request[s]
  BY <1>3 DEF IInv, TypeOK
<1>9. health'[d] = h /\ \A e \in Deployment \ {d} : health'[e] = health[e]
  BY <1>3, <1>4 DEF IInv, TypeOK
<1>10. LeasesOn(d)' = LeasesOn(d) \cup {r} /\ r \notin LeasesOn(d)
  BY <1>1, <1>7, <1>8 DEF LeasesOn, Holds
<1>11. \A e \in Deployment \ {d} : LeasesOn(e)' = LeasesOn(e)
  BY <1>1, <1>7, <1>8 DEF LeasesOn, Holds
<1>12. /\ IsFiniteSet(LeasesOn(d)')
       /\ health'[d].in_flight = Cardinality(LeasesOn(d)')
  <2>1. IsFiniteSet(LeasesOn(d)) /\ health[d].in_flight = Cardinality(LeasesOn(d))
    BY <1>4 DEF IInv, InFlightExact
  <2>2. /\ IsFiniteSet(LeasesOn(d) \cup {r})
        /\ Cardinality(LeasesOn(d) \cup {r}) = Cardinality(LeasesOn(d)) + 1
    BY <1>10, <2>1, FS_AddElement
  <2>3. QED BY <1>6, <1>9, <1>10, <2>1, <2>2
<1>13. TypeOK'
  BY <1>1, <1>3, <1>4, <1>6, <1>7 DEF IInv, TypeOK
<1>14. (\A e \in Deployment : IsFiniteSet(LeasesOn(e))') /\ InFlightExact' /\ ProbeFlagHasLease'
  BY <1>9, <1>10, <1>11, <1>12 DEF IInv, InFlightExact, ProbeFlagHasLease
<1>15. OpenedIsOpenable'
  BY <1>4, <1>6, <1>9 DEF IInv, OpenedIsOpenable, Openable
<1>16. \A s \in Request : Shaped(request[s])'
  BY <1>1, <1>4, <1>7, <1>8 DEF IInv, Shaped, Openable
<1>17. QED BY <1>13, <1>14, <1>15, <1>16 DEF IInv

\* A request that excluded nothing is exhausted by an openable candidate.
LEMMA ExhaustKeeps ==
    ASSUME IInv, NEW r \in Request, Exhaust(r)
    PROVE  IInv'
<1> DEFINE q == Released(r, "exhausted", request[r].excluded)
<1>1. /\ request[r].phase = "snapped" /\ Available(request[r]) = {}
      /\ request' = [request EXCEPT ![r] = q] /\ UNCHANGED <<shared_gate, health>>
  BY DEF Exhaust
<1>2. /\ request[r] \in RequestState /\ request[r].excluded \in SUBSET Deployment
      /\ request[r].tier \in Candidates /\ Shaped(request[r])
  BY DEF IInv, TypeOK, RequestState
<1>3. /\ q \in RequestState /\ q.phase = "exhausted" /\ q.tier = request[r].tier
      /\ q.excluded = request[r].excluded
  BY <1>2, ReleasedType DEF IInv, Phase
<1> HIDE DEF q
<1>4. ASSUME q.excluded = {}, ~shared_gate
      PROVE  \E d \in q.tier : Openable(d)
  <2>1. request[r].tier # {}
    BY <1>2, ConstantsAssumption
  <2>2. PICK d \in request[r].tier : TRUE
    BY <2>1
  <2>3. request[r].snapshot[d] \notin {"closed", "half_open"}
    BY <1>1, <1>3, <1>4, <2>2 DEF Available
  <2>4. QED BY <1>1, <1>2, <1>3, <1>4, <2>2, <2>3 DEF Shaped
<1>5. Shaped(q)
  BY <1>3, <1>4 DEF Shaped
<1>6. ~Holds(r) /\ q.phase \notin {"selected", "executing"}
  BY <1>1, <1>3 DEF Holds
<1>7. QED BY <1>1, <1>3, <1>5, <1>6, NoLeaseMoves

\* The shared gate's permit leaves the lease where it is.
LEMMA AdmitKeeps ==
    ASSUME IInv, NEW r \in Request, Admit(r)
    PROVE  IInv'
<1> DEFINE q == [request[r] EXCEPT !.phase = "executing"]
<1>1. /\ request[r].phase = "selected" /\ request' = [request EXCEPT ![r] = q]
      /\ UNCHANGED <<shared_gate, health>>
  BY DEF Admit
<1>2. request[r] \in RequestState /\ Shaped(request[r])
  BY DEF IInv, TypeOK
<1>3. /\ q \in RequestState /\ q.phase = "executing" /\ q.tier = request[r].tier
      /\ q.deployment = request[r].deployment
  BY <1>2 DEF RequestState, Phase
<1> HIDE DEF q
<1>4. Shaped(q) /\ Holds(r)
  BY <1>1, <1>2, <1>3 DEF Shaped, Holds
<1>5. QED BY <1>1, <1>3, <1>4, NoLeaseMoves

\* A refusal drops the lease.
LEMMA RefuseKeeps ==
    ASSUME IInv, NEW r \in Request, Refuse(r)
    PROVE  IInv'
<1>1. Holds(r)
  BY DEF Refuse, Holds
<1>2. PICK d \in Deployment : d = request[r].deployment /\ health[d] \in Health
  BY <1>1, LeaseHolder
<1> DEFINE h == GivenUp(health[d])
           q == Released(r, "start", Without(r, d))
<1>3. /\ health' = [health EXCEPT ![d] = h] /\ request' = [request EXCEPT ![r] = q]
      /\ UNCHANGED shared_gate
  BY <1>2 DEF Refuse
<1>4. /\ h \in Health /\ h.in_flight = Less(health[d].in_flight)
      /\ h.half_open_probe = FALSE /\ h.cooldown = health[d].cooldown
  BY <1>2, GivenUpType
<1>5. Without(r, d) \in SUBSET Deployment
  BY <1>1, LeaseHolder DEF Without, RequestState
<1>6. q \in RequestState /\ q.phase = "start"
  BY <1>5, ReleasedType DEF IInv, Phase
<1> HIDE DEF h, q
<1>7. Quiet(q) /\ (h.cooldown >= 0 => Openable(d))
  BY <1>4, <1>6 DEF Quiet, IInv, OpenedIsOpenable
<1>8. QED BY <1>1, <1>2, <1>3, <1>4, <1>6, <1>7, LeaseEnds

\* A lease that is dropped is counted back, and its probe with it.
LEMMA DropKeeps ==
    ASSUME IInv, NEW r \in Request, Drop(r)
    PROVE  IInv'
<1>1. Holds(r)
  BY DEF Drop
<1>2. PICK d \in Deployment : d = request[r].deployment /\ health[d] \in Health
  BY <1>1, LeaseHolder
<1> DEFINE h == GivenUp(health[d])
           q == Released(r, "done", {})
<1>3. /\ health' = [health EXCEPT ![d] = h] /\ request' = [request EXCEPT ![r] = q]
      /\ UNCHANGED shared_gate
  BY <1>2 DEF Drop
<1>4. /\ h \in Health /\ h.in_flight = Less(health[d].in_flight)
      /\ h.half_open_probe = FALSE /\ h.cooldown = health[d].cooldown
  BY <1>2, GivenUpType
<1>5. q \in RequestState /\ q.phase = "done"
  BY ReleasedType DEF IInv, Phase
<1> HIDE DEF h, q
<1>6. Quiet(q) /\ (h.cooldown >= 0 => Openable(d))
  BY <1>4, <1>5 DEF Quiet, IInv, OpenedIsOpenable
<1>7. QED BY <1>1, <1>2, <1>3, <1>4, <1>5, <1>6, LeaseEnds

\* finish with Ok closes the circuit and counts the lease back.
LEMMA SucceedKeeps ==
    ASSUME IInv, NEW r \in Request, Succeed(r)
    PROVE  IInv'
<1>1. Holds(r)
  BY DEF Succeed, Holds
<1>2. PICK d \in Deployment : d = request[r].deployment /\ health[d] \in Health
  BY <1>1, LeaseHolder
<1> DEFINE h == Succeeded(health[d], r)
           q == Released(r, "done", {})
<1>3. /\ health' = [health EXCEPT ![d] = h] /\ request' = [request EXCEPT ![r] = q]
      /\ UNCHANGED shared_gate
  BY <1>2 DEF Succeed
<1>4. /\ h \in Health /\ h.in_flight = Less(health[d].in_flight)
      /\ h.half_open_probe = FALSE /\ h.cooldown = -1
  BY <1>2, SucceededType DEF IInv
<1>5. q \in RequestState /\ q.phase = "done"
  BY ReleasedType DEF IInv, Phase
<1> HIDE DEF h, q
<1>6. Quiet(q) /\ (h.cooldown >= 0 => Openable(d))
  BY <1>4, <1>5 DEF Quiet
<1>7. QED BY <1>1, <1>2, <1>3, <1>4, <1>5, <1>6, LeaseEnds

\* A lease that is completed with a failure, whatever the request does then.
LEMMA FailureKeeps ==
    ASSUME IInv, NEW r \in Request, NEW kind, NEW d \in Deployment,
           Holds(r) /\ d = request[r].deployment,
           NEW tierSize, tierSize = Cardinality(request[r].tier) /\ TRUE,
           NEW q \in RequestState, Quiet(q),
           /\ health' = [health EXCEPT ![d] = Failed(health[d], r, kind, tierSize)]
           /\ request' = [request EXCEPT ![r] = q]
           /\ UNCHANGED shared_gate
    PROVE  IInv'
<1> DEFINE h == Failed(health[d], r, kind, tierSize)
<1>1. health[d] \in Health
  BY DEF IInv, TypeOK
<1>2. /\ h \in Health /\ h.in_flight = Less(health[d].in_flight)
      /\ h.half_open_probe = FALSE
      /\ h.cooldown = health[d].cooldown \/ Opens(health[d], kind, tierSize)
  <2>1. TypeOK
    BY DEF IInv
  <2>2. h \in Health
    BY <1>1, <2>1, FailedType
  <2>3. h.in_flight = Less(health[d].in_flight)
    BY <1>1 DEF Failed, Health
  <2>4. h.half_open_probe = FALSE
    BY <1>1 DEF Failed, Health
  <2>5. h.cooldown = health[d].cooldown \/ Opens(health[d], kind, tierSize)
    BY <1>1, <2>1, FailedType
  <2>6. QED BY <2>2, <2>3, <2>4, <2>5
<1>3. health' = [health EXCEPT ![d] = h]
  OBVIOUS
<1> HIDE DEF h
<1>4. Opens(health[d], kind, tierSize) => Openable(d)
  <2>1. Opens(health[d], kind, tierSize) => Cardinality(request[r].tier) > 1
    BY DEF Opens
  <2>2. d \in request[r].tier /\ request[r].tier \in Candidates
    BY LeaseHolder
  <2>3. QED BY <2>1, <2>2 DEF Openable
<1>5. h.cooldown >= 0 => Openable(d)
  BY <1>2, <1>4 DEF IInv, OpenedIsOpenable
<1>6. QED BY <1>2, <1>3, <1>5, LeaseEnds, ZenonT(60)

\* A body that breaks off completes the lease with a failure.
LEMMA BreakKeeps ==
    ASSUME IInv, NEW r \in Request, NEW kind, Break(r, kind)
    PROVE  IInv'
<1> DEFINE q == Released(r, "done", {})
<1>1. q \in RequestState /\ q.phase = "done"
  BY ReleasedType DEF IInv, Phase
<1>2. Holds(r)
  BY DEF Break, Holds
<1>3. PICK d \in Deployment : d = request[r].deployment
  BY <1>2, LeaseHolder
<1>4. PICK tierSize : tierSize = Cardinality(request[r].tier)
  OBVIOUS
<1>5. /\ request' = [request EXCEPT ![r] = q] /\ UNCHANGED shared_gate
      /\ health' = [health EXCEPT ![d] = Failed(health[d], r, kind, tierSize)]
  BY <1>3, <1>4 DEF Break
<1> HIDE DEF q
<1>6. Quiet(q)
  BY <1>1 DEF Quiet
<1>7. QED BY <1>1, <1>2, <1>3, <1>4, <1>5, <1>6, FailureKeeps

\* A failed attempt does, and the retry directive decides what the request does.
LEMMA FailKeeps ==
    ASSUME IInv, NEW r \in Request, NEW kind, NEW longHint, Fail(r, kind, longHint)
    PROVE  IInv'
<1> DEFINE q == AfterFailure(r, kind, longHint)
<1>1. Holds(r)
  BY DEF Fail, Holds
<1>2. PICK d \in Deployment : d = request[r].deployment
  BY <1>1, LeaseHolder
<1>3. PICK tierSize : tierSize = Cardinality(request[r].tier)
  OBVIOUS
<1>4. /\ request' = [request EXCEPT ![r] = q] /\ UNCHANGED shared_gate
      /\ health' = [health EXCEPT ![d] = Failed(health[d], r, kind, tierSize)]
  BY <1>2, <1>3 DEF Fail
<1>5. q \in RequestState /\ q.phase \in {"start", "done"}
  <2> DEFINE lone == Cardinality(request[r].tier) = 1
             excluded == IF lone THEN {} ELSE Without(r, request[r].deployment)
             p == Released(r, "start", excluded)
  <2>1. request[r] \in RequestState /\ request[r].retries \in 0..MaxRetries
    BY DEF IInv, TypeOK, RequestState
  <2>2. excluded \in SUBSET Deployment
    BY <1>1, LeaseHolder DEF Without, RequestState
  <2>3. CASE q = Released(r, "done", {})
    BY <2>3, ReleasedType DEF IInv, Phase
  <2>4. CASE q = [p EXCEPT !.retries = @ + 1] /\ request[r].retries # MaxRetries
    <3>1. p \in RequestState /\ p.phase = "start" /\ p.retries = request[r].retries
      BY <2>2, ReleasedType DEF IInv, Phase
    <3> HIDE DEF p
    <3>2. p.retries + 1 \in 0..MaxRetries
      BY <2>1, <2>4, <3>1, ConstantsAssumption
    <3>3. QED BY <2>4, <3>1, <3>2 DEF RequestState
  <2>5. QED BY <2>3, <2>4 DEF AfterFailure
<1> HIDE DEF q
<1>6. Quiet(q)
  BY <1>5 DEF Quiet
<1>7. QED BY <1>1, <1>2, <1>3, <1>4, <1>5, <1>6, FailureKeeps

\* Time changes neither leases nor flags, and turns no cooldown on.
LEMMA TickKeeps ==
    ASSUME IInv, Tick
    PROVE  IInv'
<1>1. UNCHANGED <<shared_gate, request>>
  BY DEF Tick
<1>2. ASSUME NEW d \in Deployment
      PROVE  /\ health'[d] \in Health
             /\ health'[d].in_flight = health[d].in_flight
             /\ health'[d].half_open_probe = health[d].half_open_probe
             /\ health'[d].cooldown >= 0 => health[d].cooldown >= 0
  <2> DEFINE cooldown == IF health[d].cooldown > 0 THEN health[d].cooldown - 1
                         ELSE health[d].cooldown
             events == {[e EXCEPT !.left = @ - 1] :
                           e \in {f \in health[d].events : f.left > 0}}
  <2>1. health'[d] = [health[d] EXCEPT !.cooldown = cooldown, !.events = events]
    BY DEF Tick
  <2>2. health[d] \in Health
    BY DEF IInv, TypeOK
  <2>3. cooldown \in -1..Cooldown /\ (cooldown >= 0 => health[d].cooldown >= 0)
    BY <2>2, ConstantsAssumption DEF Health
  <2>4. events \in SUBSET Event
    <3> SUFFICES ASSUME NEW e \in health[d].events, e.left > 0
                 PROVE  [e EXCEPT !.left = @ - 1] \in Event
      OBVIOUS
    <3>1. e \in Event
      BY <2>2 DEF Health
    <3>2. e.left - 1 \in 0..Window
      BY <3>1, ConstantsAssumption DEF Event
    <3>3. QED BY <3>1, <3>2 DEF Event
  <2> HIDE DEF cooldown, events
  <2>5. QED BY <2>1, <2>2, <2>3, <2>4 DEF Health
<1>3. TypeOK'
  <2>1. health' = [d \in Deployment |-> health'[d]]
    BY DEF Tick
  <2>2. QED BY <1>1, <1>2, <2>1 DEF IInv, TypeOK
<1>4. \A d \in Deployment : LeasesOn(d)' = LeasesOn(d)
  BY <1>1 DEF LeasesOn, Holds
<1>5. (\A d \in Deployment : IsFiniteSet(LeasesOn(d))') /\ InFlightExact' /\ ProbeFlagHasLease'
  BY <1>2, <1>4 DEF IInv, InFlightExact, ProbeFlagHasLease
<1>6. OpenedIsOpenable' /\ \A r \in Request : Shaped(request[r])'
  BY <1>1, <1>2 DEF IInv, OpenedIsOpenable, Shaped, Openable
<1>7. QED BY <1>3, <1>5, <1>6 DEF IInv

-----------------------------------------------------------------------------
(* The theorems.                                                             *)

\* Nobody holds a lease, and no circuit is open, at the start.
LEMMA Initial == Init => IInv
<1> SUFFICES ASSUME Init PROVE IInv
  OBVIOUS
<1>1. /\ shared_gate \in SharedGates /\ health = [d \in Deployment |-> NewHealth]
      /\ request \in [Request -> [phase : {"start"}, tier : Candidates, excluded : {{}},
                                snapshot : {EmptySnapshot}, deployment : {NoDeployment},
                                probe : {FALSE}, retries : {0}]]
  BY DEF Init
<1>2. EmptySnapshot \in Snapshots
  <2>1. EmptySnapshot \in [{} -> Availability]
    BY DEF EmptySnapshot
  <2>2. [{} -> Availability] \in {[c -> Availability] : c \in Candidates \cup {{}}}
    OBVIOUS
  <2>3. QED BY <2>1, <2>2 DEF Snapshots
<1>3. /\ NewHealth \in Health /\ NewHealth.in_flight = 0 /\ NewHealth.cooldown = -1
      /\ NewHealth.half_open_probe = FALSE
  <2>1. -1 \in -1..Cooldown
    BY ConstantsAssumption
  <2>2. {} \in SUBSET Event /\ FALSE \in BOOLEAN /\ 0 \in Nat
    OBVIOUS
  <2>3. NewHealth \in Health
    BY <2>1 DEF NewHealth, Health
  <2>4. QED BY <2>3 DEF NewHealth
<1>4. ASSUME NEW r \in Request
      PROVE  request[r] \in RequestState /\ request[r].phase = "start"
  <2>1. request[r] \in [phase : {"start"}, tier : Candidates, excluded : {{}},
                       snapshot : {EmptySnapshot}, deployment : {NoDeployment},
                       probe : {FALSE}, retries : {0}]
    BY <1>1
  <2>2. {{}} \subseteq SUBSET Deployment /\ {0} \subseteq 0..MaxRetries
    BY ConstantsAssumption
  <2>3. QED BY <1>2, <2>1, <2>2 DEF RequestState, Phase
<1>5. TypeOK
  <2>1. request = [r \in Request |-> request[r]]
    BY <1>1
  <2>2. QED BY <1>1, <1>3, <1>4, <2>1, ConstantsAssumption DEF TypeOK
<1>6. \A d \in Deployment : LeasesOn(d) = {}
  BY <1>4 DEF LeasesOn, Holds
<1>7. \A d \in Deployment : IsFiniteSet(LeasesOn(d)) /\ Cardinality(LeasesOn(d)) = 0
  BY <1>6, FS_EmptySet
<1>8. InFlightExact /\ ProbeFlagHasLease /\ OpenedIsOpenable
  BY <1>1, <1>3, <1>7 DEF InFlightExact, ProbeFlagHasLease, OpenedIsOpenable
<1>9. \A r \in Request : Shaped(request[r])
  BY <1>4 DEF Shaped
<1>10. QED BY <1>5, <1>7, <1>8, <1>9 DEF IInv

\* Every step keeps the inductive invariant, action by action.
LEMMA Inductive == IInv /\ [Next]_vars => IInv'
<1> SUFFICES ASSUME IInv, [Next]_vars PROVE IInv'
  OBVIOUS
<1>1. CASE \E r \in Request : Snapshot(r)
  BY <1>1, SnapshotKeeps
<1>2. CASE \E r \in Request : Select(r)
  BY <1>2, SelectKeeps
<1>3. CASE \E r \in Request : Exhaust(r)
  BY <1>3, ExhaustKeeps
<1>4. CASE \E r \in Request : Admit(r)
  BY <1>4, AdmitKeeps
<1>5. CASE \E r \in Request : Refuse(r)
  BY <1>5, RefuseKeeps
<1>6. CASE \E r \in Request : Succeed(r)
  BY <1>6, SucceedKeeps
<1>7. CASE \E r \in Request : Drop(r)
  BY <1>7, DropKeeps
<1>8. CASE \E r \in Request, kind \in Kind, longHint \in BOOLEAN : Fail(r, kind, longHint)
  BY <1>8, FailKeeps
<1>9. CASE \E r \in Request, kind \in {"transport", "server_error"} : Break(r, kind)
  BY <1>9, BreakKeeps
<1>10. CASE Tick
  BY <1>10, TickKeeps
<1>11. CASE UNCHANGED vars
  BY <1>11 DEF vars, IInv, TypeOK, LeasesOn, Holds, InFlightExact, ProbeFlagHasLease,
              OpenedIsOpenable, Openable, Shaped
<1>12. QED BY <1>1, <1>2, <1>3, <1>4, <1>5, <1>6, <1>7, <1>8, <1>9, <1>10, <1>11 DEF Next

\* The inductive invariant: what health says of the leases, which deployments can
\* have been opened, and what a request's snapshot can show of them.
THEOREM Invariance == Spec => []IInv
BY Initial, Inductive, PTL DEF Spec

\* Every reachable state is well typed; retries stay within RetryPolicy.max_retries
\* and no count wraps (execute_tier in main.rs, CapacityManager in capacity.rs).
THEOREM TypeCorrect == Spec => []TypeOK
<1>1. IInv => TypeOK
  BY DEF IInv
<1>2. QED BY Invariance, <1>1, PTL

\* in_flight is exactly the number of leases out on the deployment
\* (select_from_snapshot, finish, abandon and drop in capacity.rs).
THEOREM InFlight == Spec => []InFlightExact
<1>1. IInv => InFlightExact
  BY DEF IInv
<1>2. QED BY Invariance, <1>1, PTL

\* A deployment is "probe in flight" only while a lease is out on it
\* (half_open_probe in capacity.rs).
THEOREM ProbeHeld == Spec => []ProbeFlagHasLease
<1>1. IInv => ProbeFlagHasLease
  BY DEF IInv
<1>2. QED BY Invariance, <1>1, PTL

\* A deployment that is the only candidate wherever it is one is never opened, and
\* its requests are not exhausted for it (cooldown_directive's tier_size).
THEOREM LoneRoutable == Spec => []LoneDeploymentStaysRoutable
<1>1. IInv => LoneDeploymentStaysRoutable
  <2> SUFFICES ASSUME IInv, NEW r \in Request, request[r].phase = "exhausted",
                      request[r].excluded = {}, ~shared_gate
               PROVE  \E c \in Candidates : c \cap request[r].tier # {} /\ Cardinality(c) > 1
    BY DEF LoneDeploymentStaysRoutable
  <2>1. PICK d \in request[r].tier : Openable(d)
    BY DEF IInv, Shaped
  <2>2. QED BY <2>1 DEF Openable
<1>2. QED BY Invariance, <1>1, PTL
=============================================================================
