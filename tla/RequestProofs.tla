------------------------------ MODULE RequestProofs -------------------------
(***************************************************************************)
(* What is proved of one request on its way through the gateway, of the     *)
(* scopes a deletion fences it off from, and of the record it leaves:       *)
(*   RequestPath   its decision, what its provider is sent and its caller   *)
(*                 gets back, as a whole and as a stream;                   *)
(*   ScopeFence    what deletions leave behind, for any requests, tasks,    *)
(*                 sessions, handlers and identities, on either backend;    *)
(*   RecordStore   what becomes of a record, in memory and in its files.    *)
(***************************************************************************)
EXTENDS RequestPath, ScopeFence, RecordStore, FiniteSetTheorems, SequenceTheorems, TLAPS

-----------------------------------------------------------------------------
(* What a selection keeps of a sequence, and the least and the greatest of  *)
(* finitely many numbers.                                                   *)
\* The places picked from a sequence are some of its places.
LEMMA PickedFinite ==
    ASSUME NEW T, NEW s \in Seq(T), NEW S
    PROVE  /\ IsFiniteSet(Picked(s, S))
           /\ Picked(s, S) \subseteq 1 .. Len(s)
           /\ Cardinality(Picked(s, S)) \in Nat
           /\ Cardinality(Picked(s, S)) <= Len(s)
<1>1. Picked(s, S) \subseteq 1 .. Len(s)
  BY DEF Picked
<1>2. IsFiniteSet(1 .. Len(s)) /\ Cardinality(1 .. Len(s)) = Len(s)
  BY FS_Interval, Len(s) \in Nat
<1> QED
  BY <1>1, <1>2, FS_Subset, FS_CardinalityType

\* Of two numbers the larger has the higher place.
LEMMA PlaceGrows ==
    ASSUME NEW P, P \subseteq Int, IsFiniteSet(P), NEW i \in P, NEW j \in P, i < j
    PROVE  PlaceOf(P, i) < PlaceOf(P, j)
<1> DEFINE Before(k) == {h \in P : h <= k}
<1>1. IsFiniteSet(Before(j)) /\ Before(i) \subseteq Before(j) /\ Before(i) # Before(j)
  <2>1. Before(j) \subseteq P
    OBVIOUS
  <2>2. Before(i) \subseteq Before(j)
    <3> SUFFICES ASSUME NEW h \in P, h <= i PROVE h <= j
      OBVIOUS
    <3>1. h \in Int /\ i \in Int /\ j \in Int
      OBVIOUS
    <3> QED
      BY <3>1
  <2>3. j \in Before(j) /\ j \notin Before(i)
    OBVIOUS
  <2> QED
    BY <2>1, <2>2, <2>3, FS_Subset
<1>2. /\ Cardinality(Before(i)) \in Nat /\ Cardinality(Before(j)) \in Nat
      /\ Cardinality(Before(i)) < Cardinality(Before(j))
  BY <1>1, FS_Subset, FS_CardinalityType
<1> QED
  BY <1>2 DEF PlaceOf

\* Places run from 1 to the count of the numbers,
LEMMA PlaceBound ==
    ASSUME NEW P, P \subseteq Int, IsFiniteSet(P), NEW i \in P
    PROVE  PlaceOf(P, i) \in 1 .. Cardinality(P)
<1> DEFINE before == {h \in P : h <= i}
<1>1. before \subseteq P /\ i \in before
  OBVIOUS
<1>2. /\ IsFiniteSet(before) /\ Cardinality(before) <= Cardinality(P)
  BY <1>1, FS_Subset
<1>3. Cardinality(before) \in Nat /\ Cardinality(P) \in Nat /\ Cardinality(before) # 0
  BY <1>1, <1>2, FS_CardinalityType, FS_EmptySet
<1> QED
  BY <1>2, <1>3 DEF PlaceOf

\* are taken once,
LEMMA PlacesDiffer ==
    ASSUME NEW P, P \subseteq Int, IsFiniteSet(P), NEW i \in P, NEW j \in P,
           PlaceOf(P, i) = PlaceOf(P, j)
    PROVE  i = j
<1>1. /\ PlaceOf(P, i) \in Int /\ i \in Int /\ j \in Int
  <2>1. Cardinality(P) \in Nat /\ PlaceOf(P, i) \in 1 .. Cardinality(P)
    BY PlaceBound, FS_CardinalityType
  <2> QED
    BY <2>1
<1> SUFFICES ASSUME i # j PROVE FALSE
  OBVIOUS
<1>2. CASE i < j
  <2>1. PlaceOf(P, i) < PlaceOf(P, j)
    BY <1>2, PlaceGrows
  <2> QED
    BY <1>1, <2>1
<1>3. CASE j < i
  <2>1. PlaceOf(P, j) < PlaceOf(P, i)
    BY <1>3, PlaceGrows
  <2> QED
    BY <1>1, <2>1
<1> QED
  BY <1>1, <1>2, <1>3

\* and are all taken: otherwise the numbers would go one to one into fewer places.
LEMMA PlacesFilled ==
    ASSUME NEW P, P \subseteq Int, IsFiniteSet(P), NEW k \in 1 .. Cardinality(P)
    PROVE  \E i \in P : PlaceOf(P, i) = k
<1> DEFINE N == Cardinality(P)
           f == [i \in P |-> PlaceOf(P, i)]
           rest == (1 .. N) \ {k}
<1>1. N \in Nat
  BY FS_CardinalityType
<1> SUFFICES ASSUME \A i \in P : PlaceOf(P, i) # k PROVE FALSE
  OBVIOUS
<1>2. IsFiniteSet(rest) /\ Cardinality(rest) = N - 1
  <2>1. IsFiniteSet(1 .. N) /\ Cardinality(1 .. N) = N
    BY <1>1, FS_Interval
  <2> QED
    BY <2>1, FS_RemoveElement
<1>3. f \in [P -> rest]
  BY PlaceBound
<1>4. f \in Injection(P, rest)
  <2>1. \A i, j \in P : f[i] = f[j] => i = j
    BY PlacesDiffer
  <2> QED
    BY <1>3, <2>1 DEF Injection, IsInjective
<1>5. N <= N - 1
  BY <1>2, <1>4, FS_Injection
<1> QED
  BY <1>1, <1>5

\* So finitely many numbers have a least and a greatest, at the first and last place.
LEMMA LeastAndGreatest ==
    ASSUME NEW P, P \subseteq Int, IsFiniteSet(P), P # {}
    PROVE  /\ \E i \in P : \A j \in P : i <= j
           /\ \E i \in P : \A j \in P : j <= i
<1>1. Cardinality(P) \in Nat /\ Cardinality(P) # 0
  BY FS_CardinalityType, FS_EmptySet
<1> DEFINE N == Cardinality(P)
<1>0. 1 \in 1 .. N /\ N \in 1 .. N
  BY <1>1
<1>2. PICK i \in P : PlaceOf(P, i) = 1
  BY <1>0, PlacesFilled
<1>3. PICK k \in P : PlaceOf(P, k) = N
  BY <1>0, PlacesFilled
<1>4. \A j \in P : j \in Int /\ PlaceOf(P, j) \in 1 .. N
  BY PlaceBound
<1>5. ASSUME NEW j \in P PROVE i <= j
  <2> SUFFICES ASSUME j < i PROVE FALSE
    BY <1>4
  <2>1. PlaceOf(P, j) < PlaceOf(P, i)
    BY PlaceGrows
  <2> QED
    BY <1>1, <1>2, <1>4, <2>1
<1>6. ASSUME NEW j \in P PROVE j <= k
  <2> SUFFICES ASSUME k < j PROVE FALSE
    BY <1>4
  <2>1. PlaceOf(P, k) < PlaceOf(P, j)
    BY PlaceGrows
  <2> QED
    BY <1>1, <1>3, <1>4, <2>1
<1> QED
  BY <1>5, <1>6

\* What is kept is what is in the set, in no more places than there were.
LEMMA KeptIsPicked ==
    ASSUME NEW T, NEW s \in Seq(T), NEW S
    PROVE  /\ Kept(s, S) \in Seq(T)
           /\ Len(Kept(s, S)) \in Nat /\ Len(Kept(s, S)) <= Len(s)
           /\ \A k \in 1 .. Len(Kept(s, S)) : Kept(s, S)[k] \in S
           /\ \A k \in 1 .. Len(Kept(s, S)) : \E i \in 1 .. Len(s) : Kept(s, S)[k] = s[i]
           /\ \A i \in 1 .. Len(s) : s[i] \in S => \E k \in 1 .. Len(Kept(s, S)) : Kept(s, S)[k] = s[i]
<1> DEFINE C == Picked(s, S)
           N == Cardinality(C)
           at(k) == CHOOSE i \in C : PlaceOf(C, i) = k
<1>1. /\ C \subseteq 1 .. Len(s) /\ C \subseteq Int /\ IsFiniteSet(C)
      /\ N \in Nat /\ N <= Len(s)
  BY PickedFinite
<1>2. \A k \in 1 .. N : at(k) \in C /\ PlaceOf(C, at(k)) = k
  BY <1>1, PlacesFilled
<1>3. Kept(s, S) = [k \in 1 .. N |-> s[at(k)]]
  BY DEF Kept
<1> HIDE DEF at, N
<1>4. \A i \in C : s[i] \in T /\ s[i] \in S
  BY <1>1 DEF Picked
<1>5. Kept(s, S) \in Seq(T) /\ Len(Kept(s, S)) = N
  BY <1>1, <1>2, <1>3, <1>4
<1>6. \A i \in C : PlaceOf(C, i) \in 1 .. N /\ at(PlaceOf(C, i)) = i
  BY <1>1, <1>2, PlaceBound, PlacesDiffer DEF N
<1>7. \A k \in 1 .. Len(Kept(s, S)) : Kept(s, S)[k] \in S
  BY <1>2, <1>3, <1>4, <1>5
<1>8. \A k \in 1 .. Len(Kept(s, S)) : \E i \in 1 .. Len(s) : Kept(s, S)[k] = s[i]
  BY <1>1, <1>2, <1>3, <1>5
<1>9. \A i \in 1 .. Len(s) : s[i] \in S => \E k \in 1 .. Len(Kept(s, S)) : Kept(s, S)[k] = s[i]
  <2> SUFFICES ASSUME NEW i \in 1 .. Len(s), s[i] \in S
               PROVE  \E k \in 1 .. Len(Kept(s, S)) : Kept(s, S)[k] = s[i]
    OBVIOUS
  <2>1. i \in C
    BY DEF Picked
  <2>2. PlaceOf(C, i) \in 1 .. Len(Kept(s, S))
    BY <1>5, <1>6, <2>1
  <2>3. Kept(s, S)[PlaceOf(C, i)] = s[i]
    BY <1>3, <1>6, <2>1
  <2> QED
    BY <2>2, <2>3
<1> QED
  BY <1>1, <1>5, <1>7, <1>8, <1>9

\* A selection depends on what is picked alone,
LEMMA KeptSame ==
    ASSUME NEW T, NEW s \in Seq(T), NEW S, NEW t, NEW R,
           Picked(t, R) = Picked(s, S), \A i \in Picked(s, S) : t[i] = s[i]
    PROVE  Kept(t, R) = Kept(s, S)
<1> DEFINE C == Picked(s, S)
           at(k) == CHOOSE i \in C : PlaceOf(C, i) = k
<1>1. IsFiniteSet(C) /\ C \subseteq Int
  <2>1. IsFiniteSet(C) /\ C \subseteq 1 .. Len(s)
    BY PickedFinite
  <2> QED
    BY <2>1
<1>2. \A k \in 1 .. Cardinality(C) : at(k) \in C
  BY <1>1, PlacesFilled
<1> SUFFICES [k \in 1 .. Cardinality(C) |-> t[at(k)]] = [k \in 1 .. Cardinality(C) |-> s[at(k)]]
  BY DEF Kept
<1> HIDE DEF at, C
<1> QED
  BY <1>2 DEF C

\* and grows by what is picked after all the rest.
LEMMA KeptMore ==
    ASSUME NEW T, NEW s \in Seq(T), NEW S, NEW U, NEW t \in Seq(U), NEW R, NEW d \in 1 .. Len(t),
           Picked(t, R) = Picked(s, S) \cup {d},
           \A i \in Picked(s, S) : i < d /\ t[i] = s[i]
    PROVE  /\ Len(Kept(t, R)) = Len(Kept(s, S)) + 1
           /\ Kept(t, R)[Len(Kept(s, S)) + 1] = t[d]
           /\ \A k \in 1 .. Len(Kept(s, S)) : Kept(t, R)[k] = Kept(s, S)[k]
<1> DEFINE P == Picked(s, S)
           Q == Picked(t, R)
           N == Cardinality(P)
           inP(k) == CHOOSE i \in P : PlaceOf(P, i) = k
           inQ(k) == CHOOSE i \in Q : PlaceOf(Q, i) = k
<1>1. /\ IsFiniteSet(P) /\ P \subseteq Int /\ N \in Nat
      /\ IsFiniteSet(Q) /\ Q \subseteq Int
  <2>1. IsFiniteSet(P) /\ P \subseteq 1 .. Len(s) /\ N \in Nat
    BY PickedFinite
  <2>2. IsFiniteSet(Q) /\ Q \subseteq 1 .. Len(t)
    BY PickedFinite
  <2> QED
    BY <2>1, <2>2
<1>2. d \notin P /\ Cardinality(Q) = N + 1
  <2>1. d \notin P
    BY <1>1
  <2> QED
    BY <1>1, <2>1, FS_AddElement
<1>3. \A i \in P : PlaceOf(Q, i) = PlaceOf(P, i)
  <2> SUFFICES ASSUME NEW i \in P PROVE {j \in Q : j <= i} = {j \in P : j <= i}
    BY DEF PlaceOf
  <2>1. i < d /\ i \in Int /\ d \in Int
    BY <1>1
  <2> QED
    BY <2>1
<1>4. PlaceOf(Q, d) = N + 1
  <2>1. \A j \in Q : j <= d
    BY <1>1
  <2>2. {j \in Q : j <= d} = Q
    BY <2>1
  <2> QED
    BY <1>2, <2>2 DEF PlaceOf
<1>5. \A k \in 1 .. N : inP(k) \in P /\ PlaceOf(P, inP(k)) = k
  BY <1>1, PlacesFilled
<1>6. \A k \in 1 .. N + 1 : inQ(k) \in Q /\ PlaceOf(Q, inQ(k)) = k
  BY <1>1, <1>2, PlacesFilled
<1> HIDE DEF inP, inQ
<1>7. ASSUME NEW k \in 1 .. N PROVE inQ(k) = inP(k)
  <2>1. k \in 1 .. N + 1 /\ k # N + 1
    BY <1>1
  <2>2. inQ(k) \in P
    BY <1>4, <1>6, <2>1
  <2>3. PlaceOf(P, inQ(k)) = PlaceOf(P, inP(k))
    BY <1>3, <1>5, <1>6, <2>1, <2>2
  <2> QED
    BY <1>1, <1>5, <2>2, <2>3, PlacesDiffer
<1>8. inQ(N + 1) = d
  <2>1. N + 1 \in 1 .. N + 1 /\ d \in Q
    BY <1>1
  <2>2. PlaceOf(Q, inQ(N + 1)) = PlaceOf(Q, d)
    BY <1>4, <1>6, <2>1
  <2> QED
    BY <1>1, <1>6, <2>1, <2>2, PlacesDiffer
<1>9. Kept(s, S) = [k \in 1 .. N |-> s[inP(k)]] /\ Kept(t, R) = [k \in 1 .. N + 1 |-> t[inQ(k)]]
  BY <1>2 DEF Kept, inP, inQ
<1> HIDE DEF N, P, Q
<1>10. Len(Kept(s, S)) = N /\ Len(Kept(t, R)) = N + 1
  BY <1>1, <1>9
<1>11. \A k \in 1 .. N : t[inQ(k)] = s[inP(k)]
  BY <1>5, <1>7 DEF P
<1>12. \A k \in 1 .. N : k \in 1 .. N + 1
  BY <1>1
<1>13. N + 1 \in 1 .. N + 1
  BY <1>1
<1> QED
  BY <1>8, <1>9, <1>10, <1>11, <1>12, <1>13

\* Where nothing is picked nothing is kept, and where one is, that one.
LEMMA KeptFew ==
    ASSUME NEW T, NEW s \in Seq(T), NEW S
    PROVE  /\ Picked(s, S) = {} => Kept(s, S) = <<>>
           /\ \A d \in 1 .. Len(s) : Picked(s, S) = {d} => Kept(s, S) = <<s[d]>>
<1>1. ASSUME Picked(s, S) = {} PROVE Kept(s, S) = <<>>
  BY <1>1, FS_EmptySet DEF Kept
<1>2. ASSUME NEW d \in 1 .. Len(s), Picked(s, S) = {d} PROVE Kept(s, S) = <<s[d]>>
  <2>1. PICK e \in Seq(T) : Len(e) = 0
    <3>1. <<>> \in Seq(T) /\ Len(<<>>) = 0
      OBVIOUS
    <3> QED
      BY <3>1
  <2>2. Picked(e, S) = {} /\ Len(Kept(e, S)) = 0
    BY <2>1, FS_EmptySet DEF Kept, Picked
  <2>3. Len(Kept(s, S)) = 1 /\ Kept(s, S)[1] = s[d]
    <3>1. /\ Picked(s, S) = Picked(e, S) \cup {d}
          /\ \A i \in Picked(e, S) : i < d /\ s[i] = e[i]
      BY <1>2, <2>2
    <3>2. /\ Len(Kept(s, S)) = Len(Kept(e, S)) + 1
          /\ Kept(s, S)[Len(Kept(e, S)) + 1] = s[d]
      BY <3>1, KeptMore
    <3> QED
      BY <2>2, <3>2
  <2>4. Kept(s, S) \in Seq(T)
    BY KeptIsPicked
  <2> QED
    BY <2>3, <2>4
<1> QED
  BY <1>1, <1>2

\* Of some places one is the first and one the last.
LEMMA FirstAndLast ==
    ASSUME NEW n \in Nat, NEW S \in SUBSET (1 .. n), S # {}
    PROVE  /\ Min(S) \in S /\ \A i \in S : Min(S) <= i
           /\ Max(S) \in S /\ \A i \in S : i <= Max(S)
<1>1. IsFiniteSet(S) /\ S \subseteq Int
  <2>1. IsFiniteSet(1 .. n) /\ 1 .. n \subseteq Int
    BY FS_Interval
  <2> QED
    BY <2>1, FS_Subset
<1>2. PICK i \in S, k \in S : \A j \in S : i <= j /\ j <= k
  BY <1>1, LeastAndGreatest
<1>3. (\E x \in S : \A y \in S : x <= y) /\ (\E x \in S : \A y \in S : x >= y)
  BY <1>1, <1>2
<1>4. Min(S) \in S /\ \A y \in S : Min(S) <= y
  BY <1>3 DEF Min
<1>5. Max(S) \in S /\ \A y \in S : Max(S) >= y
  BY <1>3 DEF Max
<1> QED
  BY <1>1, <1>4, <1>5

-----------------------------------------------------------------------------
(* RequestPath.                                                             *)
\* A tier is at its index.
LEMMA IndexPlace ==
    ASSUME NEW t \in ToSet(Tier)
    PROVE  Index(t) \in DOMAIN Tier /\ Tier[Index(t)] = t /\ Index(t) \in 1 .. Len(Tier)
<1>1. \E i \in DOMAIN Tier : Tier[i] = t
  BY DEF ToSet
<1>2. DOMAIN Tier = 1 .. Len(Tier)
  BY RouteValid
<1> QED
  BY <1>1, <1>2 DEF Index

\* A route has finitely many tiers, and one at least.
LEMMA TierSetFinite == IsFiniteSet(ToSet(Tier)) /\ ToSet(Tier) # {}
<1>1. DOMAIN Tier = 1 .. Len(Tier) /\ Len(Tier) \in Nat /\ Tier # <<>>
  BY RouteValid
<1>2. IsFiniteSet(DOMAIN Tier)
  BY <1>1, FS_Interval
<1>3. ToSet(Tier) = {Tier[i] : i \in DOMAIN Tier}
  BY DEF ToSet
<1>4. IsFiniteSet(ToSet(Tier))
  <2> DEFINE f == [i \in DOMAIN Tier |-> Tier[i]]
  <2>1. f \in Surjection(DOMAIN Tier, ToSet(Tier))
    BY <1>3 DEF Surjection
  <2> QED
    BY <1>2, <2>1, FS_Surjection
<1>5. 1 \in DOMAIN Tier
  BY <1>1
<1> QED
  BY <1>3, <1>4, <1>5

\* Of some tiers there is a first.
LEMMA FirstIsOne ==
    ASSUME NEW tiers, tiers \subseteq ToSet(Tier), tiers # {}
    PROVE  First(tiers) \in tiers /\ \A u \in tiers : Index(First(tiers)) <= Index(u)
<1> DEFINE P == {Index(t) : t \in tiers}
<1>1. \A t \in tiers : Index(t) \in 1 .. Len(Tier)
  BY IndexPlace
<1>2. P \subseteq 1 .. Len(Tier) /\ P \subseteq Int /\ P # {}
  BY <1>1
<1>3. IsFiniteSet(P)
  <2>1. Len(Tier) \in Int
    BY RouteValid
  <2>2. IsFiniteSet(1 .. Len(Tier))
    BY <2>1, FS_Interval
  <2> QED
    BY <1>2, <2>2, FS_Subset
<1>4. \E i \in P : \A j \in P : i <= j
  BY <1>2, <1>3, LeastAndGreatest
<1>5. \E t \in tiers : \A u \in tiers : Index(t) <= Index(u)
  BY <1>4
<1> QED
  BY <1>5 DEF First

\* A decision has its four fields and nothing else.
Formed(d) == d = Decided(d.tier, d.model, d.reason, d.eligible)

\* A decision, given another reason or not, is what it was made of.
LEMMA FormedSimply ==
    ASSUME NEW t, NEW m, NEW why, NEW e
    PROVE  LET d == Decided(t, m, why, e)
           IN  /\ Formed(d) /\ d.tier = t /\ d.model = m /\ d.reason = why /\ d.eligible = e
               /\ \A x : /\ Formed([d EXCEPT !.reason = x])
                         /\ [d EXCEPT !.reason = x].tier = t
                         /\ [d EXCEPT !.reason = x].model = m
                         /\ [d EXCEPT !.reason = x].eligible = e
BY DEF Formed, Decided

\* So only the reason of a decision changes when it is reworded.
LEMMA Reworded ==
    ASSUME NEW d, Formed(d), NEW why
    PROVE  LET w == [d EXCEPT !.reason = why]
           IN  Formed(w) /\ w.tier = d.tier /\ w.model = d.model /\ w.eligible = d.eligible
BY FormedSimply DEF Formed

\* A RouteError is a decision that failed.
LEMMA ErrorFails ==
    ASSUME NEW why PROVE Formed(RouteError(why)) /\ Failed(RouteError(why))
BY FormedSimply DEF RouteError, Failed

\* The cascade takes one of the tiers it is given.
LEMMA CascadeIsAbove ==
    ASSUME NEW r, NEW above, above \subseteq ToSet(Tier), above # {}
    PROVE  Cascade(r, above).tier \in above
<1> DEFINE better == above \ {First(above)}
<1>1. First(above) \in above
  BY FirstIsOne
<1>2. better # {} => First(better) \in better
  BY FirstIsOne
<1>3. Cascade(r, above).tier \in {First(above), IF better = {} THEN First(above) ELSE First(better)}
  BY DEF Cascade
<1> QED
  BY <1>1, <1>2, <1>3

\* What is selected among the able tiers is one of them.
LEMMA SelectedIsAble ==
    ASSUME NEW r, NEW able, able \subseteq ToSet(Tier)
    PROVE  SelectTier(r, able).tier \in able \cup {None}
<1>1. CASE r.pin # None
  BY <1>1 DEF SelectTier
<1>2. CASE r.pin = None
  <2> DEFINE above == {t \in able : r.floor = None \/ Index(t) >= Index(r.floor)}
  <2>1. SelectTier(r, able) = Cascade(r, above)
    BY <1>2 DEF SelectTier
  <2>2. above \subseteq able
    OBVIOUS
  <2> HIDE DEF above
  <2>3. CASE above = {}
    BY <2>1, <2>3 DEF Cascade
  <2>4. CASE above # {}
    BY <2>1, <2>2, <2>4, CascadeIsAbove
  <2> QED
    BY <2>3, <2>4
<1> QED
  BY <1>1, <1>2

\* Among all the tiers there is one to select, whatever tier is preferred.
LEMMA SelectedOfAll ==
    ASSUME NEW r, r.pin \in {None} \cup ToSet(Tier), r.floor \in {None} \cup ToSet(Tier)
    PROVE  SelectTier(r, ToSet(Tier)).tier \in ToSet(Tier)
<1>1. CASE r.pin # None
  BY <1>1 DEF SelectTier
<1>2. CASE r.pin = None
  <2> DEFINE above == {t \in ToSet(Tier) : r.floor = None \/ Index(t) >= Index(r.floor)}
  <2>1. SelectTier(r, ToSet(Tier)) = Cascade(r, above)
    BY <1>2 DEF SelectTier
  <2>2. above \subseteq ToSet(Tier)
    OBVIOUS
  <2>3. above # {}
    <3>1. CASE r.floor = None
      BY <3>1, TierSetFinite
    <3>2. CASE r.floor \in ToSet(Tier)
      <4>1. Index(r.floor) \in Int
        BY <3>2, IndexPlace
      <4> QED
        BY <3>2, <4>1
    <3> QED
      BY <3>1, <3>2
  <2> HIDE DEF above
  <2> QED
    BY <2>1, <2>2, <2>3, CascadeIsAbove
<1> QED
  BY <1>1, <1>2

\* A tier that is decided has a model that was admitted.
LEMMA DecideTierAdmits ==
    ASSUME NEW r, NEW eligible, eligible \subseteq Model
    PROVE  LET d == DecideTier(r, eligible)
           IN  /\ Formed(d)
               /\ ~Failed(d) => /\ d.tier \in ToSet(Tier) /\ d.model = ModelOf[d.tier]
                                /\ d.eligible = eligible /\ d.model \in eligible
<1> DEFINE able == {t \in ToSet(Tier) : ModelOf[t] \in eligible}
           s == SelectTier(r, able)
<1>1. DecideTier(r, eligible) = Selected(s, able, eligible)
  BY DEF DecideTier, DecideAmong
<1>2. s.tier \in able \cup {None}
  BY SelectedIsAble
<1>3. able \subseteq ToSet(Tier) /\ \A t \in able : ModelOf[t] \in eligible
  OBVIOUS
<1> HIDE DEF able, s
<1>4. CASE able = {} \/ s.tier = None
  <2>1. PICK why : Selected(s, able, eligible) = RouteError(why)
    BY <1>4 DEF Selected
  <2> QED
    BY <1>1, <2>1, ErrorFails
<1>5. CASE ~(able = {} \/ s.tier = None)
  <2>1. PICK why : Selected(s, able, eligible) = Decided(s.tier, ModelOf[s.tier], why, eligible)
    BY <1>5 DEF Selected
  <2>2. s.tier \in ToSet(Tier) /\ ModelOf[s.tier] \in eligible
    BY <1>2, <1>3, <1>5
  <2> QED
    BY <1>1, <2>1, <2>2, FormedSimply
<1> QED
  BY <1>4, <1>5

\* Whatever way RouteConfig::decide takes, the model was admitted for the request.
LEMMA DecideAdmits ==
    ASSUME NEW r
    PROVE  /\ Formed(Decide(r))
           /\ ~Failed(Decide(r)) => /\ Decide(r).eligible = Eligible(r)
                                    /\ Decide(r).model \in Eligible(r)
<1>1. Eligible(r) \subseteq Model
  BY DEF Eligible
<1>2. \/ \E why : Decide(r) = RouteError(why)
      \/ Decide(r) = Decided("pinned", r.model, "explicit_model", Eligible(r)) /\ r.model \in Eligible(r)
      \/ Decide(r) = DecideTier(r, Eligible(r))
  BY DEF Decide, DecideExplicit
<1> QED
  BY <1>1, <1>2, ErrorFails, FormedSimply, DecideTierAdmits

\* What a request asks for does not change with its pin.
LEMMA PinAsksTheSame ==
    ASSUME NEW r, NEW t, {"topic", "feats", "chars", "maxTokens", "model"} \subseteq DOMAIN r
    PROVE  /\ Requirement([r EXCEPT !.pin = t]) = Requirement(r)
           /\ Eligible([r EXCEPT !.pin = t]) = Eligible(r)
           /\ [r EXCEPT !.pin = t].model = r.model
<1> DEFINE q == [r EXCEPT !.pin = t]
<1>1. q.topic = r.topic /\ q.feats = r.feats /\ q.chars = r.chars /\ q.maxTokens = r.maxTokens
      /\ q.model = r.model
  OBVIOUS
<1> HIDE DEF q
<1>2. Requirement(q) = Requirement(r)
  BY <1>1 DEF Requirement, Tokens
<1>3. Eligible(q) = Eligible(r)
  BY <1>2 DEF Eligible
<1> QED
  BY <1>1, <1>2, <1>3 DEF q

\* A decision for a model that was admitted for what r asks.
Able(r, d) == Formed(d) /\ d.eligible = Eligible(r) /\ d.model \in d.eligible

\* The decision for a pinned tier is one for the request without the pin,
LEMMA PinnedIsAble ==
    ASSUME NEW r, NEW t, {"topic", "feats", "chars", "maxTokens", "model"} \subseteq DOMAIN r,
           ~Failed(Pinned(r, t))
    PROVE  Able(r, Pinned(r, t))
BY DecideAdmits, PinAsksTheSame DEF Pinned, Able

\* as is one with another reason,
LEMMA AbleReworded ==
    ASSUME NEW r, NEW d, Able(r, d), NEW why PROVE Able(r, [d EXCEPT !.reason = why])
BY Reworded DEF Able

\* and none of them is an error.
LEMMA AbleSucceeds ==
    ASSUME NEW r, NEW d, Able(r, d) PROVE ~Failed(d)
BY RouteValid DEF Able, Failed, Eligible

\* bind_decision stays among the admitted models.
LEMMA BoundIsAble ==
    ASSUME NEW r, NEW d, Able(r, d), NEW m, ~Failed(BindDecision(d, m))
    PROVE  Able(r, BindDecision(d, m))
<1>1. m \in d.eligible /\ \E t : BindDecision(d, m) = Decided(t, m, "task_binding", d.eligible)
  BY ErrorFails DEF BindDecision
<1> QED
  BY <1>1, FormedSimply DEF Able

-----------------------------------------------------------------------------
\* The inductive invariant of the request's path.
PathInv ==
    /\ stage \in {"read", "route", "bind", "send", "answer", "refused", "done"}
    /\ req \in Requests
    /\ stage \in {"route", "bind", "send", "answer"} => canon = Canonical(req.api, req.feats)
    /\ stage \in {"bind", "send", "answer"} => Able(canonReq, decision)
    /\ stage = "answer" => /\ served \in Eligible(canonReq)
                           /\ delivered = Delivered(wire, canon, Policy[served])
                           /\ Builds(wire, canon, req.stream)
    /\ stage # "done" => replied = {}
    /\ CallsReachCaller

\* The canonical request has the fields a decision looks at.
LEMMA CanonShape ==
    ASSUME req \in Requests
    PROVE  {"topic", "feats", "chars", "maxTokens", "model"} \subseteq DOMAIN canonReq
BY PathAssumption DEF canonReq

\* What the rules or a learned artifact choose was admitted (apply_artifact_policy),
LEMMA ChosenIsAble ==
    ASSUME req \in Requests, NEW d \in Chosen, ~Failed(d)
    PROVE  Able(canonReq, d)
<1>1. PICK p : d = Learned(Decide(canonReq), p)
  BY DEF Chosen
<1>2. CASE d = Decide(canonReq)
  BY <1>2, DecideAdmits DEF Able
<1>3. CASE d # Decide(canonReq)
  <2>1. d = Overruled(Pinned(canonReq, p.tier), p.arm)
    BY <1>1, <1>3 DEF Learned
  <2>2. ~Failed(Pinned(canonReq, p.tier))
    BY <2>1 DEF Overruled
  <2>3. d = [Pinned(canonReq, p.tier) EXCEPT !.reason = "artifact_" \o p.arm]
    BY <2>1, <2>2 DEF Overruled
  <2> QED
    BY <2>2, <2>3, CanonShape, PinnedIsAble, AbleReworded
<1> QED
  BY <1>2, <1>3

\* as was what an exploration draw chooses (apply_controlled_exploration),
LEMMA ExploredIsAble ==
    ASSUME req \in Requests, NEW d, Able(canonReq, d),
           NEW t \in {d.tier} \cup Explorable(d, Routable)
    PROVE  Able(canonReq, Explored(d, t))
<1>1. CASE t = d.tier
  BY <1>1 DEF Explored
<1>2. CASE t # d.tier
  <2>1. ~Failed(Pinned(canonReq, t))
    BY <1>2 DEF Explorable, Routable
  <2> QED
    BY <1>2, <2>1, CanonShape, PinnedIsAble, AbleReworded DEF Explored
<1> QED
  BY <1>1, <1>2

\* and what the binding of an earlier call makes of it (apply_task_binding_inner).
LEMMA AppliedIsAble ==
    ASSUME NEW d, Able(canonReq, d), NEW b, ~Failed(ApplyBinding(d, b))
    PROVE  Able(canonReq, ApplyBinding(d, b))
<1>1. Failed(RouteError("unsafe_session_migration"))
  BY ErrorFails
<1>2. \/ ApplyBinding(d, b) = d
      \/ \E why : ApplyBinding(d, b) = [d EXCEPT !.reason = why]
      \/ ApplyBinding(d, b) = Rebound(d, b)
  BY <1>1 DEF ApplyBinding
<1>3. \E m : Rebound(d, b) = BindDecision(d, m)
  BY DEF Rebound
<1> QED
  BY <1>2, <1>3, AbleReworded, BoundIsAble

\* The deployments that may take the request serve admitted models (execution_tier,
\* deployment_filter_reasons).
LEMMA ServableIsAdmitted ==
    ASSUME NEW r, NEW d, Able(r, d), NEW m \in Servable(d) PROVE m \in Eligible(r)
BY DEF Able, Servable

\* A provider is sent nothing that was not asked.
LEMMA DeliveredIsAsked ==
    ASSUME NEW w, NEW feats, NEW policy PROVE Delivered(w, feats, policy) \subseteq feats
BY DEF Delivered, RewriteCompat

\* The clients whose tools are read are those that take calls back.
LEMMA ToolsComeBack ==
    ASSUME NEW api \in ClientApi, NEW feats, "tools" \in Canonical(api, feats)
    PROVE  "calls" \in AnswerTaken(api)
<1>1. PICK f \in feats \cap Taken(api) : Recast(api, f) = "tools"
  BY DEF Canonical
<1>2. f = "tools"
  BY <1>1 DEF Recast
<1> QED
  BY <1>1, <1>2 DEF ClientApi, Taken, TakenFromResponses, TakenFromAnthropic, TakenFromGemini,
     TakenFromOllama, AnswerTaken, ResponsesReply, AnthropicReply

\* The wires that carry tools bring calls back.
LEMMA ToolsAreAnswered ==
    ASSUME NEW w \in WireApi, NEW feats, NEW policy, "tools" \in Delivered(w, feats, policy)
    PROVE  "calls" \in AnswerRead(w)
<1>1. "tools" \notin Overlooked(w, feats)
  BY DEF Delivered, RewriteCompat
<1>2. w # "gemini"
  BY <1>1, DeliveredIsAsked DEF Overlooked
<1> QED
  BY <1>2 DEF WireApi, AnswerRead, ResponsesAnswer, AnthropicAnswer

\* A request that is built reports no loss, and of what is lost without a report only the
\* effort is asked.
LEMMA BuiltIsDelivered ==
    ASSUME NEW w \in WireApi, w # "gemini", NEW feats, NEW stream, NEW policy,
           Builds(w, feats, stream)
    PROVE  feats \cap Asked \subseteq Delivered(w, feats, policy) \cup policy.dropped \cup Unspoken(w)
<1>1. Losses(w, feats) = {}
  BY DEF WireApi, Builds, Losses
<1>2. Overlooked(w, feats) \cap Asked \subseteq Unspoken(w)
  BY DEF WireApi, Overlooked, Asked, Unspoken
<1>3. feats \cap Asked \subseteq
          RewriteCompat(w, feats \ Overlooked(w, feats), policy) \cup Unspoken(w)
  BY <1>2 DEF RewriteCompat, Asked
<1> QED
  BY <1>1, <1>3 DEF Delivered

\* Every step of the request keeps the invariant.
LEMMA PathStep ==
    ASSUME PathInv, PathNext PROVE PathInv'
<1> USE DEF PathInv
<1>1. CASE Read
  <2> USE <1>1 DEF Read
  <2> QED
    BY DEF CallsReachCaller
<1>2. CASE RefuseUnread \/ RefuseUnroutable \/ RefuseUnsent
  <2>1. stage \in {"read", "route", "send"} /\ stage' = "refused" /\ UNCHANGED pathVars
    BY <1>2 DEF RefuseUnread, RefuseUnroutable, RefuseUnsent, Refuse
  <2> QED
    BY <2>1 DEF pathVars, CallsReachCaller, Canonical
<1>3. CASE Route_request
  <2>1. PICK d \in Chosen : /\ ~Failed(d)
                            /\ \E t \in {d.tier} \cup Explorable(d, Routable) : decision' = Explored(d, t)
    BY <1>3 DEF Route_request
  <2>2. stage = "route" /\ stage' = "bind" /\ UNCHANGED <<req, canon, replied, received>>
    BY <1>3 DEF Route_request
  <2>3. Able(canonReq, decision')
    BY <2>1, ChosenIsAble, ExploredIsAble
  <2>4. canonReq' = canonReq
    BY <2>2 DEF canonReq
  <2>5. Able(canonReq, decision)'
    BY <2>3, <2>4 DEF Able, Formed, Eligible
  <2> QED
    BY <2>2, <2>5 DEF CallsReachCaller, Canonical
<1>4. CASE Bind
  <2>1. PICK b \in Looked : /\ decision' = ApplyBinding(decision, b)
                            /\ stage' = IF Failed(ApplyBinding(decision, b)) THEN "refused" ELSE "send"
    BY <1>4 DEF Bind
  <2>2. stage = "bind" /\ UNCHANGED <<req, canon, replied, received>>
    BY <1>4 DEF Bind
  <2>3. stage' = "send" => Able(canonReq, decision')
    BY <2>1, <2>2, AppliedIsAble
  <2>4. canonReq' = canonReq
    BY <2>2 DEF canonReq
  <2>5. stage' = "send" => Able(canonReq, decision)'
    BY <2>3, <2>4 DEF Able, Formed, Eligible
  <2> QED
    BY <2>1, <2>2, <2>5 DEF CallsReachCaller, Canonical
<1>5. CASE Send
  <2>1. PICK m \in Servable(decision) :
            /\ Builds(ApiOf[m], canon, req.stream) /\ served' = m
            /\ delivered' = Delivered(ApiOf[m], canon, Policy[m])
    BY <1>5 DEF Send
  <2>2. /\ stage = "send" /\ stage' = "answer"
        /\ UNCHANGED <<req, canon, decision, replied, received>>
    BY <1>5 DEF Send
  <2>3. canonReq' = canonReq /\ wire' = ApiOf[m]
    BY <2>1, <2>2 DEF canonReq, wire
  <2>4. Able(canonReq, decision)'
    BY <2>2, <2>3 DEF Able, Formed, Eligible
  <2>5. m \in Eligible(canonReq)
    BY <2>1, <2>2, ServableIsAdmitted
  <2>6. (served \in Eligible(canonReq))'
    BY <2>1, <2>3, <2>5 DEF Eligible
  <2> QED
    BY <2>1, <2>2, <2>3, <2>4, <2>6 DEF CallsReachCaller, Canonical
<1>6. CASE Answer
  <2>1. /\ stage = "answer" /\ stage' = "done" /\ UNCHANGED <<req, canon>>
        /\ received' = replied' \cap AnswerRead(wire) \cap AnswerTaken(req.api)
        /\ "calls" \in replied' => "tools" \in delivered
    BY <1>6 DEF Answer
  <2>2. wire \in WireApi /\ req.api \in ClientApi
    BY <2>1, PathAssumption DEF wire, Eligible
  <2>3. ASSUME "calls" \in replied' PROVE "calls" \in received'
    <3>1. "calls" \in AnswerRead(wire)
      BY <2>1, <2>2, <2>3, ToolsAreAnswered
    <3>2. "tools" \in Canonical(req.api, req.feats)
      BY <2>1, <2>3, DeliveredIsAsked
    <3>3. "calls" \in AnswerTaken(req.api)
      BY <2>2, <3>2, ToolsComeBack
    <3> QED
      BY <2>1, <2>3, <3>1, <3>3
  <2> QED
    BY <2>1, <2>3 DEF CallsReachCaller, Canonical
<1>7. CASE Stream
  <2>1. stage = "answer" /\ stage' \in {"answer", "done"} /\ UNCHANGED pathVars
    BY <1>7 DEF Stream
  <2> QED
    BY <2>1 DEF pathVars, CallsReachCaller, Canonical, canonReq, wire, Able, Formed, Eligible
<1> QED
  BY <1>1, <1>2, <1>3, <1>4, <1>5, <1>6, <1>7 DEF PathNext

\* So it always holds.
LEMMA PathAlways == PathSpec => []PathInv
<1>1. PathInit => PathInv
  BY DEF PathInit, PathInv, CallsReachCaller
<1>2. PathInv /\ UNCHANGED requestVars => PathInv'
  BY DEF PathInv, requestVars, pathVars, CallsReachCaller, Canonical, canonReq, wire, Able, Formed,
     Eligible
<1>3. PathInv /\ [PathNext]_requestVars => PathInv'
  BY <1>2, PathStep
<1> QED
  BY <1>1, <1>3, PTL DEF PathSpec

\* A request is sent to a model that was admitted for all it asks, whichever of the rules,
\* the artifact, the exploration draw and the binding chose its tier and whichever of the
\* tier's deployments takes it (route_request, apply_task_binding_inner, execution_tier).
THEOREM AdmittedAlways == PathSpec => []AdmittedForIt
<1>1. PathInv => AdmittedForIt
  BY DEF PathInv, AdmittedForIt, InFlight, Able, Eligible
<1> QED
  BY <1>1, PathAlways, PTL

\* The images, audio, tools, schemas and bound of a canonical request are sent, or it is
\* refused (ProviderTransport::build_request under LossPolicy::Reject), on every wire but
\* Gemini's and for every parameter policy; so is its effort on the Chat wire, while the
\* Responses and Anthropic writers never send it.
THEOREM AskedAlways == PathSpec => []AskedIsDelivered
<1>1. ASSUME PathInv PROVE AskedIsDelivered
  <2> SUFFICES ASSUME stage = "answer", wire # "gemini"
               PROVE  canon \cap Asked
                         \subseteq delivered \cup Policy[served].dropped \cup Unspoken(wire)
    BY DEF AskedIsDelivered
  <2>1. wire \in WireApi
    BY <1>1, PathAssumption DEF PathInv, wire, Eligible
  <2> QED
    BY <1>1, <2>1, BuiltIsDelivered DEF PathInv
<1> QED
  BY <1>1, PathAlways, PTL

-----------------------------------------------------------------------------
(* What is advertised. *)
\* The windows a route advertises lie below and above those of its tiers' models.
LEMMA TierWindows ==
    /\ TierModel \subseteq Model
    /\ \A m \in TierModel : Window[m] \in Nat
    /\ Capabilities.window \in Nat
    /\ \A m \in TierModel : Capabilities.window <= Window[m]
    /\ RoutableCapabilities.window \in Nat
    /\ \A m \in TierModel : Window[m] <= RoutableCapabilities.window
<1> DEFINE W == {Window[m] : m \in TierModel}
<1>1. TierModel \subseteq Model /\ \A m \in TierModel : Window[m] \in Nat
  BY RouteValid DEF TierModel
<1>2. IsFiniteSet(W) /\ W # {}
  <2> DEFINE f == [t \in ToSet(Tier) |-> Window[ModelOf[t]]]
  <2>1. f \in Surjection(ToSet(Tier), W)
    BY DEF Surjection, TierModel
  <2>2. W # {}
    BY TierSetFinite DEF TierModel
  <2> QED
    BY <2>1, <2>2, TierSetFinite, FS_Surjection
<1>3. W \subseteq Int /\ W \subseteq Nat
  BY <1>1
<1> HIDE DEF W
<1>4. Min(W) \in W /\ \A w \in W : Min(W) <= w
  BY <1>2, <1>3, LeastAndGreatest DEF Min
<1>5. Max(W) \in W /\ \A w \in W : w <= Max(W)
  <2>1. \E x \in W : \A y \in W : x >= y
    BY <1>2, <1>3, LeastAndGreatest
  <2>2. Max(W) \in W /\ \A w \in W : Max(W) >= w
    BY <2>1 DEF Max
  <2> QED
    BY <1>3, <2>2
<1>6. Capabilities.window = Min(W) /\ RoutableCapabilities.window = Max(W)
  BY DEF Capabilities, RoutableCapabilities, W
<1>7. \A m \in TierModel : Window[m] \in W
  BY DEF W
<1> QED
  BY <1>1, <1>3, <1>4, <1>5, <1>6, <1>7

\* What a request needs of a window is a number of tokens.
LEMMA RequirementWindow ==
    ASSUME NEW r, r.chars \in Nat, r.maxTokens \in Nat
    PROVE  Requirement(r).window \in Nat
<1>1. Tokens(r) \in Nat
  BY DEF Tokens
<1> QED
  BY <1>1, RouteValid DEF Requirement

\* A request within what all the tiers have is admitted by each of them.
LEMMA WithinAllIsServed ==
    ASSUME NEW r, r.chars \in Nat, r.maxTokens \in Nat, r.model = Route,
           TierModel \subseteq Active, ContractValid(r), ~LacksTool(r),
           Within(Requirement(r), Capabilities),
           r.pin \in {None} \cup ToSet(Tier), r.floor \in {None} \cup ToSet(Tier)
    PROVE  ~Failed(Decide(r))
<1> DEFINE need == Requirement(r)
           able == {t \in ToSet(Tier) : ModelOf[t] \in Eligible(r)}
<1>1. ASSUME NEW t \in ToSet(Tier) PROVE ModelOf[t] \in Eligible(r)
  <2>1. ModelOf[t] \in TierModel
    BY DEF TierModel
  <2>2. need.caps \subseteq Caps[ModelOf[t]]
    BY <2>1 DEF Within, Capabilities
  <2>3. need.window <= Window[ModelOf[t]]
    BY <2>1, TierWindows, RequirementWindow DEF Within
  <2> QED
    BY <2>1, <2>2, <2>3, TierWindows DEF Eligible, Admits
<1>2. able = ToSet(Tier)
  BY <1>1
<1>3. Decide(r) = Selected(SelectTier(r, able), able, Eligible(r))
  BY DEF Decide, DecideTier, DecideAmong
<1> HIDE DEF able
<1> DEFINE s == SelectTier(r, able)
<1>4. s.tier \in ToSet(Tier) /\ s.tier # None /\ able # {}
  BY <1>2, SelectedOfAll, TierSetFinite, RouteValid
<1> HIDE DEF s
<1>5. \E why : Selected(s, able, Eligible(r)) = Decided(s.tier, ModelOf[s.tier], why, Eligible(r))
  BY <1>4 DEF Selected
<1>6. ModelOf[s.tier] # None
  BY <1>4, RouteValid
<1> QED
  BY <1>3, <1>5, <1>6, FormedSimply DEF Failed, s

\* What exceeds every tier is refused by each.
LEMMA BeyondAnyIsRefused ==
    ASSUME NEW r, r.chars \in Nat, r.maxTokens \in Nat, r.model = Route,
           ~Within(Requirement(r), RoutableCapabilities)
    PROVE  Failed(Decide(r))
<1> SUFFICES ASSUME ~Failed(Decide(r)) PROVE FALSE
  OBVIOUS
<1> DEFINE need == Requirement(r)
<1>1. Decide(r) = DecideTier(r, Eligible(r))
  BY ErrorFails DEF Decide
<1>2. Eligible(r) \subseteq Model
  BY DEF Eligible
<1>3. PICK t \in ToSet(Tier) : ModelOf[t] \in Eligible(r)
  BY <1>1, <1>2, DecideTierAdmits
<1>4. ModelOf[t] \in TierModel
  BY DEF TierModel
<1>5. need.caps \subseteq Caps[ModelOf[t]] /\ need.window <= Window[ModelOf[t]]
  BY <1>3 DEF Eligible, Admits
<1>6. need.caps \subseteq RoutableCapabilities.caps
  BY <1>4, <1>5 DEF RoutableCapabilities
<1>7. need.window <= RoutableCapabilities.window
  BY <1>4, <1>5, TierWindows, RequirementWindow
<1> QED
  BY <1>6, <1>7 DEF Within

\* A learned artifact does not rescue what the rules refuse.
LEMMA NothingLearnedBeyondAny ==
    ASSUME NEW d, d \in Chosen, req \in Requests, canonReq.model = Route,
           ~Within(Requirement(canonReq), RoutableCapabilities)
    PROVE  Failed(d)
<1>1. canonReq.chars \in Nat /\ canonReq.maxTokens \in Nat
  BY PathAssumption DEF canonReq
<1>2. Failed(Decide(canonReq))
  BY <1>1, BeyondAnyIsRefused
<1> QED
  BY <1>2 DEF Chosen, Learned

\* What GET /v1/models advertises of the route and of the catalog's models is kept, for
\* every route, catalog and request (RouteConfig::capabilities, routable_capabilities,
\* decide).
THEOREM AdvertisedAlways == PathSpec => []AdvertisedIsKept
<1>1. ASSUME PathInv PROVE AdvertisedIsKept
  <2> DEFINE r == canonReq
  <2>1. /\ req \in Requests /\ r.chars \in Nat /\ r.maxTokens \in Nat
    BY <1>1, PathAssumption DEF PathInv, canonReq
  <2>2. ASSUME r.model = Route, TierModel \subseteq Active, ContractValid(r), ~LacksTool(r),
               Within(Requirement(r), Advertised.all),
               r.pin \in {None} \cup ToSet(Tier), r.floor \in {None} \cup ToSet(Tier)
        PROVE  ~Failed(Decide(r))
    BY <2>1, <2>2, WithinAllIsServed DEF Advertised
  <2>3. ASSUME r.model \in Active \ {Route}, ContractValid(r), ~LacksTool(r),
               Within(Requirement(r), Advertised.model[r.model])
        PROVE  ~Failed(Decide(r))
    <3>1. r.model \in Model /\ r.model # None
      BY <2>3, PathAssumption, RouteValid
    <3>2. r.model \in Eligible(r)
      BY <2>3, <3>1 DEF Advertised, Within, Eligible, Admits
    <3>3. Decide(r) = Decided("pinned", r.model, "explicit_model", Eligible(r))
      BY <2>3, <3>2 DEF Decide, DecideExplicit
    <3> QED
      BY <3>1, <3>3, FormedSimply DEF Failed
  <2>4. ASSUME r.model = Route, ~Within(Requirement(r), Advertised.any), NEW d \in Chosen
        PROVE  Failed(d)
    BY <2>1, <2>4, NothingLearnedBeyondAny DEF Advertised
  <2> QED
    BY <2>2, <2>3, <2>4 DEF AdvertisedIsKept
<1> QED
  BY <1>1, PathAlways, PTL

\* The tool calls of a whole answer come back to the caller through both conversions.
THEOREM CallsAlways == PathSpec => []CallsReachCaller
<1>1. PathInv => CallsReachCaller
  BY DEF PathInv
<1> QED
  BY <1>1, PathAlways, PTL

-----------------------------------------------------------------------------
(* StreamTranslation, within a request: what passes on, what is cut of it   *)
(* and what a client is shown.                                              *)
\* What a stream becomes as a whole: its own end marker removed, the gateway's part after it.
Ending == <<LF, Decision, LF, LF, Done, LF, LF>>
Whole(s) == RemoveDone(s) \o Ending

Bytes == (UNION {ToSet(s) : s \in Upstream}) \cup {LF, Decision, Done}
DeltaBytes == {b \in Bytes : b.is = "delta"}

\* The tokens differ, by what they are.
LEMMA Marks ==
    /\ LF # Done /\ LF # Decision /\ Done # Decision /\ CR # LF /\ CR # Done /\ CR # Decision
    /\ LF.is # "delta" /\ Done.is # "delta" /\ Decision.is # "delta" /\ CR.is # "delta"
    /\ LF \in Bytes /\ Done \in Bytes /\ Decision \in Bytes
<1>1. /\ LF.is = "lf" /\ CR.is = "cr" /\ Done.is = "done" /\ Decision.is = "decision"
  BY DEF LF, CR, Done, Decision
<1>2. LF \in Bytes /\ Done \in Bytes /\ Decision \in Bytes
  BY DEF Bytes
<1> QED
  BY <1>1, <1>2

\* A stream of a provider, as a sequence.
LEMMA SourceIs ==
    ASSUME PlainUpstream, NEW s \in Upstream
    PROVE  s \in Seq(Bytes) /\ PlainStream(s) /\ Len(s) \in Nat /\ DOMAIN s = 1 .. Len(s)
<1>1. PlainStream(s) /\ s \in Seq(ToSet(s))
  BY DEF PlainUpstream, PlainStream
<1>2. ToSet(s) \subseteq Bytes
  BY DEF Bytes
<1>3. s \in Seq(Bytes)
  BY <1>1, <1>2, SeqMonotonic
<1> QED
  BY <1>1, <1>3

\* remove_sse_done, of a stretch that has one end marker at most.
LEMMA Removed ==
    ASSUME NEW s \in Seq(Bytes),
           \A i, j \in 1 .. Len(s) : s[i] = Done /\ s[j] = Done => i = j
    PROVE  /\ RemoveDone(s) \in Seq(Bytes)
           /\ (\A i \in 1 .. Len(s) : s[i] # Done) => RemoveDone(s) = s
           /\ \A at \in 1 .. Len(s) : s[at] = Done =>
                 /\ Len(RemoveDone(s)) = Len(s) - 1
                 /\ \A i \in 1 .. Len(s) - 1 :
                       RemoveDone(s)[i] = IF i < at THEN s[i] ELSE s[i + 1]
<1>1. Done \in ToSet(s) <=> \E i \in 1 .. Len(s) : s[i] = Done
  BY DEF ToSet
<1>2. ASSUME NEW at \in 1 .. Len(s), s[at] = Done
      PROVE  RemoveDone(s) = SubSeq(s, 1, at - 1) \o SubSeq(s, at + 1, Len(s))
  <2>1. {i \in DOMAIN s : s[i] = Done} = {at}
    BY <1>2
  <2>2. Max({at}) = at
    BY DEF Max
  <2>3. Done \in ToSet(s)
    BY <1>1, <1>2
  <2> QED
    BY <2>1, <2>2, <2>3 DEF RemoveDone, RemoveAt
<1>3. ASSUME NEW at \in 1 .. Len(s), s[at] = Done
      PROVE  /\ RemoveDone(s) \in Seq(Bytes) /\ Len(RemoveDone(s)) = Len(s) - 1
             /\ \A i \in 1 .. Len(s) - 1 :
                   RemoveDone(s)[i] = IF i < at THEN s[i] ELSE s[i + 1]
  <2>1. /\ SubSeq(s, 1, at - 1) \in Seq(Bytes) /\ Len(SubSeq(s, 1, at - 1)) = at - 1
        /\ \A i \in 1 .. at - 1 : SubSeq(s, 1, at - 1)[i] = s[i]
    OBVIOUS
  <2>2. /\ SubSeq(s, at + 1, Len(s)) \in Seq(Bytes)
        /\ Len(SubSeq(s, at + 1, Len(s))) = Len(s) - at
        /\ \A i \in 1 .. Len(s) - at : SubSeq(s, at + 1, Len(s))[i] = s[at + i]
    OBVIOUS
  <2> DEFINE x == SubSeq(s, 1, at - 1)
             y == SubSeq(s, at + 1, Len(s))
  <2>3. /\ x \in Seq(Bytes) /\ y \in Seq(Bytes) /\ Len(x) = at - 1 /\ Len(y) = Len(s) - at
        /\ RemoveDone(s) = x \o y
    BY <1>2, <1>3, <2>1, <2>2
  <2> HIDE DEF x, y
  <2>4. /\ x \o y \in Seq(Bytes) /\ Len(x \o y) = Len(s) - 1
        /\ \A i \in 1 .. Len(s) - 1 : (x \o y)[i] = IF i < at THEN x[i] ELSE y[i - at + 1]
    BY <2>3
  <2>5. \A i \in 1 .. Len(s) - 1 : IF i < at THEN x[i] = s[i] ELSE y[i - at + 1] = s[i + 1]
    BY <2>1, <2>2 DEF x, y
  <2> QED
    BY <2>3, <2>4, <2>5
<1>4. ASSUME \A i \in 1 .. Len(s) : s[i] # Done PROVE RemoveDone(s) = s
  BY <1>1, <1>4 DEF RemoveDone
<1> QED
  BY <1>3, <1>4

\* The gateway's closing part, token by token.
LEMMA EndingIs ==
    /\ Ending \in Seq(Bytes) /\ Len(Ending) = 7
    /\ Ending[1] = LF /\ Ending[2] = Decision /\ Ending[3] = LF /\ Ending[4] = LF
    /\ Ending[5] = Done /\ Ending[6] = LF /\ Ending[7] = LF
BY Marks DEF Ending

\* Two sequences, one after the other, place by place.
LEMMA Joined ==
    ASSUME NEW T, NEW x \in Seq(T), NEW y \in Seq(T)
    PROVE  /\ x \o y \in Seq(T) /\ Len(x \o y) = Len(x) + Len(y)
           /\ \A i \in 1 .. Len(x) + Len(y) :
                 (x \o y)[i] = IF i <= Len(x) THEN x[i] ELSE y[i - Len(x)]
OBVIOUS

\* How three sequences are joined does not matter.
LEMMA Associates ==
    ASSUME NEW T, NEW x \in Seq(T), NEW y \in Seq(T), NEW z \in Seq(T)
    PROVE  (x \o y) \o z = x \o (y \o z)
OBVIOUS

\* What the whole stream has where: data before two line feeds, one end marker, and the
\* provider's deltas where they were.
LEMMA WholeIs ==
    ASSUME PlainUpstream, NEW s \in Upstream
    PROVE  LET w == Whole(s)
               n == Len(w)
           IN  /\ w \in Seq(Bytes) /\ n \in Nat /\ Len(s) + 6 <= n
               /\ \A i \in 1 .. n :
                     \/ w[i] = LF
                     \/ /\ w[i] = Decision \/ w[i] = Done \/ w[i].is = "delta"
                        /\ i + 2 <= n /\ w[i + 1] = LF /\ w[i + 2] = LF
               /\ \A i \in 1 .. n : w[i] = Done <=> i = n - 2
               /\ \A i \in 1 .. n : w[i].is = "delta" => i <= Len(s) /\ s[i] = w[i]
               /\ \A i \in 1 .. Len(s) : s[i].is = "delta" => w[i] = s[i]
               /\ \A q \in 0 .. Len(s) : q = 0 \/ q <= Len(s) - TailTokens =>
                     /\ \A i \in 1 .. q : w[i] = s[i]
                     /\ w = SubSeq(s, 1, q) \o RemoveDone(SubSeq(s, q + 1, Len(s))) \o Ending
<1>a. PICK r : r = RemoveDone(s)
  OBVIOUS
<1>b. PICK w : w = Whole(s)
  OBVIOUS
<1>c. PICK L : L = Len(s)
  OBVIOUS
<1>d. PICK m : m = Len(r)
  OBVIOUS
<1>e. PICK n : n = Len(w)
  OBVIOUS
<1>1. s \in Seq(Bytes) /\ PlainStream(s) /\ L \in Nat /\ DOMAIN s = 1 .. L /\ TailTokens \in Nat
  BY <1>c, SourceIs DEF PlainUpstream
<1>2. /\ \A i \in 1 .. L : \/ s[i] = LF
                           \/ /\ s[i] = Done \/ s[i].is = "delta"
                              /\ i + 2 <= L /\ s[i + 1] = LF /\ s[i + 2] = LF
      /\ \A i \in 1 .. L : s[i] = Done => i > L - TailTokens /\ \A j \in 1 .. L : j > i => s[j] = LF
  BY <1>1, <1>c DEF PlainStream
<1>3. \A i, j \in 1 .. L : s[i] = Done /\ s[j] = Done => i = j
  BY <1>1, <1>2, Marks
<1>4. /\ r \in Seq(Bytes) /\ m \in Nat /\ m = Len(r)
      /\ (\A i \in 1 .. L : s[i] # Done) => r = s
      /\ \A at \in 1 .. L : s[at] = Done =>
            /\ m = L - 1 /\ \A i \in 1 .. L - 1 : r[i] = IF i < at THEN s[i] ELSE s[i + 1]
  <2>1. \A i, j \in 1 .. Len(s) : s[i] = Done /\ s[j] = Done => i = j
    BY <1>3, <1>c
  <2>2. /\ r \in Seq(Bytes)
        /\ (\A i \in 1 .. L : s[i] # Done) => r = s
        /\ \A at \in 1 .. L : s[at] = Done =>
              /\ Len(r) = L - 1
              /\ \A i \in 1 .. L - 1 : r[i] = IF i < at THEN s[i] ELSE s[i + 1]
    BY <1>1, <2>1, <1>a, <1>c, Removed
  <2> QED
    BY <2>2, <1>d
\* Up to a place the stream is as it was, after it there are but line feeds.
<1>5. \E a \in 0 .. L : /\ a <= m /\ \A i \in 1 .. a : r[i] = s[i] /\ s[i] # Done
                        /\ \A i \in 1 .. m : i > a => r[i] = LF
                        /\ \A i \in 1 .. L : i > a => s[i].is # "delta"
                        /\ \A i \in 1 .. a : s[i] # LF => i + 2 <= a
                        /\ m >= L - 1
                        /\ a = L \/ a + 1 > L - TailTokens
  <2>1. CASE \A i \in 1 .. L : s[i] # Done
    <3>0. r = s
      BY <1>4, <2>1
    <3>1. L \in 0 .. L /\ m = L
      BY <1>1, <1>c, <1>d, <3>0
    <3> QED
      BY <1>1, <1>2, <1>4, <2>1, <3>1, Marks
  <2>2. ASSUME NEW at \in 1 .. L, s[at] = Done
        PROVE  /\ at - 1 \in 0 .. L /\ at - 1 <= m /\ \A i \in 1 .. at - 1 : r[i] = s[i] /\ s[i] # Done
               /\ \A i \in 1 .. m : i > at - 1 => r[i] = LF
               /\ \A i \in 1 .. L : i > at - 1 => s[i].is # "delta"
               /\ \A i \in 1 .. at - 1 : s[i] # LF => i + 2 <= at - 1
               /\ m >= L - 1
               /\ at - 1 + 1 > L - TailTokens
    <3>1. m = L - 1 /\ \A i \in 1 .. L - 1 : r[i] = IF i < at THEN s[i] ELSE s[i + 1]
      BY <1>4, <2>2
    <3>2. at > L - TailTokens /\ \A j \in 1 .. L : j > at => s[j] = LF
      BY <1>2, <2>2
    <3>3. \A i \in 1 .. at - 1 : r[i] = s[i] /\ s[i] # Done
      BY <1>1, <1>3, <2>2, <3>1
    <3>4. \A i \in 1 .. m : i > at - 1 => r[i] = LF
      BY <1>1, <3>1, <3>2
    <3>5. \A i \in 1 .. L : i > at - 1 => s[i].is # "delta"
      BY <1>1, <2>2, <3>2, Marks
    <3>6. \A i \in 1 .. at - 1 : s[i] # LF => i + 2 <= at - 1
      <4> SUFFICES ASSUME NEW i \in 1 .. at - 1, s[i] # LF PROVE i + 2 <= at - 1
        OBVIOUS
      <4>1. i + 2 <= L /\ s[i + 1] = LF /\ s[i + 2] = LF
        BY <1>1, <1>2
      <4>2. i + 1 # at /\ i + 2 # at
        BY <2>2, <4>1, Marks
      <4> QED
        BY <1>1, <4>2
    <3>7. /\ at - 1 \in 0 .. L /\ at - 1 <= m /\ m >= L - 1
          /\ at - 1 + 1 > L - TailTokens
      BY <1>1, <3>1, <3>2
    <3> QED
      BY <3>3, <3>4, <3>5, <3>6, <3>7
  <2> QED
    BY <2>1, <2>2
<1>6. PICK a \in 0 .. L : /\ a <= m /\ \A i \in 1 .. a : r[i] = s[i] /\ s[i] # Done
                          /\ \A i \in 1 .. m : i > a => r[i] = LF
                          /\ \A i \in 1 .. L : i > a => s[i].is # "delta"
                          /\ \A i \in 1 .. a : s[i] # LF => i + 2 <= a
                          /\ m >= L - 1
                          /\ a = L \/ a + 1 > L - TailTokens
  BY <1>5
<1>7. w = r \o Ending /\ m = Len(r) /\ n = Len(w)
  BY <1>a, <1>b, <1>d, <1>e DEF Whole
<1>8. /\ w \in Seq(Bytes) /\ n = m + 7 /\ n \in Nat
      /\ \A i \in 1 .. m : w[i] = r[i]
      /\ w[m + 1] = LF /\ w[m + 2] = Decision /\ w[m + 3] = LF /\ w[m + 4] = LF
      /\ w[m + 5] = Done /\ w[m + 6] = LF /\ w[m + 7] = LF
  <2>1. /\ w \in Seq(Bytes) /\ n = m + 7 /\ n \in Nat
        /\ \A i \in 1 .. m + 7 : w[i] = IF i <= m THEN r[i] ELSE Ending[i - m]
    <3>1. Len(r) + Len(Ending) = m + 7
      BY <1>4, EndingIs
    <3>2. /\ w \in Seq(Bytes) /\ Len(w) = Len(r) + Len(Ending)
          /\ \A i \in 1 .. Len(r) + Len(Ending) : w[i] = IF i <= Len(r) THEN r[i] ELSE Ending[i - Len(r)]
      <4>1. r \in Seq(Bytes) /\ Ending \in Seq(Bytes)
        BY <1>4, EndingIs
      <4> QED
        BY <1>7, <4>1, Joined
    <3> QED
      BY <1>4, <1>7, <3>1, <3>2
  <2>2. ASSUME NEW k \in 1 .. 7 PROVE w[m + k] = Ending[k]
    <3>1. m + k \in 1 .. m + 7 /\ ~(m + k <= m) /\ (m + k) - m = k
      BY <1>4
    <3> QED
      BY <2>1, <3>1
  <2>3. \A i \in 1 .. m : w[i] = r[i]
    BY <1>4, <2>1
  <2> QED
    BY <2>1, <2>2, <2>3, EndingIs
<1>9. \A i \in 1 .. n : \/ i \in 1 .. a /\ w[i] = s[i] /\ w[i] # Done
                        \/ i > a /\ i <= m /\ w[i] = LF
                        \/ i = m + 1 \/ i = m + 2 \/ i = m + 3 \/ i = m + 4
                        \/ i = m + 5 \/ i = m + 6 \/ i = m + 7
  <2> SUFFICES ASSUME NEW i \in 1 .. n, i <= m
               PROVE  \/ i \in 1 .. a /\ w[i] = s[i] /\ w[i] # Done
                      \/ i > a /\ i <= m /\ w[i] = LF
    BY <1>4, <1>8
  <2> QED
    BY <1>1, <1>4, <1>6, <1>8
<1>10. m \in Nat /\ n = m + 7 /\ a \in Nat /\ a <= m
  BY <1>1, <1>4, <1>6, <1>8
<1>f. /\ w[m + 1] = LF /\ w[m + 2] = Decision /\ w[m + 3] = LF /\ w[m + 4] = LF
      /\ w[m + 5] = Done /\ w[m + 6] = LF /\ w[m + 7] = LF
  BY <1>8
<1>11. \A i \in 1 .. n :
          \/ w[i] = LF
          \/ /\ w[i] = Decision \/ w[i] = Done \/ w[i].is = "delta"
             /\ i + 2 <= n /\ w[i + 1] = LF /\ w[i + 2] = LF
  <2> SUFFICES ASSUME NEW i \in 1 .. n, w[i] # LF
               PROVE  /\ w[i] = Decision \/ w[i] = Done \/ w[i].is = "delta"
                      /\ i + 2 <= n /\ w[i + 1] = LF /\ w[i + 2] = LF
    OBVIOUS
  <2>1. CASE i \in 1 .. a /\ w[i] = s[i] /\ w[i] # Done
    <3>1. i \in 1 .. L /\ i + 2 <= a
      BY <1>1, <1>6, <2>1
    <3>2. s[i].is = "delta" /\ s[i + 1] = LF /\ s[i + 2] = LF
      BY <1>2, <2>1, <3>1
    <3>3. i + 1 \in 1 .. n /\ i + 2 \in 1 .. n /\ i + 1 \in 1 .. a /\ i + 2 \in 1 .. a
          /\ i + 1 \in 1 .. m /\ i + 2 \in 1 .. m
      BY <1>10, <3>1
    <3>4. \A j \in 1 .. a : j \in 1 .. m => w[j] = s[j]
      BY <1>6, <1>8
    <3>5. w[i + 1] = LF /\ w[i + 2] = LF
      BY <3>2, <3>3, <3>4
    <3>6. i + 2 <= n
      BY <3>3
    <3> QED
      BY <2>1, <3>2, <3>5, <3>6
  <2>2. CASE i = m + 2
    <3>1. i + 1 = m + 3 /\ i + 2 = m + 4 /\ i + 2 <= n
      BY <1>10, <2>2
    <3>2. w[i] = Decision /\ w[i + 1] = LF /\ w[i + 2] = LF
      BY <1>f, <2>2, <3>1
    <3> QED
      BY <3>1, <3>2
  <2>3. CASE i = m + 5
    <3>1. i + 1 = m + 6 /\ i + 2 = m + 7 /\ i + 2 <= n
      BY <1>10, <2>3
    <3>2. w[i] = Done /\ w[i + 1] = LF /\ w[i + 2] = LF
      BY <1>f, <2>3, <3>1
    <3> QED
      BY <3>1, <3>2
  <2>4. \/ i \in 1 .. a /\ w[i] = s[i] /\ w[i] # Done
        \/ i = m + 2
        \/ i = m + 5
    BY <1>9, <1>f
  <2> QED
    BY <2>1, <2>2, <2>3, <2>4
<1>12. \A i \in 1 .. n : w[i] = Done <=> i = n - 2
  <2>1. n - 2 = m + 5
    BY <1>10
  <2>2. ASSUME NEW i \in 1 .. n, w[i] = Done PROVE i = n - 2
    <3>1. i = m + 5
      BY <1>9, <1>f, <2>2, Marks
    <3> QED
      BY <2>1, <3>1
  <2> QED
    BY <1>f, <2>1, <2>2
<1>13. \A i \in 1 .. n : w[i].is = "delta" => i <= L /\ s[i] = w[i]
  <2> SUFFICES ASSUME NEW i \in 1 .. n, w[i].is = "delta" PROVE i <= L /\ s[i] = w[i]
    OBVIOUS
  <2>1. i \in 1 .. a /\ w[i] = s[i]
    BY <1>9, <1>f, Marks
  <2> QED
    BY <1>1, <2>1
<1>14. \A i \in 1 .. L : s[i].is = "delta" => w[i] = s[i]
  <2> SUFFICES ASSUME NEW i \in 1 .. L, s[i].is = "delta" PROVE w[i] = s[i]
    OBVIOUS
  <2>1. i \in 1 .. a /\ i \in 1 .. m
    BY <1>1, <1>6, <1>10
  <2> QED
    BY <1>6, <1>8, <2>1
<1>15. ASSUME NEW q \in 0 .. L, q = 0 \/ q <= L - TailTokens
       PROVE  /\ \A i \in 1 .. q : w[i] = s[i]
              /\ w = SubSeq(s, 1, q) \o RemoveDone(SubSeq(s, q + 1, L)) \o Ending
  <2> DEFINE x == SubSeq(s, 1, q)
             y == SubSeq(s, q + 1, L)
             z == RemoveDone(y)
  <2>1. q <= a
    BY <1>1, <1>6, <1>15
  <2>2. \A i \in 1 .. q : w[i] = s[i] /\ r[i] = s[i]
    <3> SUFFICES ASSUME NEW i \in 1 .. q PROVE w[i] = s[i] /\ r[i] = s[i]
      OBVIOUS
    <3>1. i \in 1 .. a /\ i \in 1 .. m
      BY <1>1, <1>6, <1>10, <2>1
    <3> QED
      BY <1>6, <1>8, <3>1
  <2>3. /\ x \in Seq(Bytes) /\ Len(x) = q /\ \A i \in 1 .. q : x[i] = s[i]
        /\ y \in Seq(Bytes) /\ Len(y) = L - q /\ \A i \in 1 .. L - q : y[i] = s[q + i]
    BY <1>1
  <2> HIDE DEF x, y
  <2>4. \A i, j \in 1 .. Len(y) : y[i] = Done /\ y[j] = Done => i = j
    <3> SUFFICES ASSUME NEW i \in 1 .. L - q, NEW j \in 1 .. L - q, s[q + i] = Done, s[q + j] = Done
                 PROVE  i = j
      BY <2>3
    <3>1. q + i \in 1 .. L /\ q + j \in 1 .. L
      BY <1>1
    <3>2. q + i = q + j
      BY <1>3, <3>1
    <3> QED
      BY <3>2
  <2>5. /\ z \in Seq(Bytes)
        /\ (\A i \in 1 .. Len(y) : y[i] # Done) => z = y
        /\ \A at \in 1 .. Len(y) : y[at] = Done =>
              /\ Len(z) = Len(y) - 1
              /\ \A i \in 1 .. Len(y) - 1 : z[i] = IF i < at THEN y[i] ELSE y[i + 1]
    BY <2>3, <2>4, Removed
  <2> HIDE DEF z
  <2>6. Len(z) = m - q /\ \A i \in 1 .. m - q : z[i] = r[q + i]
    <3>1. CASE \A i \in 1 .. L : s[i] # Done
      <4>1. \A i \in 1 .. Len(y) : y[i] # Done
        BY <1>1, <2>3, <3>1
      <4>2. z = y /\ r = s /\ m = L
        BY <1>4, <1>c, <2>5, <3>1, <4>1
      <4> QED
        BY <2>3, <4>2
    <3>2. ASSUME NEW at \in 1 .. L, s[at] = Done
          PROVE  Len(z) = m - q /\ \A i \in 1 .. m - q : z[i] = r[q + i]
      <4>1. at > q
        BY <1>1, <1>6, <2>1, <3>2
      <4>2. at - q \in 1 .. Len(y) /\ y[at - q] = Done
        BY <1>1, <2>3, <3>2, <4>1
      <4>3. /\ Len(z) = L - q - 1
            /\ \A i \in 1 .. L - q - 1 : z[i] = IF i < at - q THEN y[i] ELSE y[i + 1]
        BY <2>3, <2>5, <4>2
      <4>4. m = L - 1 /\ \A i \in 1 .. L - 1 : r[i] = IF i < at THEN s[i] ELSE s[i + 1]
        BY <1>4, <3>2
      <4>5. ASSUME NEW i \in 1 .. m - q PROVE z[i] = r[q + i]
        <5>1. /\ q + i \in 1 .. L - 1 /\ i \in 1 .. L - q - 1 /\ i \in 1 .. L - q
              /\ i + 1 \in 1 .. L - q /\ q + (i + 1) = q + i + 1
              /\ i < at - q <=> q + i < at
          BY <1>1, <4>4
        <5>2. y[i] = s[q + i] /\ y[i + 1] = s[q + i + 1]
          BY <2>3, <5>1
        <5> QED
          BY <4>3, <4>4, <5>1, <5>2
      <4> QED
        BY <1>1, <4>3, <4>4, <4>5
    <3> QED
      BY <3>1, <3>2
  <2>7. r = x \o z
    <3>0. Len(x) + Len(z) = m
      BY <1>1, <1>10, <2>3, <2>6
    <3>1. /\ x \o z \in Seq(Bytes) /\ Len(x \o z) = m
          /\ \A i \in 1 .. m : (x \o z)[i] = IF i <= q THEN x[i] ELSE z[i - q]
      <4>1. /\ x \o z \in Seq(Bytes) /\ Len(x \o z) = Len(x) + Len(z)
            /\ \A i \in 1 .. Len(x) + Len(z) : (x \o z)[i] = IF i <= Len(x) THEN x[i] ELSE z[i - Len(x)]
        BY <2>3, <2>5, Joined
      <4> QED
        BY <2>3, <3>0, <4>1
    <3>2. ASSUME NEW i \in 1 .. m PROVE r[i] = (x \o z)[i]
      <4>1. CASE i <= q
        <5>1. (x \o z)[i] = x[i] /\ i \in 1 .. q
          BY <1>1, <3>1, <4>1
        <5> QED
          BY <2>2, <2>3, <5>1
      <4>2. CASE i > q
        <5>1. i - q \in 1 .. m - q /\ q + (i - q) = i
          BY <1>1, <1>10, <4>2
        <5>2. (x \o z)[i] = z[i - q]
          BY <1>1, <1>10, <3>1, <4>2
        <5> QED
          BY <2>6, <5>1, <5>2
      <4> QED
        <5>1. i <= q \/ i > q
          BY <1>1, <1>10
        <5> QED
          BY <4>1, <4>2, <5>1
    <3>3. r \in Seq(Bytes) /\ Len(r) = m
      BY <1>4, <1>7
    <3> QED
      BY <3>1, <3>2, <3>3, SeqEqual
  <2> QED
    BY <1>7, <2>2, <2>7 DEF x, y, z
<1>16. L + 6 <= n
  BY <1>1, <1>6, <1>8, <1>10
<1> USE <1>b, <1>c, <1>e
<1>17. /\ w \in Seq(Bytes) /\ n \in Nat /\ Len(s) + 6 <= n
       /\ \A i \in 1 .. Len(s) : s[i].is = "delta" => w[i] = s[i]
  BY <1>8, <1>14, <1>16
<1> QED
  BY <1>11, <1>12, <1>13, <1>15, <1>17

\* What is cut off a buffer of such a stream at its first empty line: the data of one event
\* at most, and line feeds.
LEMMA CutIs ==
    ASSUME NEW s \in Seq(Bytes), EventEnds(s) # {},
           \A i \in 1 .. Len(s) :
              \/ s[i] = LF
              \/ /\ s[i] # CR
                 /\ i + 1 <= Len(s) => s[i + 1] = LF
                 /\ i + 2 <= Len(s) => s[i + 2] = LF
    PROVE  LET end == Min(EventEnds(s))
               x == DataOf(SubSeq(s, 1, end - 1))
               y == Stripped(SubSeq(s, end, Len(s)))
           IN  \E c \in 0 .. Len(s) :
                  /\ y \in Seq(Bytes) /\ Len(y) = Len(s) - c
                  /\ \A i \in 1 .. Len(y) : y[i] = s[c + i]
                  /\ \/ x = <<>> /\ \A i \in 1 .. c : s[i] = LF
                     \/ \E d \in 1 .. c : /\ x = <<s[d]>> /\ s[d] # LF
                                          /\ \A i \in 1 .. c : i # d => s[i] = LF
<1>a. PICK n : n = Len(s)
  OBVIOUS
<1>b. PICK e : e = Min(EventEnds(s))
  OBVIOUS
<1>c. PICK h : h = SubSeq(s, 1, e - 1)
  OBVIOUS
<1>d. PICK g : g = SubSeq(s, e, n)
  OBVIOUS
<1>1. n \in Nat /\ DOMAIN s = 1 .. n
  BY <1>a
<1>2. /\ e \in 1 .. n - 1 /\ s[e] = LF /\ s[e + 1] = LF
      /\ \A i \in 1 .. n - 1 : s[i] = LF /\ s[i + 1] = LF => e <= i
  <2>1. EventEnds(s) \in SUBSET (1 .. n)
    BY <1>1, <1>a DEF EventEnds
  <2>2. e \in EventEnds(s) /\ \A i \in EventEnds(s) : e <= i
    BY <1>1, <1>a, <1>b, <2>1, FirstAndLast
  <2> QED
    BY <1>a, <2>2 DEF EventEnds
\* No data stands before the end but that next to it.
<1>3. \A i \in 1 .. e - 1 : s[i] = LF \/ (s[i] # CR /\ i = e - 1)
  <2> SUFFICES ASSUME NEW i \in 1 .. e - 1, s[i] # LF PROVE s[i] # CR /\ i = e - 1
    OBVIOUS
  <2>1. i \in 1 .. n /\ i + 1 \in 1 .. n - 1 /\ i + 2 <= n /\ (i + 1) + 1 = i + 2
    BY <1>1, <1>2
  <2>2. s[i] # CR /\ s[i + 1] = LF /\ s[i + 2] = LF
    BY <1>1, <1>a, <2>1
  <2>3. e <= i + 1
    BY <1>2, <2>1, <2>2
  <2> QED
    BY <1>1, <1>2, <2>2, <2>3
<1>4. h \in Seq(Bytes) /\ Len(h) = e - 1 /\ \A i \in 1 .. e - 1 : h[i] = s[i]
  BY <1>1, <1>2, <1>a, <1>c
<1>5. \/ DataOf(h) = <<>> /\ \A i \in 1 .. e - 1 : s[i] = LF
      \/ e - 1 \in 1 .. n /\ DataOf(h) = <<s[e - 1]>> /\ s[e - 1] # LF
         /\ \A i \in 1 .. e - 1 : i # e - 1 => s[i] = LF
  <2> DEFINE S == ToSet(h) \ {LF, CR}
  <2>1. \A i \in 1 .. e - 1 : h[i] \in S <=> s[i] # LF
    <3>1. \A i \in 1 .. e - 1 : h[i] \in ToSet(h)
      BY <1>4 DEF ToSet
    <3>2. LF \in {LF, CR}
      OBVIOUS
    <3> QED
      BY <1>3, <1>4, <3>1, Marks
  <2>2. Picked(h, S) = {i \in 1 .. e - 1 : s[i] # LF}
    BY <1>1, <1>2, <1>4, <2>1 DEF Picked
  <2> HIDE DEF S
  <2>3. CASE \A i \in 1 .. e - 1 : s[i] = LF
    <3>1. Picked(h, S) = {}
      BY <2>2, <2>3
    <3> QED
      BY <1>4, <2>3, <3>1, KeptFew DEF DataOf, S
  <2>4. ASSUME NEW j \in 1 .. e - 1, s[j] # LF
        PROVE  e - 1 \in 1 .. n /\ DataOf(h) = <<s[e - 1]>> /\ s[e - 1] # LF
               /\ \A i \in 1 .. e - 1 : i # e - 1 => s[i] = LF
    <3>1. j = e - 1 /\ \A i \in 1 .. e - 1 : i # e - 1 => s[i] = LF
      BY <1>3, <2>4
    <3>2. Picked(h, S) = {e - 1}
      BY <2>2, <2>4, <3>1
    <3>3. e - 1 \in 1 .. Len(h) /\ e - 1 \in 1 .. n
      BY <1>1, <1>2, <1>4, <2>4, <3>1
    <3>4. Kept(h, S) = <<h[e - 1]>>
      BY <1>4, <3>2, <3>3, KeptFew
    <3> QED
      BY <1>4, <2>4, <3>1, <3>3, <3>4 DEF DataOf, S
  <2> QED
    BY <2>3, <2>4
<1>6. g \in Seq(Bytes) /\ Len(g) = n - e + 1 /\ \A i \in 1 .. n - e + 1 : g[i] = s[e - 1 + i]
  BY <1>1, <1>2, <1>a, <1>d
\* What is stripped of the rest are line feeds.
<1>7. \E c \in e - 1 .. n : /\ Stripped(g) \in Seq(Bytes) /\ Len(Stripped(g)) = n - c
                            /\ \A i \in 1 .. n - c : Stripped(g)[i] = s[c + i]
                            /\ \A i \in e .. c : s[i] = LF
  <2> DEFINE D == {i \in DOMAIN g : g[i] \notin {LF, CR}}
  <2>1. DOMAIN g = 1 .. n - e + 1 /\ n - e + 1 \in Nat
    BY <1>1, <1>2, <1>6
  <2>2. \A i \in 1 .. n - e + 1 : i \in D <=> g[i] # LF
    <3> SUFFICES ASSUME NEW i \in 1 .. n - e + 1 PROVE g[i] = CR => FALSE
      BY <2>1
    <3>1. e - 1 + i \in 1 .. n
      BY <1>1, <1>2
    <3> QED
      BY <1>6, <1>a, <3>1, Marks
  <2>3. CASE D = {}
    <3>1. Stripped(g) = <<>>
      BY <2>3 DEF Stripped
    <3>2. ASSUME NEW i \in e .. n PROVE s[i] = LF
      <4>1. i - e + 1 \in 1 .. n - e + 1 /\ e - 1 + (i - e + 1) = i
        BY <1>1, <1>2
      <4> QED
        BY <1>6, <2>2, <2>3, <4>1
    <3>3. n \in e - 1 .. n
      BY <1>1, <1>2
    <3> QED
      BY <1>1, <3>1, <3>2, <3>3
  <2>4. CASE D # {}
    <3>a. PICK f : f = Min(D)
      OBVIOUS
    <3>1. D \in SUBSET (1 .. n - e + 1)
      BY <2>1
    <3>2. f \in D /\ \A i \in D : f <= i
      BY <2>1, <2>4, <3>1, <3>a, FirstAndLast
    <3>3. f \in 1 .. n - e + 1 /\ \A i \in 1 .. n - e + 1 : i < f => g[i] = LF
      BY <1>1, <1>2, <2>2, <3>1, <3>2
    <3>4. Stripped(g) = SubSeq(g, f, Len(g))
      BY <2>4, <3>a DEF Stripped
    <3>5. /\ Stripped(g) \in Seq(Bytes) /\ Len(Stripped(g)) = n - e + 1 - f + 1
          /\ \A i \in 1 .. n - e + 1 - f + 1 : Stripped(g)[i] = g[f - 1 + i]
      BY <1>1, <1>2, <1>6, <3>3, <3>4
    <3>b. PICK c : c = e + f - 2
      OBVIOUS
    <3>6. c \in e - 1 .. n /\ n - e + 1 - f + 1 = n - c
      BY <1>1, <1>2, <3>3, <3>b
    <3>7. ASSUME NEW i \in 1 .. n - c PROVE Stripped(g)[i] = s[c + i]
      <4>1. f - 1 + i \in 1 .. n - e + 1 /\ e - 1 + (f - 1 + i) = c + i
        BY <1>1, <1>2, <3>3, <3>b
      <4> QED
        BY <1>6, <3>5, <3>6, <4>1
    <3>8. ASSUME NEW i \in e .. c PROVE s[i] = LF
      <4>1. i - e + 1 \in 1 .. n - e + 1 /\ e - 1 + (i - e + 1) = i /\ i - e + 1 < f
        BY <1>1, <1>2, <3>3, <3>b
      <4> QED
        BY <1>6, <3>3, <4>1
    <3> QED
      BY <3>5, <3>6, <3>7, <3>8
  <2> QED
    BY <2>3, <2>4
<1>8. PICK c \in e - 1 .. n : /\ Stripped(g) \in Seq(Bytes) /\ Len(Stripped(g)) = n - c
                              /\ \A i \in 1 .. n - c : Stripped(g)[i] = s[c + i]
                              /\ \A i \in e .. c : s[i] = LF
  BY <1>7
<1>9. c \in 0 .. n
  BY <1>1, <1>2
<1>10. \/ DataOf(h) = <<>> /\ \A i \in 1 .. c : s[i] = LF
       \/ \E d \in 1 .. c : /\ DataOf(h) = <<s[d]>> /\ s[d] # LF
                            /\ \A i \in 1 .. c : i # d => s[i] = LF
  <2>1. \A i \in 1 .. c : i \in 1 .. e - 1 \/ i \in e .. c
    BY <1>1, <1>2
  <2>2. CASE DataOf(h) = <<>> /\ \A i \in 1 .. e - 1 : s[i] = LF
    BY <1>8, <2>1, <2>2
  <2>3. CASE /\ e - 1 \in 1 .. n /\ DataOf(h) = <<s[e - 1]>> /\ s[e - 1] # LF
             /\ \A i \in 1 .. e - 1 : i # e - 1 => s[i] = LF
    <3>1. e - 1 \in 1 .. c
      BY <1>1, <1>2, <2>3
    <3>2. \A i \in 1 .. c : i # e - 1 => s[i] = LF
      BY <1>8, <2>1, <2>3
    <3> QED
      BY <2>3, <3>1, <3>2
  <2> QED
    BY <1>5, <2>2, <2>3
<1> USE <1>a, <1>b, <1>c, <1>d
<1>11. /\ Stripped(g) \in Seq(Bytes) /\ Len(Stripped(g)) = n - c
       /\ \A i \in 1 .. Len(Stripped(g)) : Stripped(g)[i] = s[c + i]
  BY <1>8
<1> QED
  BY <1>9, <1>10, <1>11

\* finish_protocol_stream: every open block is stopped once, and then the answer is complete.
LEMMA ClosingIs ==
    ASSUME NEW client, NEW B, opened \subseteq B, IsFiniteSet(opened)
    PROVE  LET c == Closing(client)
               n == Len(c)
           IN  /\ c \in Seq([event : {"stop"}, block : B] \cup {[event |-> "complete"]})
               /\ n >= 1 /\ c[n] = [event |-> "complete"]
               /\ \A i \in 1 .. n : i # n => c[i].event = "stop"
               /\ client = "anthropic" =>
                     \A b \in opened : \E k \in 1 .. n - 1 :
                        \A i \in 1 .. n : (c[i].event = "stop" /\ c[i].block = b) <=> i = k
<1> DEFINE stop(b) == [event |-> "stop", block |-> b]
           S == {stop(b) : b \in opened}
           N == Cardinality(S)
           last == [event |-> "complete"]
           U == [event : {"stop"}, block : B] \cup {last}
<1>1. PICK q \in Seq(U) :
          /\ Closing(client) = q \o <<last>>
          /\ \A i \in 1 .. Len(q) : q[i].event = "stop"
          /\ client = "anthropic" =>
                \A b \in opened : \E k \in 1 .. Len(q) : \A i \in 1 .. Len(q) : q[i].block = b <=> i = k
  <2>1. CASE client = "anthropic"
    <3>1. IsFiniteSet(S)
      <4> DEFINE f == [b \in opened |-> stop(b)]
      <4>1. f \in Surjection(opened, S)
        BY DEF Surjection
      <4> QED
        BY <4>1, FS_Surjection
    <3>2. N \in Nat
      BY <3>1, FS_CardinalityType
    <3> DEFINE q == SetToSeq(S)
    <3>3. q \in Injection(1 .. N, S)
      <4>1. PICK f : f \in Bijection(1 .. N, S)
        BY <3>1, FS_CardinalityType DEF ExistsBijection
      <4>2. f \in [1 .. N -> S] /\ IsInjective(f)
        BY <4>1 DEF Bijection, Injection
      <4>3. q \in [1 .. N -> S] /\ IsInjective(q)
        BY <4>2 DEF SetToSeq
      <4> QED
        BY <4>3 DEF Injection
    <3>4. /\ q \in [1 .. N -> S] /\ \A i, j \in 1 .. N : q[i] = q[j] => i = j
          /\ \A x \in S : \E i \in 1 .. N : q[i] = x
      <4>1. Cardinality(1 .. N) = N
        BY <3>2, FS_Interval
      <4>2. q \in Surjection(1 .. N, S)
        BY <3>1, <3>3, <4>1, FS_Injection
      <4> QED
        BY <3>3, <4>2 DEF Injection, IsInjective, Surjection
    <3>5. Closing(client) = q \o <<last>>
      BY <2>1 DEF Closing
    <3>6. S \subseteq U
      OBVIOUS
    <3> HIDE DEF q, N
    <3>7. \A i \in 1 .. N : \E b \in opened : q[i] = stop(b)
      BY <3>4
    <3>11. \A b \in opened : stop(b).event = "stop" /\ stop(b).block = b
      OBVIOUS
    <3> HIDE DEF S, U, stop
    <3>8. q \in Seq(U) /\ Len(q) = N
      <4>1. q \in [1 .. N -> U]
        BY <3>4, <3>6
      <4> QED
        BY <3>2, <4>1, SeqDef
    <3>9. ASSUME NEW b \in opened
          PROVE  \E k \in 1 .. N : \A i \in 1 .. N : q[i].block = b <=> i = k
      <4>1. stop(b) \in S
        BY DEF S
      <4>2. PICK k \in 1 .. N : q[k] = stop(b)
        BY <3>4, <4>1
      <4>3. ASSUME NEW i \in 1 .. N, q[i].block = b PROVE i = k
        <5>1. q[i] = stop(b)
          BY <3>7, <3>11, <4>3
        <5> QED
          BY <3>4, <4>2, <5>1
      <4> QED
        BY <3>11, <4>2, <4>3
    <3>10. \A i \in 1 .. N : q[i].event = "stop"
      BY <3>7, <3>11
    <3>12. /\ q \in Seq(U) /\ Closing(client) = q \o <<last>>
           /\ \A i \in 1 .. Len(q) : q[i].event = "stop"
           /\ \A b \in opened : \E k \in 1 .. Len(q) : \A i \in 1 .. Len(q) : q[i].block = b <=> i = k
      BY <3>5, <3>8, <3>9, <3>10
    <3> HIDE DEF last
    <3> QED
      BY <3>12
  <2>2. CASE client # "anthropic"
    <3> DEFINE q == <<>>
    <3>1. q \in Seq(U) /\ Len(q) = 0 /\ 1 .. Len(q) = {}
      BY DEF U
    <3>2. Closing(client) = q \o <<last>>
      BY <2>2 DEF Closing
    <3> HIDE DEF q, U
    <3> QED
      BY <2>2, <3>1, <3>2
  <2> QED
    BY <2>1, <2>2
<1>2. last \in U /\ <<last>> \in Seq(U) /\ Len(<<last>>) = 1 /\ <<last>>[1] = last
  OBVIOUS
<1>a. PICK c : c = Closing(client)
  OBVIOUS
<1>b. PICK n : n = Len(q) + 1
  OBVIOUS
<1> HIDE DEF last, U
<1>3. /\ c \in Seq(U) /\ Len(c) = n /\ n \in Nat /\ n >= 1
      /\ \A i \in 1 .. n : c[i] = IF i < n THEN q[i] ELSE last
  <2>1. /\ c \in Seq(U) /\ Len(c) = Len(q) + Len(<<last>>)
        /\ \A i \in 1 .. Len(q) + Len(<<last>>) :
              c[i] = IF i <= Len(q) THEN q[i] ELSE <<last>>[i - Len(q)]
    BY <1>1, <1>2, <1>a, Joined
  <2>2. n = Len(q) + Len(<<last>>) /\ Len(q) \in Nat
    BY <1>2, <1>b
  <2>3. ASSUME NEW i \in 1 .. n PROVE c[i] = IF i < n THEN q[i] ELSE last
    <3>1. CASE i < n
      BY <1>b, <2>1, <2>2, <3>1
    <3>2. CASE i = n
      <4>1. i - Len(q) = 1 /\ ~(i <= Len(q))
        BY <1>b, <2>2, <3>2
      <4> QED
        BY <1>2, <2>1, <2>2, <3>2, <4>1
    <3> QED
      BY <2>2, <3>1, <3>2
  <2> QED
    BY <1>b, <2>1, <2>2, <2>3
<1>4. last.event = "complete"
  BY DEF last
<1>5. \A i \in 1 .. n : i # n => c[i].event = "stop"
  BY <1>1, <1>3, <1>b
<1>6. c[n] = last
  BY <1>3
<1>7. ASSUME client = "anthropic", NEW b \in opened
      PROVE  \E k \in 1 .. n - 1 : \A i \in 1 .. n : (c[i].event = "stop" /\ c[i].block = b) <=> i = k
  <2>1. PICK k \in 1 .. Len(q) : \A i \in 1 .. Len(q) : q[i].block = b <=> i = k
    BY <1>1, <1>7
  <2>2. k \in 1 .. n - 1 /\ \A i \in 1 .. n - 1 : i \in 1 .. Len(q) /\ c[i] = q[i]
    BY <1>3, <1>b
  <2>3. \A i \in 1 .. n : i = n \/ i \in 1 .. n - 1
    BY <1>3
  <2>4. n # k
    BY <1>3, <2>2
  <2> QED
    BY <1>4, <1>5, <1>6, <2>1, <2>2, <2>3, <2>4
<1> QED
  BY <1>3, <1>5, <1>6, <1>7, <1>a DEF last, U

\* The deltas of a stretch, in any order they are picked in.
LEMMA DeltasPicked ==
    ASSUME NEW s \in Seq(Bytes)
    PROVE  Picked(s, {b \in ToSet(s) : b.is = "delta"}) = {i \in 1 .. Len(s) : s[i].is = "delta"}
BY DEF Picked, ToSet

\* Line feeds and marks cut add no delta,
LEMMA DeltasSame ==
    ASSUME NEW s \in Seq(Bytes), NEW t \in Seq(Bytes),
           \A i \in 1 .. Len(s) : s[i].is = "delta" => i <= Len(t) /\ t[i] = s[i],
           \A i \in 1 .. Len(t) : t[i].is = "delta" => i <= Len(s) /\ t[i] = s[i]
    PROVE  Deltas(t) = Deltas(s)
<1>1. {i \in 1 .. Len(t) : t[i].is = "delta"} = {i \in 1 .. Len(s) : s[i].is = "delta"}
  OBVIOUS
<1> DEFINE S == {b \in ToSet(s) : b.is = "delta"}
           R == {b \in ToSet(t) : b.is = "delta"}
<1>2. Picked(t, R) = Picked(s, S) /\ \A i \in Picked(s, S) : t[i] = s[i]
  BY <1>1, DeltasPicked
<1> HIDE DEF S, R
<1>3. Kept(t, R) = Kept(s, S)
  BY <1>2, KeptSame
<1> QED
  BY <1>3 DEF Deltas, S, R

\* and a delta cut is one more.
LEMMA DeltasMore ==
    ASSUME NEW s \in Seq(Bytes), NEW t \in Seq(Bytes), NEW d \in 1 .. Len(t), t[d].is = "delta",
           Len(s) < d, \A i \in 1 .. Len(s) : t[i] = s[i],
           \A i \in 1 .. Len(t) : i > Len(s) /\ i # d => t[i].is # "delta"
    PROVE  /\ Len(Deltas(t)) = Len(Deltas(s)) + 1
           /\ Deltas(t)[Len(Deltas(s)) + 1] = t[d]
           /\ \A k \in 1 .. Len(Deltas(s)) : Deltas(t)[k] = Deltas(s)[k]
<1>1. {i \in 1 .. Len(t) : t[i].is = "delta"} = {i \in 1 .. Len(s) : s[i].is = "delta"} \cup {d}
  OBVIOUS
<1> DEFINE S == {b \in ToSet(s) : b.is = "delta"}
           R == {b \in ToSet(t) : b.is = "delta"}
<1>2. Picked(t, R) = Picked(s, S) \cup {d} /\ \A i \in Picked(s, S) : i < d /\ t[i] = s[i]
  BY <1>1, DeltasPicked
<1> HIDE DEF S, R
<1>3. /\ Len(Kept(t, R)) = Len(Kept(s, S)) + 1
      /\ Kept(t, R)[Len(Kept(s, S)) + 1] = t[d]
      /\ \A k \in 1 .. Len(Kept(s, S)) : Kept(t, R)[k] = Kept(s, S)[k]
  BY <1>2, KeptMore
<1> QED
  BY <1>3 DEF Deltas, S, R

\* What the client is sent: what opens and closes blocks, and the deltas of the provider.
Blocks == {b.block : b \in DeltaBytes}
DeltaEvents == {[event |-> "delta", block |-> b.block, n |-> b.n] : b \in DeltaBytes}
Events == [event : {"decision", "complete"}] \cup [event : {"start", "stop"}, block : Blocks]
          \cup DeltaEvents
ShownOf(ev) == Kept(ev, {e \in ToSet(ev) : e.event = "delta"})

\* The deltas among the client's events.
LEMMA ShownPicked ==
    ASSUME NEW s \in Seq(Events)
    PROVE  Picked(s, {e \in ToSet(s) : e.event = "delta"}) = {i \in 1 .. Len(s) : s[i].event = "delta"}
BY DEF Picked, ToSet

\* What opens and closes blocks shows no delta,
LEMMA ShownSame ==
    ASSUME NEW s \in Seq(Events), NEW more \in Seq(Events),
           \A i \in 1 .. Len(more) : more[i].event # "delta"
    PROVE  ShownOf(s \o more) = ShownOf(s)
<1>a. PICK t : t = s \o more
  OBVIOUS
<1>0. /\ t \in Seq(Events) /\ Len(t) = Len(s) + Len(more)
      /\ \A i \in 1 .. Len(s) + Len(more) : t[i] = IF i <= Len(s) THEN s[i] ELSE more[i - Len(s)]
  BY <1>a, Joined
<1>1. {i \in 1 .. Len(t) : t[i].event = "delta"} = {i \in 1 .. Len(s) : s[i].event = "delta"}
  <2> SUFFICES ASSUME NEW i \in 1 .. Len(s) + Len(more), i > Len(s) PROVE t[i].event # "delta"
    BY <1>0
  <2>1. i - Len(s) \in 1 .. Len(more)
    OBVIOUS
  <2> QED
    BY <1>0, <2>1
<1> DEFINE S == {b \in ToSet(s) : b.event = "delta"}
           R == {b \in ToSet(t) : b.event = "delta"}
<1>2. Picked(t, R) = Picked(s, S) /\ \A i \in Picked(s, S) : t[i] = s[i]
  <2>1. Picked(t, R) = Picked(s, S) /\ Picked(s, S) = {i \in 1 .. Len(s) : s[i].event = "delta"}
    BY <1>0, <1>1, ShownPicked
  <2> QED
    BY <1>0, <2>1
<1> HIDE DEF S, R
<1>3. Kept(t, R) = Kept(s, S)
  BY <1>2, KeptSame
<1> QED
  BY <1>3, <1>a DEF ShownOf, S, R

\* and a delta is shown once, after those before it.
LEMMA ShownMore ==
    ASSUME NEW s \in Seq(Events), NEW e \in Events, e.event = "delta"
    PROVE  /\ Len(ShownOf(s \o <<e>>)) = Len(ShownOf(s)) + 1
           /\ ShownOf(s \o <<e>>)[Len(ShownOf(s)) + 1] = e
           /\ \A k \in 1 .. Len(ShownOf(s)) : ShownOf(s \o <<e>>)[k] = ShownOf(s)[k]
<1>a. PICK t : t = s \o <<e>>
  OBVIOUS
<1>b. PICK d : d = Len(s) + 1
  OBVIOUS
<1>0. /\ t \in Seq(Events) /\ Len(t) = d /\ d \in 1 .. Len(t) /\ t[d] = e
      /\ \A i \in 1 .. Len(s) : t[i] = s[i]
  BY <1>a, <1>b
<1>1. {i \in 1 .. Len(t) : t[i].event = "delta"} = {i \in 1 .. Len(s) : s[i].event = "delta"} \cup {d}
  BY <1>0, <1>b
<1> DEFINE S == {b \in ToSet(s) : b.event = "delta"}
           R == {b \in ToSet(t) : b.event = "delta"}
<1>2. Picked(t, R) = Picked(s, S) \cup {d} /\ \A i \in Picked(s, S) : i < d /\ t[i] = s[i]
  <2>1. Picked(t, R) = Picked(s, S) \cup {d} /\ Picked(s, S) = {i \in 1 .. Len(s) : s[i].event = "delta"}
    BY <1>0, <1>1, ShownPicked
  <2> QED
    BY <1>0, <1>b, <2>1
<1> HIDE DEF S, R
<1>3. /\ Len(Kept(t, R)) = Len(Kept(s, S)) + 1
      /\ Kept(t, R)[Len(Kept(s, S)) + 1] = t[d]
      /\ \A k \in 1 .. Len(Kept(s, S)) : Kept(t, R)[k] = Kept(s, S)[k]
  BY <1>0, <1>2, KeptMore
<1> QED
  BY <1>0, <1>3, <1>a DEF ShownOf, S, R

\* s is the stretch of w after its first p places.
StretchOf(s, w, p) == \A i \in 1 .. Len(s) : s[i] = w[p + i]

\* A stretch of a sequence and the one after it are one stretch.
LEMMA Extended ==
    ASSUME NEW s \in Seq(Bytes), NEW x \in Seq(Bytes), NEW w, NEW p \in Nat,
           StretchOf(s, w, p), StretchOf(x, w, p + Len(s))
    PROVE  /\ s \o x \in Seq(Bytes) /\ Len(s \o x) = Len(s) + Len(x)
           /\ StretchOf(s \o x, w, p)
<1>1. /\ s \o x \in Seq(Bytes) /\ Len(s \o x) = Len(s) + Len(x)
      /\ \A i \in 1 .. Len(s) + Len(x) :
            (s \o x)[i] = IF i <= Len(s) THEN s[i] ELSE x[i - Len(s)]
  BY Joined
<1>2. ASSUME NEW i \in 1 .. Len(s) + Len(x) PROVE (s \o x)[i] = w[p + i]
  <2>1. CASE i <= Len(s)
    BY <1>1, <2>1 DEF StretchOf
  <2>2. CASE ~(i <= Len(s))
    <3>a. PICK j : j = i - Len(s)
      OBVIOUS
    <3>1. j \in 1 .. Len(x) /\ p + Len(s) + j = p + i
      BY <2>2, <3>a
    <3> QED
      BY <1>1, <2>2, <3>1, <3>a DEF StretchOf
  <2> QED
    BY <2>1, <2>2 DEF StretchOf
<1> QED
  BY <1>1, <1>2 DEF StretchOf

\* A stretch of a sequence, place by place.
LEMMA Stretch ==
    ASSUME NEW T, NEW s \in Seq(T), NEW a \in 0 .. Len(s), NEW b \in a .. Len(s)
    PROVE  /\ SubSeq(s, a + 1, b) \in Seq(T) /\ Len(SubSeq(s, a + 1, b)) = b - a
           /\ \A i \in 1 .. b - a : SubSeq(s, a + 1, b)[i] = s[a + i]
OBVIOUS

\* How much of what the stream becomes has been passed to the translator,
Passed == IF link = "ended" THEN Len(Whole(source)) ELSE arrived - Len(tail)

\* which has cut the first p tokens of it: the buffer is the rest.
Buffered(p) ==
    /\ p \in Nat /\ buffer \in Seq(Bytes) /\ Passed = p + Len(buffer)
    /\ \A i \in 1 .. Len(buffer) : buffer[i] = Whole(source)[p + i]

\* What is held back is the last that arrived.
HeldBack ==
    /\ source \in Upstream /\ link \in {"open", "ended", "broken"}
    /\ arrived \in 0 .. Len(source)
    /\ tail \in Seq(Bytes) /\ Len(tail) <= arrived
    /\ link # "ended" =>
          /\ \A i \in 1 .. Len(tail) : tail[i] = source[arrived - Len(tail) + i]
          /\ arrived - Len(tail) = 0 \/ arrived - Len(tail) <= Len(source) - TailTokens

\* What arrives is held back or passed on, in order.
LEMMA ArriveFlows ==
    ASSUME PlainUpstream, NEW p, HeldBack, Buffered(p), NEW k \in 1 .. Len(source), Arrive(k)
    PROVE  HeldBack' /\ Buffered(p)'
<1>a. PICK w : w = Whole(source)
  OBVIOUS
<1>b. PICK L : L = Len(source)
  OBVIOUS
<1>c. PICK m : m = Len(tail)
  OBVIOUS
<1>d. PICK q : q = arrived - m
  OBVIOUS
<1>e. PICK new : new = SubSeq(source, arrived + 1, arrived + k)
  OBVIOUS
<1>f. PICK all : all = tail \o new
  OBVIOUS
<1>g. PICK emit : emit = IF Len(all) > TailTokens THEN Len(all) - TailTokens ELSE 0
  OBVIOUS
<1>h. PICK x : x = SubSeq(all, 1, emit)
  OBVIOUS
<1>i. PICK y : y = SubSeq(all, emit + 1, Len(all))
  OBVIOUS
<1>0. link = "open" /\ arrived + k <= L /\ TailTokens \in Nat
  BY <1>b DEF Arrive, PlainUpstream
<1>1. /\ source \in Upstream /\ source \in Seq(Bytes) /\ L \in Nat
      /\ k \in 1 .. L /\ arrived \in 0 .. L /\ m <= arrived /\ m \in Nat /\ q \in Nat /\ arrived = q + m
      /\ tail \in Seq(Bytes)
  <2>1. source \in Upstream /\ arrived \in 0 .. L /\ m <= arrived /\ tail \in Seq(Bytes)
    BY <1>b, <1>c DEF HeldBack
  <2>2. source \in Seq(Bytes) /\ L \in Nat
    BY <1>b, <2>1, SourceIs
  <2>3. m \in Nat
    BY <1>c, <2>1
  <2> QED
    BY <1>b, <1>d, <2>1, <2>2, <2>3
<1>2. /\ \A i \in 1 .. m : tail[i] = source[q + i]
      /\ q = 0 \/ q <= L - TailTokens
  BY <1>0, <1>b, <1>c, <1>d DEF HeldBack
<1>3. /\ p \in Nat /\ buffer \in Seq(Bytes) /\ q = p + Len(buffer)
      /\ \A i \in 1 .. Len(buffer) : buffer[i] = w[p + i]
  BY <1>0, <1>a, <1>c, <1>d DEF Buffered, Passed
<1>4. new \in Seq(Bytes) /\ Len(new) = k /\ \A i \in 1 .. k : new[i] = source[arrived + i]
  <2>1. arrived + k \in arrived .. L /\ (arrived + k) - arrived = k
    BY <1>0, <1>1
  <2> QED
    BY <1>1, <1>b, <1>e, <2>1, Stretch
<1>5. /\ all \in Seq(Bytes) /\ Len(all) = m + k
      /\ \A i \in 1 .. m + k : all[i] = source[q + i]
  <2>1. StretchOf(new, source, q + Len(tail))
    BY <1>1, <1>4, <1>c DEF StretchOf
  <2>2. StretchOf(tail, source, q)
    BY <1>2, <1>c DEF StretchOf
  <2>3. tail \in Seq(Bytes) /\ new \in Seq(Bytes) /\ q \in Nat
    BY <1>1, <1>4
  <2>4. /\ all \in Seq(Bytes) /\ Len(all) = Len(tail) + Len(new)
        /\ StretchOf(all, source, q)
    BY <1>f, <2>1, <2>2, <2>3, Extended
  <2> QED
    BY <1>4, <1>c, <2>4 DEF StretchOf
<1>6. emit \in 0 .. m + k /\ (emit = 0 \/ emit = m + k - TailTokens)
  BY <1>0, <1>1, <1>5, <1>g
<1>7. q + emit \in 0 .. L /\ (q + emit = 0 \/ q + emit <= L - TailTokens)
  BY <1>0, <1>1, <1>2, <1>6
<1>8. /\ x \in Seq(Bytes) /\ Len(x) = emit /\ \A i \in 1 .. emit : x[i] = all[i]
      /\ y \in Seq(Bytes) /\ Len(y) = m + k - emit
      /\ \A i \in 1 .. m + k - emit : y[i] = all[emit + i]
  <2>1. 0 \in 0 .. Len(all) /\ emit \in 0 .. Len(all) /\ Len(all) \in emit .. Len(all)
    BY <1>1, <1>5, <1>6
  <2>2. /\ SubSeq(all, 0 + 1, emit) \in Seq(Bytes) /\ Len(SubSeq(all, 0 + 1, emit)) = emit - 0
        /\ \A i \in 1 .. emit - 0 : SubSeq(all, 0 + 1, emit)[i] = all[0 + i]
    BY <1>5, <2>1, Stretch
  <2>3. x \in Seq(Bytes) /\ Len(x) = emit /\ \A i \in 1 .. emit : x[i] = all[i]
    BY <1>6, <1>h, <2>2
  <2>4. /\ y \in Seq(Bytes) /\ Len(y) = Len(all) - emit
        /\ \A i \in 1 .. Len(all) - emit : y[i] = all[emit + i]
    BY <1>5, <1>i, <2>1, Stretch
  <2>5. Len(all) = m + k
    BY <1>5
  <2>6. Len(all) - emit = m + k - emit
    BY <1>1, <1>6, <2>5
  <2>7. Len(y) = m + k - emit /\ \A i \in 1 .. m + k - emit : y[i] = all[emit + i]
    BY <2>4, <2>6, Zenon
  <2> QED
    BY <2>3, <2>4, <2>7
<1>9. /\ buffer' = buffer \o x /\ tail' = y /\ arrived' = arrived + k
      /\ source' = source /\ link' = link
  BY <1>e, <1>f, <1>g, <1>h, <1>i DEF Arrive
<1>10. \A i \in 1 .. q + emit : w[i] = source[i]
  BY <1>1, <1>7, <1>a, <1>b, WholeIs
<1>11. /\ buffer' \in Seq(Bytes) /\ Len(buffer') = Len(buffer) + emit
       /\ \A i \in 1 .. Len(buffer') : buffer'[i] = w[p + i]
  <2>1. StretchOf(x, w, p + Len(buffer))
    <3> SUFFICES ASSUME NEW i \in 1 .. Len(x) PROVE x[i] = w[p + Len(buffer) + i]
      BY DEF StretchOf
    <3>1. i \in 1 .. emit /\ i \in 1 .. m + k /\ q + i \in 1 .. q + emit
      BY <1>1, <1>6, <1>8
    <3>2. x[i] = w[q + i]
      BY <1>5, <1>8, <1>10, <3>1
    <3> QED
      BY <1>3, <3>2
  <2>2. buffer \in Seq(Bytes) /\ x \in Seq(Bytes) /\ p \in Nat
    BY <1>3, <1>8
  <2>3. Len(x) = emit /\ buffer' = buffer \o x
    BY <1>8, <1>9
  <2>4. StretchOf(buffer, w, p)
    BY <1>3 DEF StretchOf
  <2>5. /\ buffer \o x \in Seq(Bytes) /\ Len(buffer \o x) = Len(buffer) + Len(x)
        /\ StretchOf(buffer \o x, w, p)
    BY <2>1, <2>2, <2>4, Extended
  <2> QED
    BY <2>3, <2>5 DEF StretchOf
<1>12. /\ arrived' \in 0 .. L /\ Len(tail') <= arrived' /\ arrived' - Len(tail') = q + emit
  <2>1. Len(tail') = m + k - emit /\ arrived' = arrived + k
    BY <1>8, <1>9
  <2> QED
    BY <1>0, <1>1, <1>6, <2>1
<1>13. ASSUME NEW i \in 1 .. Len(tail') PROVE tail'[i] = source[q + emit + i]
  <2>1. i \in 1 .. m + k - emit /\ emit + i \in 1 .. m + k /\ q + (emit + i) = q + emit + i
    BY <1>1, <1>6, <1>8, <1>9
  <2> QED
    BY <1>5, <1>8, <1>9, <2>1
<1>14. Passed' = p + Len(buffer')
  <2>1. Passed' = arrived' - Len(tail')
    BY <1>0, <1>9 DEF Passed
  <2>2. q = p + Len(buffer) /\ Len(buffer) \in Nat /\ p \in Nat
    BY <1>3
  <2>3. Len(buffer') = Len(buffer) + emit /\ arrived' - Len(tail') = q + emit /\ emit \in Int
    BY <1>1, <1>6, <1>11, <1>12
  <2> QED
    BY <2>1, <2>2, <2>3
<1>15. HeldBack'
  BY <1>0, <1>1, <1>7, <1>8, <1>9, <1>12, <1>13, <1>b DEF HeldBack
<1>16. Buffered(p)'
  BY <1>3, <1>9, <1>11, <1>14, <1>a DEF Buffered
<1> QED
  BY <1>15, <1>16

\* At its end the stream is passed on as a whole.
LEMMA FinishFlows ==
    ASSUME PlainUpstream, NEW p, HeldBack, Buffered(p), Finish
    PROVE  HeldBack' /\ Buffered(p)'
<1>a. PICK w : w = Whole(source)
  OBVIOUS
<1>b. PICK L : L = Len(source)
  OBVIOUS
<1>c. PICK m : m = Len(tail)
  OBVIOUS
<1>d. PICK q : q = L - m
  OBVIOUS
<1>0. link = "open" /\ arrived = L /\ TailTokens \in Nat
  BY <1>b DEF Finish, PlainUpstream
<1>1. /\ source \in Upstream /\ source \in Seq(Bytes) /\ L \in Nat
      /\ m <= L /\ m \in Nat /\ q \in 0 .. L /\ L - q = m /\ tail \in Seq(Bytes)
  <2>1. source \in Upstream /\ m <= L /\ tail \in Seq(Bytes)
    BY <1>0, <1>b, <1>c DEF HeldBack
  <2>2. source \in Seq(Bytes) /\ L \in Nat
    BY <1>b, <2>1, SourceIs
  <2>3. m \in Nat
    BY <1>c, <2>1
  <2> QED
    BY <1>d, <2>1, <2>2, <2>3
<1>2. /\ \A i \in 1 .. m : tail[i] = source[q + i]
      /\ q = 0 \/ q <= L - TailTokens
  BY <1>0, <1>b, <1>c, <1>d DEF HeldBack
<1>3. /\ p \in Nat /\ buffer \in Seq(Bytes) /\ q = p + Len(buffer)
      /\ \A i \in 1 .. Len(buffer) : buffer[i] = w[p + i]
  BY <1>0, <1>a, <1>c, <1>d DEF Buffered, Passed
<1>4. tail = SubSeq(source, q + 1, L)
  <2>1. /\ SubSeq(source, q + 1, L) \in Seq(Bytes) /\ Len(SubSeq(source, q + 1, L)) = m
        /\ \A i \in 1 .. m : SubSeq(source, q + 1, L)[i] = source[q + i]
    <3>1. q \in 0 .. Len(source) /\ L \in q .. Len(source)
      BY <1>1, <1>b
    <3> QED
      BY <1>1, <3>1, Stretch
  <2> QED
    BY <1>1, <1>2, <1>c, <2>1, SeqEqual
<1>5. w = SubSeq(source, 1, q) \o RemoveDone(tail) \o Ending
  BY <1>1, <1>2, <1>4, <1>a, <1>b, WholeIs
<1>e. PICK x : x = SubSeq(source, 1, q)
  OBVIOUS
<1>f. PICK z : z = RemoveDone(tail)
  OBVIOUS
<1>g. PICK e : e = z \o Ending
  OBVIOUS
<1>6. x \in Seq(Bytes) /\ Len(x) = q
  BY <1>1, <1>b, <1>e
<1>7. z \in Seq(Bytes)
  <2>1. \A i, j \in 1 .. Len(tail) : tail[i] = Done /\ tail[j] = Done => i = j
    <3> SUFFICES ASSUME NEW i \in 1 .. m, NEW j \in 1 .. m, tail[i] = Done, tail[j] = Done
                 PROVE  i = j
      BY <1>c
    <3>1. q + i \in 1 .. L /\ q + j \in 1 .. L /\ source[q + i] = Done /\ source[q + j] = Done
      BY <1>1, <1>2
    <3>2. \A h, g \in 1 .. L : source[h] = Done /\ h < g => source[g] = LF
      <4>1. PlainStream(source) /\ DOMAIN source = 1 .. L
        BY <1>1, <1>b, SourceIs
      <4> QED
        BY <1>1, <4>1 DEF PlainStream
    <3>3. ~(q + i < q + j) /\ ~(q + j < q + i)
      BY <3>1, <3>2, Marks
    <3> QED
      BY <1>1, <3>3
  <2> QED
    BY <1>1, <1>f, <2>1, Removed
<1>8. e \in Seq(Bytes) /\ Len(e) \in Nat
  BY <1>7, <1>g, EndingIs, Joined
<1>9. w = x \o e /\ buffer' = buffer \o e
  <2>1. Ending \in Seq(Bytes)
    BY EndingIs
  <2>2. (x \o z) \o Ending = x \o (z \o Ending)
    BY <1>6, <1>7, <2>1, Associates
  <2>3. (buffer \o z) \o Ending = buffer \o (z \o Ending)
    <3>1. buffer \in Seq(Bytes)
      BY <1>3
    <3> QED
      BY <1>7, <2>1, <3>1, Associates
  <2>4. buffer' = (buffer \o z) \o Ending
    BY <1>f DEF Finish, Ending
  <2>5. w = (x \o z) \o Ending
    BY <1>5, <1>e, <1>f
  <2> QED
    BY <1>g, <2>2, <2>3, <2>4, <2>5
<1>10. Len(w) = q + Len(e) /\ \A i \in 1 .. Len(e) : w[q + i] = e[i]
  <2>1. /\ Len(w) = Len(x) + Len(e)
        /\ \A i \in 1 .. Len(x) + Len(e) : w[i] = IF i <= Len(x) THEN x[i] ELSE e[i - Len(x)]
    BY <1>6, <1>8, <1>9, Joined
  <2>2. ASSUME NEW i \in 1 .. Len(e) PROVE w[q + i] = e[i]
    <3>1. q + i \in 1 .. q + Len(e) /\ ~(q + i <= q) /\ (q + i) - q = i
      BY <1>1, <1>8
    <3> QED
      BY <1>6, <2>1, <3>1
  <2> QED
    BY <1>6, <2>1, <2>2
<1>11. /\ buffer' \in Seq(Bytes) /\ Len(buffer') = Len(buffer) + Len(e)
       /\ \A i \in 1 .. Len(buffer') : buffer'[i] = w[p + i]
  <2>1. StretchOf(e, w, p + Len(buffer))
    BY <1>3, <1>10 DEF StretchOf
  <2>2. buffer \in Seq(Bytes) /\ e \in Seq(Bytes) /\ p \in Nat /\ buffer' = buffer \o e
    BY <1>3, <1>8, <1>9
  <2>3. StretchOf(buffer, w, p)
    BY <1>3 DEF StretchOf
  <2>4. /\ buffer \o e \in Seq(Bytes) /\ Len(buffer \o e) = Len(buffer) + Len(e)
        /\ StretchOf(buffer \o e, w, p)
    BY <2>1, <2>2, <2>3, Extended
  <2> QED
    BY <2>2, <2>4 DEF StretchOf
<1>12. /\ tail' = <<>> /\ link' = "ended" /\ source' = source /\ arrived' = arrived
  BY DEF Finish
<1>13. Passed' = p + Len(buffer')
  <2>1. Passed' = Len(w)
    BY <1>12, <1>a DEF Passed
  <2> QED
    BY <1>3, <1>8, <1>10, <1>11, <2>1
<1>14. tail' \in Seq(Bytes) /\ Len(tail') = 0
  BY <1>12
<1>15. HeldBack'
  BY <1>0, <1>1, <1>12, <1>14, <1>b DEF HeldBack
<1>16. Buffered(p)'
  BY <1>3, <1>11, <1>12, <1>13, <1>a DEF Buffered
<1> QED
  BY <1>15, <1>16

\* A connection that breaks, or an end that fails, changes nothing of what was passed on.
LEMMA BreakFlows ==
    ASSUME NEW p, HeldBack, Buffered(p), Break \/ FinishFails
    PROVE  HeldBack' /\ Buffered(p)'
<1>1. /\ link = "open" /\ link' = "broken" /\ UNCHANGED <<source, arrived, tail, buffer>>
  BY DEF Break, FinishFails
<1>2. Passed' = Passed
  BY <1>1 DEF Passed
<1>3. HeldBack'
  BY <1>1 DEF HeldBack
<1>4. Buffered(p)'
  BY <1>1, <1>2 DEF Buffered
<1> QED
  BY <1>3, <1>4

\* A stream that opens has passed nothing.
LEMMA OpenFlows ==
    ASSUME PlainUpstream, tail = <<>>, buffer = <<>>, OpenStream
    PROVE  HeldBack' /\ Buffered(0)'
<1>1. /\ source' \in Upstream /\ arrived' = 0 /\ link' = "open"
      /\ tail' = <<>> /\ buffer' = <<>>
  BY DEF OpenStream
<1>2. /\ tail' \in Seq(Bytes) /\ Len(tail') = 0 /\ buffer' \in Seq(Bytes) /\ Len(buffer') = 0
  BY <1>1
<1>3. Len(source') \in Nat
  BY <1>1, SourceIs
<1>a. PICK m : m = Len(tail')
  OBVIOUS
<1>0. m = 0 /\ arrived' = 0 /\ arrived' - m = 0
  BY <1>1, <1>2, <1>a
<1>4. Passed' = 0
  <2>1. Passed' = arrived' - m
    BY <1>1, <1>a DEF Passed
  <2> QED
    BY <1>0, <2>1
<1>5. HeldBack'
  <2>1. tail' \in Seq(Bytes) /\ m <= arrived' /\ arrived' \in 0 .. Len(source')
    BY <1>0, <1>2, <1>3
  <2>2. \A i \in 1 .. m : tail'[i] = source'[arrived' - m + i]
    BY <1>0
  <2> QED
    BY <1>0, <1>1, <1>a, <2>1, <2>2 DEF HeldBack
<1>6. Buffered(0)'
  BY <1>2, <1>4 DEF Buffered
<1> QED
  BY <1>5, <1>6

\* Before the end no more has been passed on than the provider sent, after it all there is.
LEMMA PassedBound ==
    ASSUME PlainUpstream, HeldBack
    PROVE  /\ Passed <= Len(Whole(source))
           /\ link # "ended" => Passed < Len(Whole(source)) - 2
<1>a. PICK n : n = Len(Whole(source))
  OBVIOUS
<1>b. PICK L : L = Len(source)
  OBVIOUS
<1>c. PICK m : m = Len(tail)
  OBVIOUS
<1>1. n \in Nat /\ L \in Nat /\ L + 6 <= n
  <2>1. source \in Upstream
    BY DEF HeldBack
  <2> QED
    BY <1>a, <1>b, <2>1, WholeIs, SourceIs
<1>2. arrived \in 0 .. L /\ m \in Nat
  BY <1>b, <1>c DEF HeldBack
<1>3. Passed = IF link = "ended" THEN n ELSE arrived - m
  BY <1>a, <1>c DEF Passed
<1>4. Passed <= n /\ (link # "ended" => Passed < n - 2)
  BY <1>1, <1>2, <1>3
<1> QED
  BY <1>4, <1>a

\* What is cut when the part from p to h is: line feeds and the data of one event at most.
CutTo(p, h, x) ==
    LET w == Whole(source)
    IN  \/ x = <<>> /\ \A i \in p + 1 .. h : w[i] = LF
        \/ \E d \in p + 1 .. h : /\ x = <<w[d]>> /\ w[d] # LF
                                 /\ \A i \in p + 1 .. h : i # d => w[i] = LF

\* The translator cuts what comes next, and leaves the rest in the buffer.
LEMMA NextEventFlows ==
    ASSUME PlainUpstream, NEW p, HeldBack, Buffered(p), NEW client, NextEvent(client)
    PROVE  /\ HeldBack' /\ source' = source
           /\ \E h \in Nat : \E x : /\ p <= h /\ h <= Len(Whole(source)) /\ Buffered(h)'
                                    /\ Translate(client, x) /\ CutTo(p, h, x)
<1>a. PICK w : w = Whole(source)
  OBVIOUS
<1>b. PICK n : n = Len(w)
  OBVIOUS
<1>c. PICK m : m = Len(buffer)
  OBVIOUS
<1>d. PICK x : x = DataOf(SubSeq(buffer, 1, Min(EventEnds(buffer)) - 1))
  OBVIOUS
<1>e. PICK y : y = Stripped(SubSeq(buffer, Min(EventEnds(buffer)), Len(buffer)))
  OBVIOUS
<1>1. /\ EventEnds(buffer) # {} /\ Translate(client, x) /\ buffer' = y
      /\ UNCHANGED <<source, arrived, link, tail>>
  BY <1>d, <1>e DEF NextEvent
<1>2. /\ source \in Upstream /\ p \in Nat /\ m \in Nat /\ n \in Nat /\ p + m <= n
      /\ buffer \in Seq(Bytes) /\ Passed = p + m
  <2>1. source \in Upstream /\ p \in Nat /\ buffer \in Seq(Bytes) /\ Passed = p + m
    BY <1>c DEF HeldBack, Buffered
  <2>2. Passed <= n
    BY <1>a, <1>b, PassedBound
  <2>3. n \in Nat
    BY <1>a, <1>b, <2>1, WholeIs
  <2> QED
    BY <1>c, <2>1, <2>2, <2>3
<1>3. \A i \in 1 .. m : buffer[i] = w[p + i]
  BY <1>a, <1>c DEF Buffered
<1>4. \A i \in 1 .. n : \/ w[i] = LF
                        \/ /\ w[i] # CR
                           /\ i + 2 <= n /\ w[i + 1] = LF /\ w[i + 2] = LF
  <2>1. \A i \in 1 .. n : \/ w[i] = LF
                          \/ /\ w[i] = Decision \/ w[i] = Done \/ w[i].is = "delta"
                             /\ i + 2 <= n /\ w[i + 1] = LF /\ w[i + 2] = LF
    BY <1>2, <1>a, <1>b, WholeIs
  <2> QED
    BY <2>1, Marks
<1>5. \A i \in 1 .. m : \/ buffer[i] = LF
                        \/ /\ buffer[i] # CR
                           /\ i + 1 <= m => buffer[i + 1] = LF
                           /\ i + 2 <= m => buffer[i + 2] = LF
  <2> SUFFICES ASSUME NEW i \in 1 .. m, buffer[i] # LF
               PROVE  /\ buffer[i] # CR
                      /\ i + 1 <= m => buffer[i + 1] = LF
                      /\ i + 2 <= m => buffer[i + 2] = LF
    OBVIOUS
  <2>1. p + i \in 1 .. n
    BY <1>2
  <2>2. w[p + i] # CR /\ w[p + i + 1] = LF /\ w[p + i + 2] = LF
    BY <1>3, <1>4, <2>1
  <2>3. /\ p + (i + 1) = p + i + 1 /\ p + (i + 2) = p + i + 2
        /\ i + 1 <= m => i + 1 \in 1 .. m
        /\ i + 2 <= m => i + 2 \in 1 .. m
    BY <1>2
  <2> QED
    BY <1>3, <2>2, <2>3
<1>6. PICK c \in 0 .. m :
          /\ y \in Seq(Bytes) /\ Len(y) = m - c
          /\ \A i \in 1 .. Len(y) : y[i] = buffer[c + i]
          /\ \/ x = <<>> /\ \A i \in 1 .. c : buffer[i] = LF
             \/ \E d \in 1 .. c : /\ x = <<buffer[d]>> /\ buffer[d] # LF
                                  /\ \A i \in 1 .. c : i # d => buffer[i] = LF
  BY <1>1, <1>2, <1>5, <1>c, <1>d, <1>e, CutIs
<1>f. PICK h : h = p + c
  OBVIOUS
<1>7. h \in Nat /\ p <= h /\ h <= n
  BY <1>2, <1>f
<1>8. Buffered(h)'
  <2>1. Passed' = Passed
    BY <1>1 DEF Passed
  <2>2. Passed' = h + Len(y)
    BY <1>2, <1>6, <1>f, <2>1
  <2>3. ASSUME NEW i \in 1 .. Len(y) PROVE y[i] = w[h + i]
    <3>1. c + i \in 1 .. m /\ p + (c + i) = h + i
      BY <1>2, <1>6, <1>f
    <3> QED
      BY <1>3, <1>6, <3>1
  <2> QED
    BY <1>1, <1>6, <1>7, <1>a, <2>2, <2>3 DEF Buffered
<1>9. CutTo(p, h, x)
  <2>1. ASSUME NEW i \in p + 1 .. h PROVE i - p \in 1 .. c /\ buffer[i - p] = w[i]
    <3>1. i - p \in 1 .. c /\ i - p \in 1 .. m /\ p + (i - p) = i
      BY <1>2, <1>f
    <3> QED
      BY <1>3, <3>1
  <2>2. CASE x = <<>> /\ \A i \in 1 .. c : buffer[i] = LF
    <3>1. \A i \in p + 1 .. h : w[i] = LF
      BY <2>1, <2>2
    <3> QED
      BY <1>a, <2>2, <3>1 DEF CutTo
  <2>3. ASSUME NEW d \in 1 .. c, x = <<buffer[d]>>, buffer[d] # LF,
               \A i \in 1 .. c : i # d => buffer[i] = LF
        PROVE  CutTo(p, h, x)
    <3>1. p + d \in p + 1 .. h /\ buffer[d] = w[p + d]
      <4>1. p \in Nat /\ m \in Nat
        BY <1>2
      <4>2. p + d \in p + 1 .. h /\ d \in 1 .. m
        BY <1>f, <4>1
      <4> QED
        BY <1>3, <4>2
    <3>2. ASSUME NEW i \in p + 1 .. h, i # p + d PROVE w[i] = LF
      <4>1. i - p # d
        BY <1>2, <3>2
      <4> QED
        BY <2>1, <2>3, <4>1
    <3> QED
      BY <1>a, <2>3, <3>1, <3>2 DEF CutTo
  <2> QED
    BY <1>6, <2>2, <2>3
<1>10. HeldBack'
  BY <1>1 DEF HeldBack
<1> QED
  BY <1>1, <1>7, <1>8, <1>9, <1>10, <1>a, <1>b

----------------------------------------------------------------------------
(* What the translator makes of what it cuts.                                *)

Told == \E i \in 1 .. Len(events) : events[i].event = "complete"

\* The client has been shown the deltas of what has been cut, and is told that its answer is
\* complete when the end marker has been.
TranslatedTo(p) ==
    LET w == Whole(source)
        D == Deltas(SubSeq(w, 1, p))
    IN  /\ events \in Seq(Events)
        /\ Told <=> Len(w) - 2 <= p
        /\ \A i \in 1 .. Len(events) : events[i].event = "complete" => i = Len(events)
        /\ Len(Shown) = Len(D)
        /\ \A k \in 1 .. Len(D) : Shown[k].block = D[k].block /\ Shown[k].n = D[k].n

\* A client of Anthropic's protocol has each block opened once, before its deltas, and closed
\* once, after them, when the answer is complete.
Framed(client) ==
    /\ opened \in SUBSET Blocks /\ IsFiniteSet(opened)
    /\ client = "anthropic" =>
          /\ \A e \in {"start", "stop", "delta"} : \A b \in Blocks : Positions(e, b) # {} => b \in opened
          /\ \A b \in opened :
                /\ Positions("delta", b) # {}
                /\ \E i \in 1 .. Len(events) :
                      Positions("start", b) = {i} /\ \A j \in Positions("delta", b) : i < j
                /\ ~Told => Positions("stop", b) = {}
                /\ Told => \E i \in 1 .. Len(events) :
                      Positions("stop", b) = {i} /\ \A j \in Positions("delta", b) : j < i

PlacesOf(more, e, b) == {i \in 1 .. Len(more) : more[i].event = e /\ more[i].block = b}

\* What is appended to the client's events comes after them and is all that is new.
LEMMA EventsMore ==
    ASSUME events \in Seq(Events), NEW more \in Seq(Events), events' = events \o more
    PROVE  /\ events' \in Seq(Events) /\ Len(events') = Len(events) + Len(more)
           /\ \A i \in 1 .. Len(events) : events'[i] = events[i]
           /\ \A i \in 1 .. Len(more) : events'[Len(events) + i] = more[i]
           /\ Told' <=> Told \/ \E i \in 1 .. Len(more) : more[i].event = "complete"
           /\ \A e, b : Positions(e, b)' =
                 Positions(e, b) \cup {Len(events) + i : i \in PlacesOf(more, e, b)}
<1>a. PICK L : L = Len(events)
  OBVIOUS
<1>b. PICK M : M = Len(more)
  OBVIOUS
<1>1. /\ L \in Nat /\ M \in Nat /\ events' \in Seq(Events) /\ Len(events') = L + M
      /\ DOMAIN events = 1 .. L /\ DOMAIN events' = 1 .. L + M
      /\ \A i \in 1 .. L + M : events'[i] = IF i <= L THEN events[i] ELSE more[i - L]
  <2>1. /\ events' \in Seq(Events) /\ Len(events') = Len(events) + Len(more)
        /\ \A i \in 1 .. Len(events) + Len(more) :
              events'[i] = IF i <= Len(events) THEN events[i] ELSE more[i - Len(events)]
    BY Joined
  <2>2. L \in Nat /\ M \in Nat /\ DOMAIN events = 1 .. L
    BY <1>a, <1>b
  <2>3. DOMAIN events' = 1 .. L + M
    BY <1>a, <1>b, <2>1
  <2> QED
    BY <1>a, <1>b, <2>1, <2>2, <2>3
<1>2. \A i \in 1 .. L : i \in 1 .. L + M /\ events'[i] = events[i]
  BY <1>1
<1>3. ASSUME NEW i \in 1 .. M PROVE L + i \in 1 .. L + M /\ events'[L + i] = more[i]
  <2>1. L + i \in 1 .. L + M /\ ~(L + i <= L) /\ (L + i) - L = i
    BY <1>1
  <2> QED
    BY <1>1, <2>1
<1>4. \A i \in 1 .. L + M : i \in 1 .. L \/ \E j \in 1 .. M : i = L + j
  <2> SUFFICES ASSUME NEW i \in 1 .. L + M, i \notin 1 .. L PROVE \E j \in 1 .. M : i = L + j
    OBVIOUS
  <2>1. i - L \in 1 .. M /\ i = L + (i - L)
    BY <1>1
  <2> QED
    BY <2>1
<1>5. Told' <=> Told \/ \E i \in 1 .. M : more[i].event = "complete"
  <2>1. Told' <=> \E i \in 1 .. L + M : events'[i].event = "complete"
    BY <1>1 DEF Told
  <2>2. Told <=> \E i \in 1 .. L : events[i].event = "complete"
    BY <1>a DEF Told
  <2>3. ASSUME NEW i \in 1 .. L + M, events'[i].event = "complete"
        PROVE  Told \/ \E j \in 1 .. M : more[j].event = "complete"
    <3>1. CASE i \in 1 .. L
      BY <1>2, <2>2, <2>3, <3>1
    <3>2. ASSUME NEW j \in 1 .. M, i = L + j PROVE more[j].event = "complete"
      BY <1>3, <2>3, <3>2
    <3> QED
      BY <1>4, <3>1, <3>2
  <2>4. ASSUME NEW i \in 1 .. L, events[i].event = "complete" PROVE Told'
    BY <1>2, <2>1, <2>4
  <2>5. ASSUME NEW j \in 1 .. M, more[j].event = "complete" PROVE Told'
    BY <1>3, <2>1, <2>5
  <2> QED
    BY <2>1, <2>2, <2>3, <2>4, <2>5
<1>6. ASSUME NEW e, NEW b
      PROVE  Positions(e, b)' = Positions(e, b) \cup {L + i : i \in PlacesOf(more, e, b)}
  <2>1. Positions(e, b)' = {i \in 1 .. L + M : events'[i].event = e /\ events'[i].block = b}
    BY <1>1 DEF Positions
  <2>2. Positions(e, b) = {i \in 1 .. L : events[i].event = e /\ events[i].block = b}
    BY <1>1 DEF Positions
  <2>3. PlacesOf(more, e, b) = {i \in 1 .. M : more[i].event = e /\ more[i].block = b}
    BY <1>b DEF PlacesOf
  <2>4. ASSUME NEW i \in Positions(e, b)'
        PROVE  i \in Positions(e, b) \/ \E j \in PlacesOf(more, e, b) : i = L + j
    <3>1. CASE i \in 1 .. L
      BY <1>2, <2>1, <2>2, <3>1
    <3>2. ASSUME NEW j \in 1 .. M, i = L + j PROVE j \in PlacesOf(more, e, b)
      BY <1>3, <2>1, <2>3, <3>2
    <3> QED
      BY <1>4, <2>1, <3>1, <3>2
  <2>5. ASSUME NEW i \in Positions(e, b) PROVE i \in Positions(e, b)'
    BY <1>2, <2>1, <2>2
  <2>6. ASSUME NEW j \in PlacesOf(more, e, b) PROVE L + j \in Positions(e, b)'
    BY <1>3, <2>1, <2>3
  <2> QED
    BY <2>4, <2>5, <2>6
<1> QED
  BY <1>1, <1>2, <1>3, <1>5, <1>6, <1>a, <1>b

\* A step without blocks leaves them as they are,
LEMMA FramedQuiet ==
    ASSUME NEW client, Framed(client), opened' = opened, Told' <=> Told,
           Len(events') >= Len(events), Len(events) \in Nat, Len(events') \in Nat,
           \A e \in {"start", "stop", "delta"} : \A b \in Blocks : Positions(e, b)' = Positions(e, b)
    PROVE  Framed(client)'
<1>1. /\ opened' \in SUBSET Blocks /\ IsFiniteSet(opened')
  BY DEF Framed
<1> SUFFICES ASSUME client = "anthropic"
             PROVE  /\ \A e \in {"start", "stop", "delta"} : \A b \in Blocks : Positions(e, b)' # {} => b \in opened'
                    /\ \A b \in opened' :
                          /\ Positions("delta", b)' # {}
                          /\ \E i \in 1 .. Len(events') :
                                Positions("start", b)' = {i} /\ \A j \in Positions("delta", b)' : i < j
                          /\ ~Told' => Positions("stop", b)' = {}
                          /\ Told' => \E i \in 1 .. Len(events') :
                                Positions("stop", b)' = {i} /\ \A j \in Positions("delta", b)' : j < i
  BY <1>1 DEF Framed
<1>2. \A e \in {"start", "stop", "delta"} : \A b \in Blocks : Positions(e, b)' # {} => b \in opened'
  BY DEF Framed
<1>3. ASSUME NEW b \in opened
      PROVE  /\ Positions("delta", b)' # {}
             /\ \E i \in 1 .. Len(events') :
                   Positions("start", b)' = {i} /\ \A j \in Positions("delta", b)' : i < j
             /\ ~Told' => Positions("stop", b)' = {}
             /\ Told' => \E i \in 1 .. Len(events') :
                   Positions("stop", b)' = {i} /\ \A j \in Positions("delta", b)' : j < i
  <2>1. b \in Blocks
    BY DEF Framed
  <2>2. \A i \in 1 .. Len(events) : i \in 1 .. Len(events')
    OBVIOUS
  <2>3. /\ Positions("start", b)' = Positions("start", b)
        /\ Positions("stop", b)' = Positions("stop", b)
        /\ Positions("delta", b)' = Positions("delta", b)
    BY <2>1
  <2> QED
    BY <2>2, <2>3 DEF Framed
<1> QED
  BY <1>2, <1>3

\* a delta comes in an open block, opened for it if need be,
LEMMA FramedDelta ==
    ASSUME NEW client, Framed(client), events \in Seq(Events), ~Told, ~Told',
           NEW more \in Seq(Events), events' = events \o more, NEW b \in Blocks,
           NEW at \in 1 .. Len(more), PlacesOf(more, "delta", b) = {at},
           \A e \in {"start", "stop", "delta"} : \A c \in Blocks \ {b} : PlacesOf(more, e, c) = {},
           PlacesOf(more, "stop", b) = {},
           \/ b \in opened /\ opened' = opened /\ PlacesOf(more, "start", b) = {}
           \/ /\ b \notin opened /\ opened' = opened \cup {b}
              /\ \E i \in 1 .. Len(more) : i < at /\ PlacesOf(more, "start", b) = {i}
    PROVE  client = "anthropic" => Framed(client)'
<1> SUFFICES ASSUME client = "anthropic" PROVE Framed(client)'
  OBVIOUS
<1>a. PICK L : L = Len(events)
  OBVIOUS
<1>b. PICK M : M = Len(more)
  OBVIOUS
<1>1. /\ L \in Nat /\ M \in Nat /\ Len(events') = L + M
      /\ \A e, c : Positions(e, c)' = Positions(e, c) \cup {L + i : i \in PlacesOf(more, e, c)}
  <2>1. L \in Nat /\ M \in Nat /\ Len(events') = Len(events) + Len(more)
    BY <1>a, <1>b, EventsMore
  <2>2. ASSUME NEW e, NEW c
        PROVE  Positions(e, c)' = Positions(e, c) \cup {L + i : i \in PlacesOf(more, e, c)}
    <3>1. Positions(e, c)' = Positions(e, c) \cup {Len(events) + i : i \in PlacesOf(more, e, c)}
      BY EventsMore
    <3> QED
      BY <1>a, <3>1
  <2> QED
    BY <1>a, <1>b, <2>1, <2>2
<1>2. /\ opened' \in SUBSET Blocks /\ IsFiniteSet(opened') /\ b \in opened' /\ opened \subseteq opened'
      /\ opened' \subseteq opened \cup {b}
  <2>1. opened \in SUBSET Blocks /\ IsFiniteSet(opened)
    BY DEF Framed
  <2>2. IsFiniteSet(opened \cup {b})
    BY <2>1, FS_AddElement
  <2> QED
    BY <2>1, <2>2
\* Of the other blocks nothing is new.
<1>3. ASSUME NEW c \in Blocks \ {b}, NEW e \in {"start", "stop", "delta"}
      PROVE  Positions(e, c)' = Positions(e, c)
  BY <1>1
<1>4. Positions("stop", b)' = Positions("stop", b)
  BY <1>1
<1>5. Positions("delta", b)' = Positions("delta", b) \cup {L + at}
  BY <1>1
<1>6. \A e \in {"start", "stop", "delta"} : \A c \in Blocks : Positions(e, c)' # {} => c \in opened'
  BY <1>2, <1>3 DEF Framed
<1>7. \A c \in opened : \E i \in 1 .. L :
          Positions("start", c) = {i} /\ \A j \in Positions("delta", c) : i < j
  BY <1>a DEF Framed
<1>8. ASSUME NEW c \in opened, c # b
      PROVE  /\ Positions("delta", c)' # {}
             /\ \E i \in 1 .. Len(events') :
                   Positions("start", c)' = {i} /\ \A j \in Positions("delta", c)' : i < j
             /\ Positions("stop", c)' = {}
  <2>1. c \in Blocks \ {b}
    BY <1>2, <1>8
  <2>2. \A i \in 1 .. L : i \in 1 .. Len(events')
    BY <1>1
  <2>3. Positions("delta", c) # {} /\ Positions("stop", c) = {}
    BY DEF Framed
  <2>4. /\ Positions("start", c)' = Positions("start", c)
        /\ Positions("stop", c)' = Positions("stop", c)
        /\ Positions("delta", c)' = Positions("delta", c)
    BY <1>3, <2>1
  <2> QED
    BY <1>7, <2>2, <2>3, <2>4
<1>9. /\ \E i \in 1 .. Len(events') :
             Positions("start", b)' = {i} /\ \A j \in Positions("delta", b)' : i < j
      /\ Positions("stop", b)' = {}
  <2>1. CASE b \in opened /\ PlacesOf(more, "start", b) = {}
    <3>1. PICK i \in 1 .. L : Positions("start", b) = {i} /\ \A j \in Positions("delta", b) : i < j
      BY <1>7, <2>1
    <3>2. Positions("start", b)' = {i}
      BY <1>1, <2>1, <3>1
    <3>3. i < L + at /\ i \in 1 .. Len(events')
      BY <1>1
    <3>4. Positions("stop", b) = {}
      BY <2>1 DEF Framed
    <3> QED
      BY <1>4, <1>5, <3>1, <3>2, <3>3, <3>4
  <2>2. ASSUME b \notin opened, NEW i \in 1 .. Len(more), i < at, PlacesOf(more, "start", b) = {i}
        PROVE  /\ \E k \in 1 .. Len(events') :
                      Positions("start", b)' = {k} /\ \A j \in Positions("delta", b)' : k < j
               /\ Positions("stop", b)' = {}
    <3>1. Positions("start", b) = {} /\ Positions("delta", b) = {}
      BY <2>2 DEF Framed
    <3>2. Positions("start", b)' = {L + i} /\ Positions("delta", b)' = {L + at}
      <4>1. Positions("start", b)' = Positions("start", b) \cup {L + k : k \in {i}}
        BY <1>1, <2>2
      <4> QED
        BY <1>5, <3>1, <4>1
    <3>3. L + i \in 1 .. Len(events') /\ L + i < L + at
      BY <1>1, <1>b, <2>2
    <3>4. Positions("stop", b) = {}
      BY <2>2 DEF Framed
    <3> QED
      BY <1>4, <3>2, <3>3, <3>4
  <2> QED
    BY <2>1, <2>2
<1> QED
  <2>1. \A c \in opened' : c = b \/ (c \in opened /\ c # b)
    BY <1>2
  <2>2. \A c \in opened' :
           /\ Positions("delta", c)' # {}
           /\ \E i \in 1 .. Len(events') :
                 Positions("start", c)' = {i} /\ \A j \in Positions("delta", c)' : i < j
           /\ Positions("stop", c)' = {}
    BY <1>5, <1>8, <1>9, <2>1
  <2> QED
    BY <1>2, <1>6, <2>2 DEF Framed

\* and the end of the answer closes each.
LEMMA FramedClose ==
    ASSUME NEW client, Framed(client), events \in Seq(Events), ~Told, Told', opened' = opened,
           events' = events \o Closing(client)
    PROVE  Framed(client)'
<1>a. PICK L : L = Len(events)
  OBVIOUS
<1>b. PICK c : c = Closing(client)
  OBVIOUS
<1>c. PICK M : M = Len(c)
  OBVIOUS
<1>1. opened \in SUBSET Blocks /\ IsFiniteSet(opened)
  BY DEF Framed
<1>2. /\ c \in Seq([event : {"stop"}, block : opened] \cup {[event |-> "complete"]})
      /\ M \in Nat /\ M >= 1 /\ c[M] = [event |-> "complete"]
      /\ \A i \in 1 .. M : i # M => c[i].event = "stop"
      /\ client = "anthropic" =>
            \A b \in opened : \E k \in 1 .. M - 1 :
               \A i \in 1 .. M : (c[i].event = "stop" /\ c[i].block = b) <=> i = k
  <2> DEFINE Q == [event : {"stop"}, block : opened] \cup {[event |-> "complete"]}
  <2> HIDE DEF Q
  <2>1. /\ c \in Seq(Q) /\ M >= 1 /\ c[M] = [event |-> "complete"]
        /\ \A i \in 1 .. M : i # M => c[i].event = "stop"
    BY <1>1, <1>b, <1>c, ClosingIs DEF Q
  <2>2. client = "anthropic" =>
            \A b \in opened : \E k \in 1 .. M - 1 :
               \A i \in 1 .. M : (c[i].event = "stop" /\ c[i].block = b) <=> i = k
    <3>1. client = "anthropic" =>
              \A b \in opened : \E k \in 1 .. Len(Closing(client)) - 1 :
                 \A i \in 1 .. Len(Closing(client)) :
                    (Closing(client)[i].event = "stop" /\ Closing(client)[i].block = b) <=> i = k
      BY <1>1, ClosingIs, Zenon
    <3> QED
      BY <1>b, <1>c, <3>1, Zenon
  <2>3. M \in Nat
    BY <1>c, <2>1
  <2> QED
    BY <2>1, <2>2, <2>3 DEF Q
<1> SUFFICES ASSUME client = "anthropic" PROVE Framed(client)'
  BY <1>1 DEF Framed
<1>3. c \in Seq(Events)
  <2>1. [event : {"stop"}, block : opened] \cup {[event |-> "complete"]} \subseteq Events
    BY <1>1 DEF Events
  <2> QED
    BY <1>2, <2>1, SeqMonotonic
<1>4. /\ L \in Nat /\ Len(events') = L + M
      /\ \A e, b : Positions(e, b)' = Positions(e, b) \cup {L + i : i \in PlacesOf(c, e, b)}
  <2>1. L \in Nat /\ Len(events') = Len(events) + Len(c)
    BY <1>3, <1>a, <1>b, EventsMore
  <2>2. ASSUME NEW e, NEW b
        PROVE  Positions(e, b)' = Positions(e, b) \cup {L + i : i \in PlacesOf(c, e, b)}
    <3>1. Positions(e, b)' = Positions(e, b) \cup {Len(events) + i : i \in PlacesOf(c, e, b)}
      BY <1>3, <1>b, EventsMore
    <3> QED
      BY <1>a, <3>1
  <2> QED
    BY <1>a, <1>c, <2>1, <2>2
<1>5. \A b : PlacesOf(c, "start", b) = {} /\ PlacesOf(c, "delta", b) = {}
  <2>1. \A i \in 1 .. M : c[i].event # "start" /\ c[i].event # "delta"
    BY <1>2
  <2> QED
    BY <1>c, <2>1 DEF PlacesOf
<1>6. \A b : /\ Positions("start", b)' = Positions("start", b)
             /\ Positions("delta", b)' = Positions("delta", b)
  BY <1>4, <1>5
<1>7. ASSUME NEW b \in opened
      PROVE  \E i \in 1 .. L + M : Positions("stop", b)' = {i} /\ \A j \in Positions("delta", b)' : j < i
  <2>1. PICK k \in 1 .. M - 1 :
            \A i \in 1 .. M : (c[i].event = "stop" /\ c[i].block = b) <=> i = k
    BY <1>2
  <2>2. PlacesOf(c, "stop", b) = {k}
    BY <1>2, <1>c, <2>1 DEF PlacesOf
  <2>3. Positions("stop", b) = {}
    BY DEF Framed
  <2>4. Positions("stop", b)' = {L + k}
    BY <1>4, <2>2, <2>3
  <2>5. \A j \in Positions("delta", b) : j \in 1 .. L
    BY <1>a DEF Positions
  <2>6. L + k \in 1 .. L + M /\ \A j \in 1 .. L : j < L + k
    BY <1>2, <1>4
  <2> QED
    BY <1>6, <2>4, <2>5, <2>6
<1>8. \A i \in 1 .. M : c[i].event = "stop" => c[i].block \in opened
  <2> SUFFICES ASSUME NEW i \in 1 .. M, c[i].event = "stop" PROVE c[i].block \in opened
    OBVIOUS
  <2>1. c[i] \in [event : {"stop"}, block : opened] \cup {[event |-> "complete"]}
    BY <1>2, <1>c
  <2> QED
    BY <2>1
<1>9. ASSUME NEW e \in {"start", "stop", "delta"}, NEW b \in Blocks, Positions(e, b)' # {}
      PROVE  b \in opened
  <2>1. CASE Positions(e, b) # {}
    BY <2>1 DEF Framed
  <2>2. CASE PlacesOf(c, e, b) # {}
    BY <1>5, <1>8, <1>c, <2>2 DEF PlacesOf
  <2>3. Positions(e, b) # {} \/ PlacesOf(c, e, b) # {}
    BY <1>4, <1>9
  <2> QED
    BY <2>1, <2>2, <2>3
<1> QED
  <2>1. \A b \in opened :
           /\ Positions("delta", b)' # {}
           /\ \E i \in 1 .. Len(events') :
                 Positions("start", b)' = {i} /\ \A j \in Positions("delta", b)' : i < j
           /\ \E i \in 1 .. Len(events') :
                 Positions("stop", b)' = {i} /\ \A j \in Positions("delta", b)' : j < i
    <3> SUFFICES ASSUME NEW b \in opened
                 PROVE  /\ Positions("delta", b)' # {}
                        /\ \E i \in 1 .. L + M :
                              Positions("start", b)' = {i} /\ \A j \in Positions("delta", b)' : i < j
                        /\ \E i \in 1 .. L + M :
                              Positions("stop", b)' = {i} /\ \A j \in Positions("delta", b)' : j < i
      BY <1>4
    <3>1. Positions("delta", b) # {}
      BY DEF Framed
    <3>2. PICK i \in 1 .. L : Positions("start", b) = {i} /\ \A j \in Positions("delta", b) : i < j
      BY <1>a DEF Framed
    <3>3. i \in 1 .. L + M
      BY <1>2, <1>4
    <3> QED
      BY <1>6, <1>7, <3>1, <3>2, <3>3
  <2> QED
    BY <1>1, <1>9, <2>1 DEF Framed

\* The deltas among what has been cut.
DeltasTo(p) == Deltas(SubSeq(Whole(source), 1, p))

\* The deltas cut, as a sequence.
LEMMA DeltasAre ==
    ASSUME PlainUpstream, source \in Upstream, NEW p \in Nat, p <= Len(Whole(source))
    PROVE  DeltasTo(p) \in Seq(Bytes) /\ Len(DeltasTo(p)) \in Nat
<1>1. SubSeq(Whole(source), 1, p) \in Seq(Bytes)
  <2>1. Whole(source) \in Seq(Bytes)
    BY WholeIs
  <2> QED
    BY <2>1
<1> QED
  BY <1>1, KeptIsPicked DEF DeltasTo, Deltas

\* A cut without a delta adds none to them, and one with a delta adds that.
LEMMA Cuts ==
    ASSUME PlainUpstream, source \in Upstream, NEW p \in Nat, NEW h \in Nat,
           p <= h, h <= Len(Whole(source))
    PROVE  LET w == Whole(source)
           IN  /\ (\A i \in p + 1 .. h : w[i].is # "delta") => DeltasTo(h) = DeltasTo(p)
               /\ \A d \in p + 1 .. h :
                     (w[d].is = "delta" /\ \A i \in p + 1 .. h : i # d => w[i].is # "delta") =>
                        /\ Len(DeltasTo(h)) = Len(DeltasTo(p)) + 1
                        /\ DeltasTo(h)[Len(DeltasTo(p)) + 1] = w[d]
                        /\ \A k \in 1 .. Len(DeltasTo(p)) : DeltasTo(h)[k] = DeltasTo(p)[k]
<1>a. PICK w : w = Whole(source)
  OBVIOUS
<1>b. PICK n : n = Len(w)
  OBVIOUS
<1>c. PICK s : s = SubSeq(w, 1, p)
  OBVIOUS
<1>d. PICK t : t = SubSeq(w, 1, h)
  OBVIOUS
<1>1. w \in Seq(Bytes) /\ n \in Nat /\ p <= h /\ h <= n
  BY <1>a, <1>b, WholeIs
<1>2. /\ s \in Seq(Bytes) /\ Len(s) = p /\ \A i \in 1 .. p : s[i] = w[i]
      /\ t \in Seq(Bytes) /\ Len(t) = h /\ \A i \in 1 .. h : t[i] = w[i]
  BY <1>1, <1>b, <1>c, <1>d
<1>3. DeltasTo(p) = Deltas(s) /\ DeltasTo(h) = Deltas(t)
  BY <1>a, <1>c, <1>d DEF DeltasTo
<1>4. ASSUME \A i \in p + 1 .. h : w[i].is # "delta" PROVE Deltas(t) = Deltas(s)
  <2>1. \A i \in 1 .. p : i \in 1 .. h
    BY <1>1
  <2>2. \A i \in 1 .. Len(s) : s[i].is = "delta" => i <= Len(t) /\ t[i] = s[i]
    BY <1>1, <1>2, <2>1
  <2>3. \A i \in 1 .. Len(t) : t[i].is = "delta" => i <= Len(s) /\ t[i] = s[i]
    <3> SUFFICES ASSUME NEW i \in 1 .. h, w[i].is = "delta" PROVE i \in 1 .. p
      BY <1>2
    <3> QED
      BY <1>1, <1>4
  <2>4. s \in Seq(Bytes) /\ t \in Seq(Bytes)
    BY <1>2
  <2> QED
    BY <2>2, <2>3, <2>4, DeltasSame
<1>5. ASSUME NEW d \in p + 1 .. h, w[d].is = "delta",
             \A i \in p + 1 .. h : i # d => w[i].is # "delta"
      PROVE  /\ Len(Deltas(t)) = Len(Deltas(s)) + 1
             /\ Deltas(t)[Len(Deltas(s)) + 1] = w[d]
             /\ \A k \in 1 .. Len(Deltas(s)) : Deltas(t)[k] = Deltas(s)[k]
  <2>1. d \in 1 .. Len(t) /\ t[d] = w[d] /\ Len(s) < d
    BY <1>1, <1>2
  <2>2. \A i \in 1 .. Len(s) : t[i] = s[i]
    BY <1>1, <1>2
  <2>3. \A i \in 1 .. Len(t) : i > Len(s) /\ i # d => t[i].is # "delta"
    <3> SUFFICES ASSUME NEW i \in 1 .. h, i > p, i # d PROVE w[i].is # "delta"
      BY <1>2
    <3>1. i \in p + 1 .. h
      BY <1>1
    <3> QED
      BY <1>5, <3>1
  <2>4. s \in Seq(Bytes) /\ t \in Seq(Bytes) /\ t[d].is = "delta"
    BY <1>2, <1>5, <2>1
  <2>5. /\ Len(Deltas(t)) = Len(Deltas(s)) + 1
        /\ Deltas(t)[Len(Deltas(s)) + 1] = t[d]
        /\ \A k \in 1 .. Len(Deltas(s)) : Deltas(t)[k] = Deltas(s)[k]
    BY <2>1, <2>2, <2>3, <2>4, DeltasMore
  <2> QED
    BY <2>1, <2>5
<1> QED
  BY <1>3, <1>4, <1>5, <1>a

\* The client is shown what is cut, and is told of the end when that is cut
\* (translate_chat_sse_event).
LEMMA CutTranslates ==
    ASSUME PlainUpstream, source \in Upstream, source' = source, NEW p \in Nat, NEW h \in Nat,
           p <= h, h <= Len(Whole(source)), NEW x, NEW client, CutTo(p, h, x),
           Translate(client, x), TranslatedTo(p), Framed(client)
    PROVE  TranslatedTo(h)' /\ Framed(client)'
<1>a. PICK w : w = Whole(source)
  OBVIOUS
<1>b. PICK n : n = Len(w)
  OBVIOUS
<1>c. PICK D : D = DeltasTo(p)
  OBVIOUS
<1>d. PICK E : E = DeltasTo(h)
  OBVIOUS
<1>1. /\ w \in Seq(Bytes) /\ n \in Nat /\ h <= n /\ 6 <= n
      /\ \A i \in 1 .. n : w[i] = LF \/ w[i] = Decision \/ w[i] = Done \/ w[i].is = "delta"
      /\ \A i \in 1 .. n : w[i] = Done <=> i = n - 2
      /\ w[n - 1] = LF /\ w[n] = LF
  <2>1. /\ w \in Seq(Bytes) /\ n \in Nat /\ Len(source) + 6 <= n
        /\ \A i \in 1 .. n : w[i] = LF \/ w[i] = Decision \/ w[i] = Done \/ w[i].is = "delta"
        /\ \A i \in 1 .. n : w[i] = Done <=> i = n - 2
    BY <1>a, <1>b, WholeIs
  <2>2. Len(source) \in Nat
    BY SourceIs
  <2>3. \A i \in 1 .. n : w[i] = LF \/ (w[i + 1] = LF /\ w[i + 2] = LF)
    BY <1>a, <1>b, WholeIs
  <2>4. n - 2 \in 1 .. n /\ (n - 2) + 1 = n - 1 /\ (n - 2) + 2 = n
    BY <2>1, <2>2
  <2>5. w[n - 1] = LF /\ w[n] = LF
    BY <2>1, <2>3, <2>4, Marks
  <2> QED
    BY <1>a, <1>b, <2>1, <2>2, <2>5
<1>2. /\ events \in Seq(Events) /\ (Told <=> n - 2 <= p)
      /\ \A i \in 1 .. Len(events) : events[i].event = "complete" => i = Len(events)
      /\ Len(Shown) = Len(D)
      /\ \A k \in 1 .. Len(D) : Shown[k].block = D[k].block /\ Shown[k].n = D[k].n
  BY <1>a, <1>b, <1>c DEF TranslatedTo, DeltasTo
<1>3. ASSUME events' \in Seq(Events), Told' <=> n - 2 <= h,
             \A i \in 1 .. Len(events') : events'[i].event = "complete" => i = Len(events'),
             Len(Shown') = Len(E),
             \A k \in 1 .. Len(E) : Shown'[k].block = E[k].block /\ Shown'[k].n = E[k].n
      PROVE  TranslatedTo(h)'
  BY <1>3, <1>a, <1>b, <1>d DEF TranslatedTo, DeltasTo
<1>4. \A i \in p + 1 .. h : i \in 1 .. n
  BY <1>1
<1>5. Shown = ShownOf(events) /\ Shown' = ShownOf(events')
  BY DEF Shown, ShownOf
\* Nothing but line feeds.
<1>6. CASE x = <<>> /\ \A i \in p + 1 .. h : w[i] = LF
  <2>1. opened' = opened /\ events' = events
    BY <1>6 DEF Translate
  <2>2. E = D
    <3>1. \A i \in p + 1 .. h : w[i].is # "delta"
      BY <1>6, Marks
    <3> QED
      BY <3>1, <1>a, <1>c, <1>d, Cuts
  <2>3. n - 2 <= p <=> n - 2 <= h
    <3> SUFFICES ASSUME n - 2 <= h, ~(n - 2 <= p) PROVE FALSE
      BY <1>1
    <3>1. n - 2 \in p + 1 .. h
      BY <1>1
    <3> QED
      BY <1>1, <1>4, <1>6, <3>1, Marks
  <2>4. (Told' <=> Told) /\ Shown' = Shown
    BY <2>1 DEF Told, Shown
  <2>5. TranslatedTo(h)'
    BY <1>2, <1>3, <2>1, <2>2, <2>3, <2>4
  <2>6. Framed(client)'
    <3>1. \A e, b : Positions(e, b)' = Positions(e, b)
      BY <2>1 DEF Positions
    <3>2. Len(events') >= Len(events) /\ Len(events) \in Nat /\ Len(events') \in Nat
      BY <1>2, <2>1
    <3> QED
      BY <2>1, <2>4, <3>1, <3>2, FramedQuiet
  <2> QED
    BY <2>5, <2>6
\* One event.
<1>7. ASSUME NEW d \in p + 1 .. h, x = <<w[d]>>, w[d] # LF,
             \A i \in p + 1 .. h : i # d => w[i] = LF
      PROVE  TranslatedTo(h)' /\ Framed(client)'
  <2>1. x = <<w[d]>> /\ Len(x) = 1 /\ x[1] = w[d] /\ d \in 1 .. n
    BY <1>4, <1>7
  <2>2. \A i \in p + 1 .. h : i # d => w[i].is # "delta"
    BY <1>7, Marks
  <2>3. w[d] # Done => (n - 2 <= p <=> n - 2 <= h)
    <3> SUFFICES ASSUME w[d] # Done, n - 2 <= h, ~(n - 2 <= p) PROVE FALSE
      BY <1>1
    <3>1. n - 2 \in p + 1 .. h /\ n - 2 \in 1 .. n
      BY <1>1
    <3>2. w[n - 2] = Done
      BY <1>1, <3>1
    <3> QED
      BY <1>7, <3>1, <3>2, Marks
  <2>4. w[d].is # "delta" => E = D
    <3> SUFFICES ASSUME w[d].is # "delta" PROVE E = D
      OBVIOUS
    <3>1. \A i \in p + 1 .. h : w[i].is # "delta"
      BY <2>2
    <3> QED
      BY <3>1, <1>a, <1>c, <1>d, Cuts
  <2>5. ~(n - 2 <= p) /\ ~Told
    <3> SUFFICES ASSUME n - 2 <= p PROVE FALSE
      BY <1>2
    <3>1. d = n - 1 \/ d = n
      BY <1>1
    <3> QED
      BY <1>1, <1>7, <3>1
  \* The decision.
  <2>6. CASE w[d] = Decision
    <3> DEFINE more == <<[event |-> "decision"]>>
    <3>1. events' = events \o more /\ opened' = opened
      <4>1. events' = Append(events, [event |-> "decision"]) /\ opened' = opened
        BY <2>1, <2>6, Marks DEF Translate
      <4> QED
        BY <1>2, <4>1
    <3>2. more \in Seq(Events) /\ Len(more) = 1 /\ more[1].event = "decision"
      BY DEF Events
    <3> HIDE DEF more
    <3>3. /\ events' \in Seq(Events) /\ Len(events') = Len(events) + 1
          /\ \A i \in 1 .. Len(events) : events'[i] = events[i]
          /\ events'[Len(events) + 1].event = "decision"
          /\ Told' <=> Told
      <4>1. 1 \in 1 .. Len(more) /\ \A i \in 1 .. Len(more) : i = 1
        BY <3>2
      <4> QED
        <5>1. events \in Seq(Events)
          BY <1>2
        <5>2. /\ events' \in Seq(Events) /\ Len(events') = Len(events) + Len(more)
              /\ \A i \in 1 .. Len(events) : events'[i] = events[i]
              /\ \A i \in 1 .. Len(more) : events'[Len(events) + i] = more[i]
              /\ Told' <=> Told \/ \E i \in 1 .. Len(more) : more[i].event = "complete"
          BY <3>1, <3>2, <5>1, EventsMore
        <5> QED
          BY <3>2, <4>1, <5>2
    <3>4. Shown' = Shown
      BY <1>2, <1>5, <3>1, <3>2, ShownSame
    <3>5. \A e, b : e # "decision" => Positions(e, b)' = Positions(e, b)
      <4> SUFFICES ASSUME NEW e, NEW b, e # "decision" PROVE Positions(e, b)' = Positions(e, b)
        OBVIOUS
      <4>1. PlacesOf(more, e, b) = {}
        BY <3>2 DEF PlacesOf
      <4> QED
        <5>1. Positions(e, b)' = Positions(e, b) \cup {Len(events) + i : i \in PlacesOf(more, e, b)}
          BY <1>2, <3>1, <3>2, EventsMore
        <5> QED
          BY <4>1, <5>1
    <3>6. Len(events') >= Len(events) /\ Len(events) \in Nat /\ Len(events') \in Nat
      BY <1>2, <3>3
    <3>7. Framed(client)'
      BY <3>1, <3>3, <3>5, <3>6, FramedQuiet
    <3>8. w[d].is # "delta" /\ w[d] # Done
      BY <2>6, Marks
    <3>9. ASSUME NEW i \in 1 .. Len(events'), events'[i].event = "complete" PROVE FALSE
      <4>1. i \in 1 .. Len(events) \/ i = Len(events) + 1
        BY <1>2, <3>3
      <4>2. CASE i \in 1 .. Len(events)
        BY <2>5, <3>3, <3>9, <4>2 DEF Told
      <4> QED
        BY <3>3, <3>9, <4>1, <4>2
    <3>10. TranslatedTo(h)'
      BY <1>2, <1>3, <2>3, <2>4, <3>3, <3>4, <3>8, <3>9
    <3> QED
      BY <3>7, <3>10
  \* The end marker.
  <2>7. CASE w[d] = Done
    <3>a. PICK c : c = Closing(client)
      OBVIOUS
    <3>1. events' = events \o c /\ opened' = opened
      BY <2>1, <2>7, <3>a, Marks DEF Translate
    <3>2. opened \subseteq Blocks /\ IsFiniteSet(opened)
      BY DEF Framed
    <3>3. /\ c \in Seq(Events) /\ Len(c) >= 1 /\ c[Len(c)].event = "complete"
          /\ \A i \in 1 .. Len(c) : i # Len(c) => c[i].event = "stop"
      <4> DEFINE Q == [event : {"stop"}, block : Blocks] \cup {[event |-> "complete"]}
      <4>1. Q \subseteq Events
        BY DEF Events
      <4> HIDE DEF Q
      <4>2. /\ c \in Seq(Q) /\ Len(c) >= 1 /\ c[Len(c)] = [event |-> "complete"]
            /\ \A i \in 1 .. Len(c) : i # Len(c) => c[i].event = "stop"
        BY <3>2, <3>a, ClosingIs DEF Q
      <4>3. c \in Seq(Events)
        BY <4>1, <4>2, SeqMonotonic
      <4> QED
        BY <4>2, <4>3
    <3>4. /\ events' \in Seq(Events) /\ Len(events') = Len(events) + Len(c)
          /\ \A i \in 1 .. Len(events) : events'[i] = events[i]
          /\ \A i \in 1 .. Len(c) : events'[Len(events) + i] = c[i]
          /\ Told' <=> Told \/ \E i \in 1 .. Len(c) : c[i].event = "complete"
      BY <1>2, <3>1, <3>3, EventsMore
    <3>5. Len(c) \in 1 .. Len(c) /\ Len(c) \in Nat /\ Len(events) \in Nat
      BY <1>2, <3>3
    <3>6. Told'
      BY <3>3, <3>4, <3>5
    <3>7. Shown' = Shown
      <4>1. \A i \in 1 .. Len(c) : c[i].event # "delta"
        BY <3>3, <3>5
      <4> QED
        BY <1>2, <1>5, <3>1, <3>3, <4>1, ShownSame
    <3>8. n - 2 <= h
      <4>1. d = n - 2
        BY <1>1, <2>1, <2>7
      <4> QED
        BY <1>1, <4>1
    <3>9. ASSUME NEW i \in 1 .. Len(events'), events'[i].event = "complete" PROVE i = Len(events')
      <4>1. CASE i \in 1 .. Len(events)
        BY <2>5, <3>4, <3>9, <4>1 DEF Told
      <4>2. ASSUME NEW j \in 1 .. Len(c), i = Len(events) + j PROVE j = Len(c)
        BY <3>3, <3>4, <3>9, <4>2
      <4>3. i \in 1 .. Len(events) \/ \E j \in 1 .. Len(c) : i = Len(events) + j
        <5> SUFFICES ASSUME i \notin 1 .. Len(events) PROVE \E j \in 1 .. Len(c) : i = Len(events) + j
          OBVIOUS
        <5>1. i - Len(events) \in 1 .. Len(c) /\ i = Len(events) + (i - Len(events))
          BY <3>4, <3>5
        <5> QED
          BY <5>1
      <4> QED
        BY <3>4, <4>1, <4>2, <4>3
    <3>10. E = D
      BY <2>4, <2>7, Marks
    <3>11. TranslatedTo(h)'
      BY <1>2, <1>3, <3>4, <3>6, <3>7, <3>8, <3>9, <3>10
    <3>12. Framed(client)'
      BY <1>2, <2>5, <3>1, <3>6, <3>a, FramedClose
    <3> QED
      BY <3>11, <3>12
  \* A delta.
  <2>8. CASE w[d].is = "delta"
    <3>a. PICK b : b = w[d].block
      OBVIOUS
    <3>b. PICK e : e = [event |-> "delta", block |-> b, n |-> w[d].n]
      OBVIOUS
    <3>c. PICK opening : opening = IF Opens(client, b) THEN <<[event |-> "start", block |-> b]>> ELSE <<>>
      OBVIOUS
    <3>d. PICK more : more = opening \o <<e>>
      OBVIOUS
    <3>1. /\ events' = events \o opening \o <<e>>
          /\ opened' = IF Opens(client, b) THEN opened \cup {b} ELSE opened
      BY <2>1, <2>8, <3>a, <3>b, <3>c, Marks DEF Translate
    <3>2. b \in Blocks /\ e \in Events /\ e.event = "delta" /\ e.block = b /\ e.n = w[d].n
      <4>1. w[d] \in DeltaBytes
        BY <1>1, <1>b, <2>1, <2>8 DEF DeltaBytes
      <4>2. b \in Blocks
        BY <3>a, <4>1 DEF Blocks
      <4>3. e \in DeltaEvents
        BY <3>a, <3>b, <4>1 DEF DeltaEvents
      <4> QED
        BY <3>b, <4>2, <4>3 DEF Events
    <3>3. \/ Opens(client, b) /\ Len(opening) = 1 /\ opening[1] = [event |-> "start", block |-> b]
          \/ ~Opens(client, b) /\ Len(opening) = 0
      BY <3>c
    <3>4. opening \in Seq(Events)
      <4>1. [event |-> "start", block |-> b] \in Events
        BY <3>2 DEF Events
      <4> QED
        BY <3>c, <4>1
    <3>5. /\ more \in Seq(Events) /\ Len(more) = Len(opening) + 1
          /\ \A i \in 1 .. Len(opening) : more[i] = opening[i]
          /\ more[Len(opening) + 1] = e
      BY <3>2, <3>4, <3>d
    <3>6. events' = events \o more
      <4>1. <<e>> \in Seq(Events) /\ events \in Seq(Events)
        BY <1>2, <3>2
      <4> QED
        BY <3>1, <3>4, <3>d, <4>1, Associates
    <3>7. /\ events' \in Seq(Events) /\ Len(events') = Len(events) + Len(more)
          /\ \A i \in 1 .. Len(events) : events'[i] = events[i]
          /\ \A i \in 1 .. Len(more) : events'[Len(events) + i] = more[i]
          /\ Told' <=> Told \/ \E i \in 1 .. Len(more) : more[i].event = "complete"
      BY <1>2, <3>5, <3>6, EventsMore
    <3>8. \A i \in 1 .. Len(more) : \/ i = Len(more) /\ more[i] = e
                                    \/ i = 1 /\ i < Len(more) /\ more[i] = [event |-> "start", block |-> b]
      BY <3>3, <3>5
    <3>9. ~Told'
      BY <2>5, <3>2, <3>7, <3>8
    <3>10. /\ Len(Shown') = Len(Shown) + 1 /\ Shown'[Len(Shown) + 1] = e
           /\ \A k \in 1 .. Len(Shown) : Shown'[k] = Shown[k]
      <4>1. ShownOf(events \o opening) = ShownOf(events)
        <5>1. \A i \in 1 .. Len(opening) : opening[i].event # "delta"
          BY <3>3
        <5> QED
          BY <1>2, <3>4, <5>1, ShownSame
      <4>2. events \o opening \in Seq(Events)
        BY <1>2, <3>4
      <4> QED
        <5>1. PICK ev : ev = events \o opening
          OBVIOUS
        <5>2. /\ Len(ShownOf(ev \o <<e>>)) = Len(ShownOf(ev)) + 1
              /\ ShownOf(ev \o <<e>>)[Len(ShownOf(ev)) + 1] = e
              /\ \A k \in 1 .. Len(ShownOf(ev)) : ShownOf(ev \o <<e>>)[k] = ShownOf(ev)[k]
          BY <3>2, <4>2, <5>1, ShownMore
        <5>3. Shown' = ShownOf(ev \o <<e>>) /\ Shown = ShownOf(ev)
          BY <1>5, <3>1, <4>1, <5>1
        <5> QED
          BY <5>2, <5>3
    <3>11. /\ Len(E) = Len(D) + 1 /\ E[Len(D) + 1] = w[d]
           /\ \A k \in 1 .. Len(D) : E[k] = D[k]
      BY <2>2, <2>8, <1>a, <1>c, <1>d, Cuts
    <3>12. TranslatedTo(h)'
      <4>1. ~(n - 2 <= h)
        BY <2>3, <2>8, <2>5, Marks
      <4>2. \A i \in 1 .. Len(events') : events'[i].event # "complete"
        BY <3>9 DEF Told
      <4>3. Len(Shown') = Len(E)
        BY <1>2, <3>10, <3>11
      <4>4. ASSUME NEW k \in 1 .. Len(E)
            PROVE  Shown'[k].block = E[k].block /\ Shown'[k].n = E[k].n
        <5>1. Len(D) \in Nat
          <6>1. p <= Len(Whole(source))
            BY <1>1, <1>a, <1>b
          <6> QED
            BY <1>c, <6>1, DeltasAre
        <5>2. CASE k = Len(D) + 1
          BY <1>2, <3>2, <3>10, <3>11, <3>a, <5>2
        <5>3. CASE k \in 1 .. Len(D)
          BY <1>2, <3>10, <3>11, <5>3
        <5> QED
          BY <3>11, <5>1, <5>2, <5>3
      <4> QED
        BY <1>3, <3>7, <3>9, <4>1, <4>2, <4>3, <4>4
    <3>13. client = "anthropic" => Framed(client)'
      <4> SUFFICES ASSUME client = "anthropic" PROVE Framed(client)'
        OBVIOUS
      <4>1. Len(more) \in 1 .. Len(more) /\ Len(more) \in Nat
        BY <3>3, <3>5
      <4>2. PlacesOf(more, "delta", b) = {Len(more)} /\ PlacesOf(more, "stop", b) = {}
        BY <3>2, <3>8, <4>1 DEF PlacesOf
      <4>3. \A f \in {"start", "stop", "delta"} : \A c \in Blocks \ {b} : PlacesOf(more, f, c) = {}
        BY <3>2, <3>8 DEF PlacesOf
      <4>4. events \in Seq(Events) /\ more \in Seq(Events) /\ b \in Blocks
        BY <1>2, <3>2, <3>5
      <4>5. CASE Opens(client, b)
        <5>1. b \notin opened /\ opened' = opened \cup {b}
          BY <3>1, <4>5 DEF Opens
        <5>2. Len(more) = 2 /\ more[1] = [event |-> "start", block |-> b] /\ more[2] = e
          BY <3>3, <3>5, <4>5
        <5>3. PlacesOf(more, "start", b) = {1}
          BY <3>2, <5>2 DEF PlacesOf
        <5>4. 1 \in 1 .. Len(more) /\ 1 < Len(more)
          BY <5>2
        <5> QED
          BY <2>5, <3>6, <3>9, <4>1, <4>2, <4>3, <4>4, <5>1, <5>3, <5>4, FramedDelta
      <4>6. CASE ~Opens(client, b)
        <5>1. b \in opened /\ opened' = opened
          BY <3>1, <4>6 DEF Opens
        <5>2. Len(more) = 1 /\ more[1] = e
          BY <3>3, <3>5, <4>6
        <5>3. PlacesOf(more, "start", b) = {}
          BY <3>2, <5>2 DEF PlacesOf
        <5> QED
          BY <2>5, <3>6, <3>9, <4>1, <4>2, <4>3, <4>4, <5>1, <5>3, FramedDelta
      <4> QED
        BY <4>5, <4>6
    <3>14. client # "anthropic" => Framed(client)'
      <4>1. opened' \in SUBSET Blocks /\ IsFiniteSet(opened')
        <5>1. opened \in SUBSET Blocks /\ IsFiniteSet(opened)
          BY DEF Framed
        <5>2. IsFiniteSet(opened \cup {b})
          BY <5>1, FS_AddElement
        <5> QED
          BY <3>1, <3>2, <5>1, <5>2
      <4> QED
        BY <4>1 DEF Framed
    <3> QED
      BY <3>12, <3>13, <3>14
  <2> QED
    BY <1>1, <1>7, <2>1, <2>6, <2>7, <2>8
<1> QED
  BY <1>6, <1>7, <1>a DEF CutTo

----------------------------------------------------------------------------
(* The invariant: what is cut is translated, and before a stream there is none. *)
Streaming == stage \in {"answer", "done"} /\ req.stream

StreamInv ==
    /\ Framed(req.api)
    /\ Streaming => HeldBack /\ \E p \in Nat : Buffered(p) /\ TranslatedTo(p)
    /\ ~Streaming => tail = <<>> /\ buffer = <<>> /\ events = <<>> /\ opened = {}

\* What the client was shown depends on its events and the stream alone,
LEMMA TranslatedStays ==
    ASSUME NEW p, TranslatedTo(p), UNCHANGED <<source, events>> PROVE TranslatedTo(p)'
<1>1. (Told' <=> Told) /\ Shown' = Shown
  BY DEF Told, Shown
<1> QED
  BY <1>1 DEF TranslatedTo

\* and so do its blocks on its events and what is open.
LEMMA FramedStays ==
    ASSUME NEW client, Framed(client), UNCHANGED <<opened, events>> PROVE Framed(client)'
<1>1. Told' <=> Told
  BY DEF Told
<1>2. \A e, b : Positions(e, b)' = Positions(e, b)
  BY DEF Positions
<1> QED
  BY <1>1, <1>2 DEF Framed

\* Without events no block is open,
LEMMA FramedNone ==
    ASSUME NEW client, events = <<>>, opened = {} PROVE Framed(client)
<1>1. \A e, b : Positions(e, b) = {}
  BY DEF Positions
<1>2. opened \in SUBSET Blocks /\ IsFiniteSet(opened)
  BY FS_EmptySet
<1> QED
  BY <1>1, <1>2 DEF Framed

\* and nothing has been shown.
LEMMA TranslatedNone ==
    ASSUME PlainUpstream, source \in Upstream, events = <<>> PROVE TranslatedTo(0)
<1>1. events \in Seq(Events) /\ Len(events) = 0
  OBVIOUS
<1>2. ~Told
  BY <1>1 DEF Told
<1>3. Whole(source) \in Seq(Bytes) /\ Len(Whole(source)) \in Nat /\ 6 <= Len(Whole(source))
  <2>1. Len(source) \in Nat /\ Len(source) + 6 <= Len(Whole(source))
        /\ Whole(source) \in Seq(Bytes) /\ Len(Whole(source)) \in Nat
    BY WholeIs, SourceIs
  <2> QED
    BY <2>1
<1>4. Len(Shown) = 0
  <2>1. Picked(events, {e \in ToSet(events) : e.event = "delta"}) = {}
    BY <1>1 DEF Picked
  <2>2. Kept(events, {e \in ToSet(events) : e.event = "delta"}) = <<>>
    BY <1>1, <2>1, KeptFew
  <2> QED
    BY <2>2 DEF Shown
<1>5. Len(Deltas(SubSeq(Whole(source), 1, 0))) = 0
  <2>a. PICK s : s = SubSeq(Whole(source), 1, 0)
    OBVIOUS
  <2>0. s \in Seq(Bytes) /\ Len(s) = 0
    BY <1>3, <2>a
  <2>1. Picked(s, {b \in ToSet(s) : b.is = "delta"}) = {}
    BY <2>0 DEF Picked
  <2>2. Kept(s, {b \in ToSet(s) : b.is = "delta"}) = <<>>
    BY <2>0, <2>1, KeptFew
  <2> QED
    BY <2>a, <2>2 DEF Deltas
<1>6. ~(Len(Whole(source)) - 2 <= 0)
  BY <1>3
<1> QED
  BY <1>1, <1>2, <1>4, <1>5, <1>6 DEF TranslatedTo

\* Before a request there is no stream,
LEMMA StreamStarts == PathInit => StreamInv
<1> SUFFICES ASSUME PathInit PROVE StreamInv
  OBVIOUS
<1>1. stage = "read" /\ tail = <<>> /\ buffer = <<>> /\ events = <<>> /\ opened = {}
  BY DEF PathInit, StreamInit
<1>2. ~Streaming
  BY <1>1 DEF Streaming
<1> QED
  BY <1>1, <1>2, FramedNone DEF StreamInv

\* A step that leaves the stream alone.
LEMMA StreamStays ==
    ASSUME StreamInv, UNCHANGED <<streamVars, req>>, Streaming' <=> Streaming
    PROVE  StreamInv'
<1>1. UNCHANGED <<source, arrived, link, tail, buffer, opened, events>> /\ req' = req
  BY DEF streamVars
<1>2. Framed(req.api)'
  <2>1. Framed(req.api)
    BY DEF StreamInv
  <2>a. PICK client : client = req.api
    OBVIOUS
  <2>2. Framed(client)'
    BY <1>1, <2>1, <2>a, FramedStays
  <2> QED
    BY <1>1, <2>2, <2>a
<1>3. CASE Streaming
  <2>1. HeldBack'
    BY <1>1, <1>3 DEF HeldBack, StreamInv
  <2>2. PICK p \in Nat : Buffered(p) /\ TranslatedTo(p)
    BY <1>3 DEF StreamInv
  <2>3. TranslatedTo(p)'
    BY <1>1, <2>2, TranslatedStays
  <2>4. Buffered(p)'
    BY <1>1, <2>2 DEF Buffered, Passed
  <2> QED
    BY <1>2, <1>3, <2>1, <2>3, <2>4 DEF StreamInv
<1>4. CASE ~Streaming
  BY <1>1, <1>2, <1>4 DEF StreamInv
<1> QED
  BY <1>3, <1>4

\* and every step keeps the stream sound.
LEMMA StreamStep ==
    PlainUpstream /\ StreamInv /\ [PathNext]_requestVars => StreamInv'
<1> SUFFICES ASSUME PlainUpstream, StreamInv, [PathNext]_requestVars PROVE StreamInv'
  OBVIOUS
\* Before a request is sent no stream is open.
<1>1. ASSUME stage \in {"read", "route", "bind", "send"}, UNCHANGED <<streamVars, req>>,
             stage' \in {"read", "route", "bind", "send", "refused"}
      PROVE  StreamInv'
  <2>1. ~Streaming /\ ~Streaming'
    BY <1>1 DEF Streaming
  <2> QED
    BY <1>1, <2>1, StreamStays
<1>2. CASE Read
  BY <1>1, <1>2 DEF Read
<1>3. CASE RefuseUnread
  BY <1>1, <1>3 DEF RefuseUnread, Refuse, pathVars
<1>4. CASE Route_request
  BY <1>1, <1>4 DEF Route_request
<1>5. CASE RefuseUnroutable
  BY <1>1, <1>5 DEF RefuseUnroutable, Refuse, pathVars
<1>6. CASE Bind
  BY <1>1, <1>6 DEF Bind
<1>7. CASE RefuseUnsent
  BY <1>1, <1>7 DEF RefuseUnsent, Refuse, pathVars
<1>8. CASE Send
  <2>1. stage = "send" /\ stage' = "answer" /\ req' = req
    BY <1>8 DEF Send
  <2>2. CASE ~req.stream
    <3>1. UNCHANGED streamVars
      BY <1>8, <2>2 DEF Send
    <3>2. ~Streaming /\ ~Streaming'
      BY <2>1, <2>2 DEF Streaming
    <3> QED
      BY <2>1, <3>1, <3>2, StreamStays
  <2>3. CASE req.stream
    <3>1. OpenStream
      BY <1>8, <2>3 DEF Send
    <3>2. ~Streaming /\ Streaming'
      BY <2>1, <2>3 DEF Streaming
    <3>3. tail = <<>> /\ buffer = <<>> /\ events = <<>> /\ opened = {}
      BY <3>2 DEF StreamInv
    <3>4. HeldBack' /\ Buffered(0)'
      BY <3>1, <3>3, OpenFlows
    <3>5. source' \in Upstream /\ events' = <<>> /\ opened' = {}
      BY <3>1, <3>3 DEF OpenStream
    <3>6. TranslatedTo(0)'
      <4>1. (source \in Upstream /\ events = <<>> => TranslatedTo(0))'
        BY TranslatedNone, PTL
      <4> QED
        BY <3>5, <4>1
    <3>7. Framed(req.api)'
      <4>1. PICK client : client = req.api
        OBVIOUS
      <4>2. (events = <<>> /\ opened = {} => Framed(client))'
        BY FramedNone, PTL
      <4> QED
        BY <2>1, <3>5, <4>1, <4>2
    <3> QED
      BY <3>2, <3>4, <3>6, <3>7 DEF StreamInv
  <2> QED
    BY <2>2, <2>3
<1>9. CASE Answer
  <2>1. ~Streaming /\ ~Streaming' /\ UNCHANGED <<streamVars, req>>
    BY <1>9 DEF Answer, Streaming
  <2> QED
    BY <2>1, StreamStays
<1>10. CASE Stream
  <2>a. PICK client : client = req.api
    OBVIOUS
  <2>1. Streaming /\ Streaming' /\ req' = req
    BY <1>10 DEF Stream, Streaming, pathVars
  <2>2. HeldBack /\ Framed(client)
    BY <2>1, <2>a DEF StreamInv
  <2>3. PICK p \in Nat : Buffered(p) /\ TranslatedTo(p)
    BY <2>1 DEF StreamInv
  \* What the translator is given changes, not what it has made of it.
  <2>4. ASSUME HeldBack', Buffered(p)', UNCHANGED <<source, opened, events>> PROVE StreamInv'
    <3>1. TranslatedTo(p)' /\ Framed(client)'
      BY <2>2, <2>3, <2>4, TranslatedStays, FramedStays
    <3>2. Framed(req.api)'
      BY <2>1, <2>a, <3>1
    <3> QED
      BY <2>1, <2>4, <3>1, <3>2 DEF StreamInv
  <2>5. ASSUME NEW k \in 1 .. Len(source), Arrive(k) PROVE StreamInv'
    <3>1. UNCHANGED <<source, opened, events>>
      BY <2>5 DEF Arrive
    <3>2. HeldBack' /\ Buffered(p)'
      BY <2>2, <2>3, <2>5, ArriveFlows
    <3> QED
      BY <2>4, <3>1, <3>2
  <2>6. CASE Finish
    <3>1. UNCHANGED <<source, opened, events>>
      BY <2>6 DEF Finish
    <3>2. HeldBack' /\ Buffered(p)'
      BY <2>2, <2>3, <2>6, FinishFlows
    <3> QED
      BY <2>4, <3>1, <3>2
  <2>7. CASE Break \/ FinishFails
    <3>1. UNCHANGED <<source, opened, events>>
      BY <2>7 DEF Break, FinishFails
    <3>2. HeldBack' /\ Buffered(p)'
      BY <2>2, <2>3, <2>7, BreakFlows
    <3> QED
      BY <2>4, <3>1, <3>2
  <2>8. CASE NextEvent(req.api)
    <3>0. NextEvent(client)
      BY <2>8, <2>a
    <3>1. /\ HeldBack' /\ source' = source
          /\ \E h \in Nat : \E x : /\ p <= h /\ h <= Len(Whole(source)) /\ Buffered(h)'
                                   /\ Translate(client, x) /\ CutTo(p, h, x)
      BY <2>2, <2>3, <3>0, NextEventFlows
    <3>2. PICK h \in Nat : \E x : /\ p <= h /\ h <= Len(Whole(source)) /\ Buffered(h)'
                                  /\ Translate(client, x) /\ CutTo(p, h, x)
      BY <3>1
    <3>3. PICK x : /\ p <= h /\ h <= Len(Whole(source)) /\ Buffered(h)'
                   /\ Translate(client, x) /\ CutTo(p, h, x)
      BY <3>2
    <3>4. source \in Upstream
      BY <2>2 DEF HeldBack
    <3>5. TranslatedTo(h)' /\ Framed(client)'
      BY <2>2, <2>3, <3>1, <3>3, <3>4, CutTranslates
    <3>6. Framed(req.api)'
      BY <2>1, <2>a, <3>5
    <3> QED
      BY <2>1, <3>1, <3>3, <3>5, <3>6 DEF StreamInv
  <2>9. CASE EndDelivery
    <3>1. UNCHANGED <<source, arrived, link, tail, buffer, opened, events>>
      BY <2>9 DEF EndDelivery
    <3>2. HeldBack'
      BY <2>2, <3>1 DEF HeldBack
    <3>3. Buffered(p)'
      BY <2>3, <3>1 DEF Buffered, Passed
    <3> QED
      BY <2>4, <3>1, <3>2, <3>3
  <2> QED
    BY <1>10, <2>5, <2>6, <2>7, <2>8, <2>9 DEF Stream
<1>11. CASE UNCHANGED requestVars
  <2>1. UNCHANGED <<streamVars, req>> /\ stage' = stage
    BY <1>11 DEF requestVars, pathVars
  <2>2. Streaming' <=> Streaming
    BY <2>1 DEF Streaming
  <2> QED
    BY <2>1, <2>2, StreamStays
<1> QED
  BY <1>2, <1>3, <1>4, <1>5, <1>6, <1>7, <1>8, <1>9, <1>10, <1>11 DEF PathNext

\* A stream that is sound is complete when its client is told so.
LEMMA CompleteThen ==
    ASSUME PlainUpstream, StreamInv PROVE CompleteIsWhole
<1> DEFINE told == {i \in DOMAIN events : events[i].event = "complete"}
<1> SUFFICES ASSUME told # {}
             PROVE  /\ told = {Len(events)} /\ link = "ended"
                    /\ [i \in DOMAIN Shown |-> <<Shown[i].block, Shown[i].n>>] =
                       [i \in DOMAIN Deltas(source) |-> <<Deltas(source)[i].block, Deltas(source)[i].n>>]
                    /\ req.api = "anthropic" =>
                         \A b \in opened : /\ Cardinality(Positions("start", b)) = 1
                                           /\ Cardinality(Positions("stop", b)) = 1
                                           /\ Max(Positions("start", b)) < Min(Positions("delta", b))
                                           /\ Max(Positions("delta", b)) < Max(Positions("stop", b))
  BY DEF CompleteIsWhole
<1>1. Streaming
  <2> SUFFICES ASSUME events = <<>> PROVE FALSE
    BY DEF StreamInv
  <2> QED
    OBVIOUS
<1>2. HeldBack /\ Framed(req.api)
  BY <1>1 DEF StreamInv
<1>3. PICK p \in Nat : Buffered(p) /\ TranslatedTo(p)
  BY <1>1 DEF StreamInv
<1>a. PICK w : w = Whole(source)
  OBVIOUS
<1>b. PICK n : n = Len(w)
  OBVIOUS
<1>c. PICK L : L = Len(source)
  OBVIOUS
<1>d. PICK D : D = Deltas(SubSeq(w, 1, p))
  OBVIOUS
<1>4. /\ events \in Seq(Events) /\ (Told <=> n - 2 <= p)
      /\ \A i \in 1 .. Len(events) : events[i].event = "complete" => i = Len(events)
      /\ Len(Shown) = Len(D)
      /\ \A k \in 1 .. Len(D) : Shown[k].block = D[k].block /\ Shown[k].n = D[k].n
  BY <1>3, <1>a, <1>b, <1>d DEF TranslatedTo
<1>5. DOMAIN events = 1 .. Len(events) /\ Len(events) \in Nat
  BY <1>4
<1>6. Told /\ n - 2 <= p
  BY <1>4, <1>5 DEF Told
<1>7. told = {Len(events)}
  BY <1>4, <1>5
<1>8. /\ source \in Upstream /\ source \in Seq(Bytes) /\ L \in Nat
      /\ w \in Seq(Bytes) /\ n \in Nat /\ L + 6 <= n
      /\ \A i \in 1 .. n : w[i].is = "delta" => i <= L /\ source[i] = w[i]
      /\ \A i \in 1 .. L : source[i].is = "delta" => w[i] = source[i]
  <2>1. source \in Upstream
    BY <1>2 DEF HeldBack
  <2>2. source \in Seq(Bytes) /\ L \in Nat
    BY <1>c, <2>1, SourceIs
  <2>3. /\ w \in Seq(Bytes) /\ n \in Nat /\ L + 6 <= n
        /\ \A i \in 1 .. n : w[i].is = "delta" => i <= L /\ source[i] = w[i]
        /\ \A i \in 1 .. L : source[i].is = "delta" => w[i] = source[i]
    BY <1>a, <1>b, <1>c, <2>1, WholeIs
  <2> QED
    BY <2>1, <2>2, <2>3
<1>9. p <= n /\ link = "ended"
  <2>1. Passed <= n /\ (link # "ended" => Passed < n - 2)
    BY <1>2, <1>a, <1>b, PassedBound
  <2>2. Passed = p + Len(buffer) /\ Len(buffer) \in Nat
    BY <1>3 DEF Buffered
  <2> QED
    BY <1>6, <1>8, <2>1, <2>2
\* All the provider's deltas have been cut.
<1>10. D = Deltas(source)
  <2>a. PICK t : t = SubSeq(w, 1, p)
    OBVIOUS
  <2>1. t \in Seq(Bytes) /\ Len(t) = p /\ \A i \in 1 .. p : t[i] = w[i]
    BY <1>8, <1>9, <1>b, <2>a
  <2>2. \A i \in 1 .. Len(source) : source[i].is = "delta" => i <= Len(t) /\ t[i] = source[i]
    <3> SUFFICES ASSUME NEW i \in 1 .. L, source[i].is = "delta" PROVE i <= p /\ t[i] = source[i]
      BY <1>c, <2>1
    <3>1. i \in 1 .. p
      BY <1>6, <1>8, <1>9
    <3> QED
      BY <1>8, <2>1, <3>1
  <2>3. \A i \in 1 .. Len(t) : t[i].is = "delta" => i <= Len(source) /\ t[i] = source[i]
    <3> SUFFICES ASSUME NEW i \in 1 .. p, w[i].is = "delta" PROVE i <= L /\ w[i] = source[i]
      BY <1>c, <2>1
    <3>1. i \in 1 .. n
      BY <1>8, <1>9
    <3> QED
      BY <1>8, <3>1
  <2> QED
    BY <1>8, <1>d, <2>1, <2>2, <2>3, <2>a, DeltasSame
<1>11. [i \in DOMAIN Shown |-> <<Shown[i].block, Shown[i].n>>] =
       [i \in DOMAIN Deltas(source) |-> <<Deltas(source)[i].block, Deltas(source)[i].n>>]
  <2>1. Shown \in Seq(Events) /\ Deltas(source) \in Seq(Bytes)
    BY <1>4, <1>8, KeptIsPicked DEF Shown, Deltas
  <2>2. DOMAIN Shown = 1 .. Len(Shown) /\ DOMAIN Deltas(source) = 1 .. Len(Deltas(source))
    BY <2>1
  <2>3. DOMAIN Shown = DOMAIN Deltas(source)
    BY <1>4, <1>10, <2>2
  <2>4. \A k \in DOMAIN Shown : /\ Shown[k].block = Deltas(source)[k].block
                                /\ Shown[k].n = Deltas(source)[k].n
    BY <1>4, <1>10, <2>2, <2>3
  <2> QED
    BY <2>3, <2>4
<1>12. ASSUME req.api = "anthropic", NEW b \in opened
       PROVE  /\ Cardinality(Positions("start", b)) = 1
              /\ Cardinality(Positions("stop", b)) = 1
              /\ Max(Positions("start", b)) < Min(Positions("delta", b))
              /\ Max(Positions("delta", b)) < Max(Positions("stop", b))
  <2>1. PICK i \in 1 .. Len(events) :
            Positions("start", b) = {i} /\ \A j \in Positions("delta", b) : i < j
    BY <1>2, <1>12 DEF Framed
  <2>2. PICK k \in 1 .. Len(events) :
            Positions("stop", b) = {k} /\ \A j \in Positions("delta", b) : j < k
    BY <1>2, <1>6, <1>12 DEF Framed
  <2>3. Positions("delta", b) # {} /\ Positions("delta", b) \in SUBSET (1 .. Len(events))
    BY <1>2, <1>5, <1>12 DEF Framed, Positions
  <2>4. /\ Min(Positions("delta", b)) \in Positions("delta", b)
        /\ Max(Positions("delta", b)) \in Positions("delta", b)
    BY <1>5, <2>3, FirstAndLast
  <2>5. Max({i}) = i /\ Max({k}) = k
    BY DEF Max
  <2>6. Cardinality({i}) = 1 /\ Cardinality({k}) = 1
    BY FS_Singleton
  <2> QED
    BY <2>1, <2>2, <2>4, <2>5, <2>6
<1> QED
  BY <1>7, <1>9, <1>11, <1>12

\* CompleteIsWhole, for every set of streams that providers of the documented form send,
\* however long and however cut: a client that is told its answer is complete got every
\* delta, in order and once, in blocks that are opened and closed (stream_response,
\* find_sse_event_end, translate_chat_sse_event).
THEOREM CompleteAlways ==
    ASSUME PlainUpstream
    PROVE  PathSpec => []CompleteIsWhole
<1>1. PathInit => StreamInv
  BY StreamStarts
<1>2. StreamInv /\ [PathNext]_requestVars => StreamInv'
  BY StreamStep
<1>3. StreamInv => CompleteIsWhole
  BY CompleteThen
<1> QED
  BY <1>1, <1>2, <1>3, PTL DEF PathSpec

-----------------------------------------------------------------------------
(* ScopeFence.                                                              *)
\* The generation a request was admitted under, and the scope's own.
Seen(r, scope) == IF scope = Tenant THEN request[r].tenant_generation
                  ELSE request[r].task_generation
Current(scope) == IF scope = Tenant THEN tenant_generation ELSE task_generation[scope]

\* The requests whose generations were read in this life of the generations:
\* a restart of the memory backend starts them again at 0, and ends all requests.
Known(r) ==
    /\ request[r].phase # "new"
    /\ restarts = 0 \/ request[r].phase # "ended"

Behind(r) ==
    \/ request[r].tenant_generation < tenant_generation
    \/ request[r].task_generation < TaskGeneration(request[r].task)

\* Generations only grow, and what is replayed has none; a deletion that crossed a
\* request left it behind.
CrossedIsBehind ==
    \A r \in Request :
        /\ request[r].phase # "new" =>
              /\ request[r].tenant_generation <= tenant_generation
              /\ request[r].task_generation <= TaskGeneration(request[r].task)
        /\ Known(r) /\ request[r].crossed => Behind(r)

\* A primary call has a task and a key; a call that is routed has an identity.
Shaped(q) ==
    /\ q.primary => q.task \in Task /\ q.key \in Key
    /\ q.phase \in {"routed", "served"} => q.identity \in Identity

\* A binding says which request wrote it, and of which task.
BindingsAttributed ==
    \A k \in Bound : /\ request[bindings[k].by].phase # "new"
                     /\ request[bindings[k].by].task = bindings[k].task

\* A request that stored its record, or may have, stores no other.
RecordsFinal ==
    /\ \A r \in records \cup gone : request[r].phase = "ended"
    /\ \A d \in Deleter : \A r \in deleter[d].doomed : request[r].phase = "ended"

\* What a deletion is to erase is older than the generation it erases by.
DoomedIsOlder ==
    \A d \in Deleter : \A r \in deleter[d].doomed :
        /\ InScope(r, deleter[d].scope)
        /\ deleter[d].phase = "fenced" =>
               Seen(r, deleter[d].scope) < Current(deleter[d].scope)
        /\ deleter[d].phase = "erasing" =>
               Seen(r, deleter[d].scope) < deleter[d].before

IInv ==
    /\ TypeOK
    /\ IsFiniteSet(Bound)
    /\ \A r \in Request : Shaped(request[r])
    /\ CrossedIsBehind
    /\ BindingsAttributed
    /\ NoBindingResurrected
    /\ RecordsFinal
    /\ DoomedIsOlder
    /\ DeletionRemoves

-----------------------------------------------------------------------------
(* Types of the pieces the actions are made of.                              *)

\* A request's state after its binding is dealt with is one (Past).
LEMMA PastType ==
    ASSUME TypeOK, NEW r \in Request, NEW phase \in {"storing", "ended"}
    PROVE  /\ Past(r, phase) \in RequestState
           /\ Past(r, phase).phase = phase
           /\ Past(r, phase).task = request[r].task
           /\ Past(r, phase).tenant_generation = request[r].tenant_generation
           /\ Past(r, phase).task_generation = request[r].task_generation
           /\ Past(r, phase).crossed = request[r].crossed
           /\ Shaped(Past(r, phase))
<1>1. request[r] \in RequestState
  BY DEF TypeOK
<1>2. QED BY <1>1 DEF Past, RequestState, Reason, Shaped

\* The generation of a request's task, or of its lack of one, is a number.
LEMMA TaskGenerationType ==
    ASSUME TypeOK, NEW t \in Task \cup {NoTask}
    PROVE  TaskGeneration(t) \in Nat
BY DEF TypeOK, TaskGeneration

\* The lookup of a binding and the serving of a request keep what the fence and
\* the deletions go by.
SameScope(q, p) ==
    /\ q.task = p.task
    /\ q.tenant_generation = p.tenant_generation
    /\ q.task_generation = p.task_generation
    /\ q.crossed = p.crossed

\* A request moves on without touching bindings, records or deletions.
LEMMA RequestMoves ==
    ASSUME IInv, NEW r \in Request, NEW q \in RequestState,
           request[r].phase \notin {"new", "ended"}, q.phase # "new",
           SameScope(q, request[r]), Shaped(q),
           request' = [request EXCEPT ![r] = q],
           UNCHANGED <<backend, restarts, generations, deleter, gone>>
    PROVE  /\ request' \in [Request -> RequestState]
           /\ \A s \in Request : Shaped(request'[s])
           /\ CrossedIsBehind'
           /\ \A s \in Request : SameScope(request'[s], request[s])
           /\ \A s \in Request : request[s].phase # "new" => request'[s].phase # "new"
           /\ \A s \in Request : request[s].phase = "ended" => request'[s].phase = "ended"
           /\ DoomedIsOlder'
<1>1. request' \in [Request -> RequestState]
  BY DEF IInv, TypeOK
<1>2. \A s \in Request : SameScope(request'[s], request[s])
  BY DEF IInv, TypeOK, SameScope
<1>3. \A s \in Request : /\ request[s].phase # "new" <=> request'[s].phase # "new"
                         /\ request[s].phase = "ended" => request'[s].phase = "ended"
                         /\ Known(s)' => Known(s)
  BY DEF IInv, TypeOK, Known
<1>4. CrossedIsBehind'
  BY <1>2, <1>3 DEF IInv, CrossedIsBehind, Behind, TaskGeneration, SameScope, generations
<1>5. DoomedIsOlder'
  <2> SUFFICES ASSUME NEW d \in Deleter, NEW s \in deleter[d].doomed
               PROVE  /\ InScope(s, deleter[d].scope)'
                      /\ (deleter[d].phase = "fenced" =>
                             Seen(s, deleter[d].scope) < Current(deleter[d].scope))'
                      /\ (deleter[d].phase = "erasing" =>
                             Seen(s, deleter[d].scope) < deleter[d].before)'
    BY DEF DoomedIsOlder
  <2>1. s \in Request
    BY DEF IInv, TypeOK, DeleterState
  <2>2. SameScope(request'[s], request[s])
    BY <1>2, <2>1
  <2>3. /\ InScope(s, deleter[d].scope)
        /\ deleter[d].phase = "fenced" => Seen(s, deleter[d].scope) < Current(deleter[d].scope)
        /\ deleter[d].phase = "erasing" => Seen(s, deleter[d].scope) < deleter[d].before
    BY DEF IInv, DoomedIsOlder
  <2>4. QED BY <2>2, <2>3 DEF InScope, Seen, Current, SameScope, generations
<1>6. \A s \in Request : Shaped(request'[s])
  BY DEF IInv, TypeOK
<1>7. QED BY <1>1, <1>2, <1>3, <1>4, <1>5, <1>6

\* A step that leaves bindings and records alone keeps what the invariant says of them.
LEMMA StoresStay ==
    ASSUME IInv, UNCHANGED <<backend, restarts, bindings, records, gone>>,
           \A r \in Request : request[r].phase # "new" => request'[r].phase # "new",
           \A r \in Request : request[r].phase = "ended" => request'[r].phase = "ended",
           \A r \in Request : request[r].phase # "new" =>
               request'[r].task = request[r].task /\ request'[r].crossed = request[r].crossed
    PROVE  /\ Bound' = Bound
           /\ BindingsAttributed'
           /\ NoBindingResurrected'
           /\ \A r \in records' \cup gone' : request'[r].phase = "ended"
           /\ DeletionRemoves'
<1>1. Bound' = Bound
  BY DEF Bound
<1>2. \A k \in Bound : bindings[k].by \in Request
  BY DEF IInv, TypeOK, Bound, Binding
<1>3. BindingsAttributed'
  BY <1>1, <1>2 DEF IInv, BindingsAttributed
<1>4. NoBindingResurrected'
  BY <1>1, <1>2 DEF IInv, BindingsAttributed, NoBindingResurrected
<1>5. \A r \in records' \cup gone' : request'[r].phase = "ended"
  BY DEF IInv, TypeOK, RecordsFinal
<1>6. DeletionRemoves'
  BY DEF IInv, DeletionRemoves
<1>7. QED BY <1>1, <1>3, <1>4, <1>5, <1>6

\* The records a deletion is about stay final while the deletions stay.
LEMMA DoomedFinal ==
    ASSUME IInv, UNCHANGED deleter,
           \A r \in Request : request[r].phase = "ended" => request'[r].phase = "ended"
    PROVE  \A d \in Deleter : \A r \in deleter'[d].doomed : request'[r].phase = "ended"
BY DEF IInv, TypeOK, DeleterState, RecordsFinal

-----------------------------------------------------------------------------
(* The actions of a request.                                                 *)

\* Admission reads the generations as they are: the request is not behind them.
LEMMA AdmitKeeps ==
    ASSUME IInv, NEW r \in Request, NEW primary \in BOOLEAN, NEW task \in Task \cup {NoTask},
           NEW key \in Key \cup {NoTask}, Admit(r, primary, task, key)
    PROVE  IInv'
<1> DEFINE q == [NewRequest EXCEPT
           !.phase = "admitted", !.primary = primary, !.task = task, !.key = key,
           !.tenant_generation = tenant_generation,
           !.task_generation = TaskGeneration(task)]
<1>1. /\ request[r].phase = "new"
      /\ request' = [request EXCEPT ![r] = q]
      /\ UNCHANGED <<backend, restarts, generations, bindings, records, deleter, gone>>
  BY DEF Admit
<1>2. /\ q \in RequestState
      /\ q.phase = "admitted" /\ q.task = task /\ q.crossed = FALSE
      /\ q.tenant_generation = tenant_generation /\ q.task_generation = TaskGeneration(task)
  <2>1. tenant_generation \in Nat /\ TaskGeneration(task) \in Nat
    BY TaskGenerationType DEF IInv, TypeOK
  <2>2. QED BY <2>1 DEF NewRequest, RequestState, Reason
<1>3. \A s \in Request : request[s].phase # "new" => request'[s] = request[s]
  BY <1>1 DEF IInv, TypeOK
<1>4. request'[r] = q /\ \A s \in Request \ {r} : request'[s] = request[s]
  BY <1>1 DEF IInv, TypeOK
<1> HIDE DEF q
<1>5. CrossedIsBehind'
  <2> SUFFICES ASSUME NEW s \in Request, request'[s].phase # "new"
               PROVE  (/\ request[s].tenant_generation <= tenant_generation
                       /\ request[s].task_generation <= TaskGeneration(request[s].task)
                       /\ Known(s) /\ request[s].crossed => Behind(s))'
    BY DEF CrossedIsBehind, Known
  <2>1. CASE s = r
    <3>1. tenant_generation \in Nat /\ TaskGeneration(task) \in Nat
      BY TaskGenerationType DEF IInv, TypeOK
    <3>2. QED BY <1>1, <1>2, <1>4, <2>1, <3>1 DEF TaskGeneration, generations
  <2>2. CASE s # r
    <3>1. request'[s] = request[s] /\ request[s].phase # "new"
      BY <1>4, <2>2
    <3>2. QED BY <1>1, <3>1 DEF IInv, CrossedIsBehind, Behind, Known, TaskGeneration, generations
  <2>3. QED BY <2>1, <2>2
<1>6. TypeOK'
  BY <1>1, <1>2 DEF IInv, TypeOK, Bound, generations
<1>7. DoomedIsOlder'
  <2> SUFFICES ASSUME NEW d \in Deleter, NEW s \in deleter[d].doomed
               PROVE  /\ InScope(s, deleter[d].scope)'
                      /\ (deleter[d].phase = "fenced" =>
                             Seen(s, deleter[d].scope) < Current(deleter[d].scope))'
                      /\ (deleter[d].phase = "erasing" =>
                             Seen(s, deleter[d].scope) < deleter[d].before)'
    BY <1>1 DEF DoomedIsOlder
  <2>1. s \in Request
    BY DEF IInv, TypeOK, DeleterState
  <2>2. request'[s] = request[s]
    BY <1>3, <2>1 DEF IInv, RecordsFinal
  <2>3. /\ InScope(s, deleter[d].scope)
        /\ deleter[d].phase = "fenced" => Seen(s, deleter[d].scope) < Current(deleter[d].scope)
        /\ deleter[d].phase = "erasing" => Seen(s, deleter[d].scope) < deleter[d].before
    BY <1>1 DEF IInv, DoomedIsOlder
  <2>4. QED BY <1>1, <2>2, <2>3 DEF InScope, Seen, Current, generations
<1>8. /\ \A s \in Request : request[s].phase # "new" => request'[s].phase # "new"
      /\ \A s \in Request : request[s].phase = "ended" => request'[s].phase = "ended"
  BY <1>3
<1>9. \A s \in Request : Shaped(request'[s])
  <2>1. Shaped(q)
    BY DEF Admit, q, NewRequest, Shaped, Key
  <2>2. QED BY <1>4, <2>1 DEF IInv
<1>10. QED BY <1>1, <1>3, <1>5, <1>6, <1>7, <1>8, <1>9, StoresStay, DoomedFinal
           DEF IInv, RecordsFinal

\* A request that moves on with bindings and records as they were.
LEMMA QuietMoveKeeps ==
    ASSUME IInv, NEW r \in Request, NEW q \in RequestState,
           request[r].phase \notin {"new", "ended"}, q.phase # "new",
           SameScope(q, request[r]), Shaped(q),
           request' = [request EXCEPT ![r] = q],
           UNCHANGED <<backend, restarts, generations, bindings, records, deleter, gone>>
    PROVE  IInv'
<1>1. /\ request' \in [Request -> RequestState]
      /\ \A s \in Request : Shaped(request'[s])
      /\ CrossedIsBehind'
      /\ \A s \in Request : SameScope(request'[s], request[s])
      /\ \A s \in Request : request[s].phase # "new" => request'[s].phase # "new"
      /\ \A s \in Request : request[s].phase = "ended" => request'[s].phase = "ended"
      /\ DoomedIsOlder'
  BY RequestMoves
<1>2. TypeOK'
  BY <1>1 DEF IInv, TypeOK, Bound, generations
<1>3. \A s \in Request : request'[s].task = request[s].task /\ request'[s].crossed = request[s].crossed
  BY <1>1 DEF SameScope
<1>4. QED BY <1>1, <1>2, <1>3, StoresStay, DoomedFinal DEF IInv, RecordsFinal

\* Looking up the task's binding writes nothing that others read.
LEMMA LookupKeeps ==
    ASSUME IInv, NEW r \in Request, Lookup(r)
    PROVE  IInv'
<1>1. /\ request[r].phase = "admitted"
      /\ UNCHANGED <<backend, restarts, generations, bindings, records, deleter, gone>>
  BY DEF Lookup
<1>2. request[r] \in RequestState
  BY DEF IInv, TypeOK
<1>3. CASE \E identity \in Identity, reason \in Reason :
              request' = [request EXCEPT ![r].phase = "routed", ![r].identity = identity,
                                         ![r].reason = reason]
  <2>1. PICK identity \in Identity, reason \in Reason :
              request' = [request EXCEPT ![r].phase = "routed", ![r].identity = identity,
                                         ![r].reason = reason]
    BY <1>3
  <2> DEFINE q == [request[r] EXCEPT !.phase = "routed", !.identity = identity,
                                     !.reason = reason]
  <2>2. request' = [request EXCEPT ![r] = q]
    BY <2>1
  <2>3. q \in RequestState /\ q.phase = "routed" /\ SameScope(q, request[r]) /\ Shaped(q)
    BY <1>2 DEF IInv, RequestState, SameScope, Shaped
  <2> HIDE DEF q
  <2>4. QED BY <1>1, <2>2, <2>3, QuietMoveKeeps
<1>4. CASE request' = [request EXCEPT ![r] = Past(r, "ended")]
  <2>1. Past(r, "ended") \in RequestState /\ Past(r, "ended").phase = "ended"
        /\ SameScope(Past(r, "ended"), request[r]) /\ Shaped(Past(r, "ended"))
    BY PastType DEF IInv, SameScope
  <2>2. QED BY <1>1, <1>4, <2>1, QuietMoveKeeps
<1>5. QED BY <1>3, <1>4 DEF Lookup, Reason

\* The attempt decides what the request may bind, and writes nothing yet.
LEMMA ServeKeeps ==
    ASSUME IInv, NEW r \in Request, Serve(r)
    PROVE  IInv'
<1>1. /\ request[r].phase = "routed"
      /\ UNCHANGED <<backend, restarts, generations, bindings, records, deleter, gone>>
  BY DEF Serve
<1>2. request[r] \in RequestState
  BY DEF IInv, TypeOK
<1>3. CASE request' = [request EXCEPT ![r].phase = "served"]
  <2> DEFINE q == [request[r] EXCEPT !.phase = "served"]
  <2>1. request' = [request EXCEPT ![r] = q]
    BY <1>3
  <2>2. q \in RequestState /\ q.phase = "served" /\ SameScope(q, request[r]) /\ Shaped(q)
    BY <1>1, <1>2 DEF IInv, RequestState, SameScope, Shaped
  <2> HIDE DEF q
  <2>3. QED BY <1>1, <2>1, <2>2, QuietMoveKeeps
<1>4. CASE \E identity \in Identity :
              request' = [request EXCEPT ![r].phase = "served", ![r].identity = identity,
                                         ![r].reason = "fallback"]
  <2>1. PICK identity \in Identity :
              request' = [request EXCEPT ![r].phase = "served", ![r].identity = identity,
                                         ![r].reason = "fallback"]
    BY <1>4
  <2> DEFINE q == [request[r] EXCEPT !.phase = "served", !.identity = identity,
                                     !.reason = "fallback"]
  <2>2. request' = [request EXCEPT ![r] = q]
    BY <2>1
  <2>3. q \in RequestState /\ q.phase = "served" /\ SameScope(q, request[r]) /\ Shaped(q)
    BY <1>2 DEF IInv, RequestState, SameScope, Reason, Shaped
  <2> HIDE DEF q
  <2>4. QED BY <1>1, <2>2, <2>3, QuietMoveKeeps
<1>5. CASE request' = [request EXCEPT ![r] = Past(r, "storing")]
  <2>1. Past(r, "storing") \in RequestState /\ Past(r, "storing").phase = "storing"
        /\ SameScope(Past(r, "storing"), request[r]) /\ Shaped(Past(r, "storing"))
    BY PastType DEF IInv, SameScope
  <2>2. QED BY <1>1, <1>5, <2>1, QuietMoveKeeps
<1>6. QED BY <1>3, <1>4, <1>5 DEF Serve

\* The memory repository makes room before it takes a new key.
LEMMA CommitFits ==
    ASSUME IInv, NEW key \in Key, NEW evicted \in Evicted(key), NEW new,
           bindings' = [k \in Key |-> IF k = key THEN new
                                     ELSE IF k \in evicted THEN NoBinding
                                     ELSE bindings[k]]
    PROVE  /\ IsFiniteSet(Bound')
           /\ backend = "memory" => Cardinality(Bound') <= Capacity
<1>1. Bound' \subseteq (Bound \ evicted) \cup {key}
  BY DEF Bound
<1>2. IsFiniteSet(Bound) /\ Cardinality(Bound) \in Nat
  BY FS_CardinalityType DEF IInv
<1>3. backend = "memory" => Cardinality(Bound) <= Capacity
  BY DEF IInv, TypeOK
<1>4. Capacity \in Nat \ {0}
  BY ConstantsAssumption
<1>5. IsFiniteSet(Bound \ evicted) /\ IsFiniteSet((Bound \ evicted) \cup {key})
  BY <1>2, FS_Difference, FS_AddElement
<1>6. IsFiniteSet(Bound')
  BY <1>1, <1>5, FS_Subset
<1>7. ASSUME backend = "memory" PROVE Cardinality(Bound') <= Capacity
  <2>1. CASE bindings[key] # NoBinding
    <3>1. Bound' \subseteq Bound
      BY <1>1, <2>1 DEF Bound
    <3>2. Cardinality(Bound') <= Cardinality(Bound)
      BY <3>1, <1>2, FS_Subset
    <3>3. Cardinality(Bound') \in Nat
      BY <1>6, FS_CardinalityType
    <3>4. QED BY <1>2, <1>3, <1>4, <1>7, <3>2, <3>3
  <2>2. CASE bindings[key] = NoBinding /\ Cardinality(Bound) >= Capacity
    <3>1. PICK k \in Bound : evicted = {k}
      BY <1>7, <2>2 DEF Evicted
    <3>2. Cardinality(Bound \ {k}) = Cardinality(Bound) - 1 /\ IsFiniteSet(Bound \ {k})
      BY <1>2, <3>1, FS_RemoveElement
    <3>3. key \notin Bound \ {k}
      BY <2>2 DEF Bound
    <3>4. Cardinality((Bound \ {k}) \cup {key}) = Cardinality(Bound)
      <4> DEFINE rest == Bound \ {k}
      <4>1. IsFiniteSet(rest) /\ Cardinality(rest) = Cardinality(Bound) - 1 /\ key \notin rest
        BY <3>2, <3>3
      <4> HIDE DEF rest
      <4>2. Cardinality(rest \cup {key}) = Cardinality(rest) + 1
        BY <4>1, FS_AddElement
      <4>3. Cardinality(rest \cup {key}) = Cardinality(Bound)
        BY <1>2, <4>1, <4>2
      <4>4. QED BY <4>3 DEF rest
    <3>5. Cardinality(Bound') <= Cardinality((Bound \ evicted) \cup {key})
      BY <1>1, <1>5, FS_Subset
    <3>6. Cardinality(Bound') <= Cardinality(Bound)
      BY <3>1, <3>4, <3>5
    <3>7. Cardinality(Bound') \in Nat
      BY <1>6, FS_CardinalityType
    <3>8. QED BY <1>2, <1>3, <1>4, <1>7, <3>6, <3>7
  <2>3. CASE bindings[key] = NoBinding /\ ~(Cardinality(Bound) >= Capacity)
    <3>1. evicted = {}
      BY <2>3 DEF Evicted
    <3>2. key \notin Bound
      BY <2>3 DEF Bound
    <3>3. Cardinality(Bound \cup {key}) = Cardinality(Bound) + 1 /\ IsFiniteSet(Bound \cup {key})
      BY <1>2, <3>2, FS_AddElement
    <3>4. Cardinality(Bound') <= Cardinality(Bound \cup {key})
      BY <1>1, <3>1, <3>3, FS_Subset
    <3>5. Cardinality(Bound') \in Nat
      BY <1>6, FS_CardinalityType
    <3>6. QED BY <1>2, <1>4, <2>3, <3>3, <3>4, <3>5
  <2>4. QED BY <2>1, <2>2, <2>3
<1>8. QED BY <1>6, <1>7

\* What put leaves under a key is a binding, of the request or as it was.
LEMMA WrittenType ==
    ASSUME TypeOK, NEW r \in Request, request[r].task \in Task,
           request[r].identity \in Identity, NEW key \in Key
    PROVE  /\ Written(r, bindings[key]) \in Binding
           /\ \/ Written(r, bindings[key]) = bindings[key]
              \/ /\ Written(r, bindings[key]).by = r
                 /\ Written(r, bindings[key]).task = request[r].task
<1>1. bindings[key] \in Binding \cup {NoBinding}
  BY DEF TypeOK
<1>2. CASE bindings[key] = NoBinding
  BY <1>2 DEF Written, Binding
<1>3. CASE bindings[key] # NoBinding
  <2>1. bindings[key] \in Binding /\ bindings[key].generation \in Nat
    BY <1>1, <1>3 DEF Binding
  <2>2. QED BY <1>3, <2>1 DEF Written, Binding
<1>4. QED BY <1>2, <1>3

\* After a commit that writes, the binding under the key is the request's, which
\* no deletion has crossed, or the one that was there.
LEMMA CommitKeeps ==
    ASSUME IInv, NEW r \in Request, Commit(r)
    PROVE  IInv'
<1> DEFINE key == request[r].key
<1>1. /\ request[r].phase = "served"
      /\ UNCHANGED <<backend, restarts, generations, records, deleter, gone>>
  BY DEF Commit
<1>2. PICK phase \in {"storing", "ended"} : request' = [request EXCEPT ![r] = Past(r, phase)]
  BY DEF Commit
<1>3. /\ Past(r, phase) \in RequestState /\ Past(r, phase).phase = phase
      /\ SameScope(Past(r, phase), request[r]) /\ Shaped(Past(r, phase))
  BY PastType DEF IInv, SameScope
<1>4. CASE UNCHANGED bindings
  BY <1>1, <1>2, <1>3, <1>4, QuietMoveKeeps
<1>5. ASSUME request[r].primary, Fresh(r), NEW evicted \in Evicted(key),
             bindings' = [k \in Key |-> IF k = key THEN Written(r, bindings[k])
                                       ELSE IF k \in evicted THEN NoBinding
                                       ELSE bindings[k]]
      PROVE  IInv'
  <2>1. /\ request' \in [Request -> RequestState]
        /\ \A s \in Request : Shaped(request'[s])
        /\ CrossedIsBehind'
        /\ \A s \in Request : SameScope(request'[s], request[s])
        /\ \A s \in Request : request[s].phase # "new" => request'[s].phase # "new"
        /\ \A s \in Request : request[s].phase = "ended" => request'[s].phase = "ended"
        /\ DoomedIsOlder'
    BY <1>1, <1>2, <1>3, RequestMoves
  <2>2. key \in Key /\ request[r].task \in Task /\ request[r].identity \in Identity
    BY <1>1, <1>5 DEF IInv, Shaped
  <2>3. /\ Written(r, bindings[key]) \in Binding
        /\ \/ Written(r, bindings[key]) = bindings[key]
           \/ /\ Written(r, bindings[key]).by = r
              /\ Written(r, bindings[key]).task = request[r].task
    BY <2>2, WrittenType DEF IInv
  <2>4. ~request[r].crossed
    <3>1. Known(r)
      BY <1>1 DEF Known
    <3>2. request[r].tenant_generation \in Nat /\ request[r].task_generation \in Nat
      BY DEF IInv, TypeOK, RequestState
    <3>3. QED BY <1>5, <3>1, <3>2 DEF IInv, CrossedIsBehind, Behind, Fresh
  <2> DEFINE new == Written(r, bindings[key])
  <2>5. bindings' = [k \in Key |-> IF k = key THEN new
                                  ELSE IF k \in evicted THEN NoBinding
                                  ELSE bindings[k]]
    BY <1>5
  <2>6. new \in Binding /\ (new = bindings[key] \/ (new.by = r /\ new.task = request[r].task))
    BY <2>3
  <2> HIDE DEF new, key
  <2>7. IsFiniteSet(Bound') /\ (backend = "memory" => Cardinality(Bound') <= Capacity)
    BY <1>5, <2>2, <2>5, CommitFits
  <2>8. bindings' \in [Key -> Binding \cup {NoBinding}]
    BY <2>5, <2>6 DEF IInv, TypeOK
  <2>9. TypeOK'
    BY <1>1, <2>1, <2>7, <2>8 DEF IInv, TypeOK, generations
  <2>10. \A k \in Bound' : \/ k \in Bound /\ bindings'[k] = bindings[k]
                           \/ bindings'[k].by = r /\ bindings'[k].task = request[r].task
    BY <2>2, <2>5, <2>6 DEF Bound
  <2>11. \A k \in Bound : bindings[k].by \in Request
    BY DEF IInv, TypeOK, Bound, Binding
  <2>12. BindingsAttributed'
    BY <1>1, <2>1, <2>10, <2>11 DEF IInv, BindingsAttributed, SameScope
  <2>13. NoBindingResurrected'
    BY <2>1, <2>4, <2>10, <2>11 DEF IInv, NoBindingResurrected, SameScope
  <2>14. RecordsFinal'
    BY <1>1, <2>1 DEF IInv, TypeOK, DeleterState, RecordsFinal
  <2>15. DeletionRemoves'
    BY <1>1 DEF IInv, DeletionRemoves
  <2>16. QED BY <2>1, <2>7, <2>9, <2>12, <2>13, <2>14, <2>15 DEF IInv
<1>6. QED BY <1>4, <1>5 DEF Commit

\* store_record: the request's one record, and its end.
LEMMA StoreKeeps ==
    ASSUME IInv, NEW r \in Request, Store(r)
    PROVE  IInv'
<1>1. /\ request[r].phase = "storing"
      /\ request' = [request EXCEPT ![r] = Past(r, "ended")]
      /\ records' \subseteq records \cup {r}
      /\ UNCHANGED <<backend, restarts, generations, bindings, deleter, gone>>
  BY DEF Store
<1>2. /\ Past(r, "ended") \in RequestState /\ Past(r, "ended").phase = "ended"
      /\ SameScope(Past(r, "ended"), request[r]) /\ Shaped(Past(r, "ended"))
  BY PastType DEF IInv, SameScope
<1>3. /\ request' \in [Request -> RequestState]
      /\ \A s \in Request : Shaped(request'[s])
      /\ CrossedIsBehind'
      /\ \A s \in Request : SameScope(request'[s], request[s])
      /\ \A s \in Request : request[s].phase # "new" => request'[s].phase # "new"
      /\ \A s \in Request : request[s].phase = "ended" => request'[s].phase = "ended"
      /\ DoomedIsOlder'
  BY <1>1, <1>2, RequestMoves
<1>4. request'[r].phase = "ended"
  BY <1>1, <1>2 DEF IInv, TypeOK
<1>5. Bound' = Bound
  BY <1>1 DEF Bound
<1>6. TypeOK'
  BY <1>1, <1>3, <1>5 DEF IInv, TypeOK, generations
<1>7. \A k \in Bound : bindings[k].by \in Request
  BY DEF IInv, TypeOK, Bound, Binding
<1>8. BindingsAttributed' /\ NoBindingResurrected'
  BY <1>1, <1>3, <1>5, <1>7 DEF IInv, BindingsAttributed, NoBindingResurrected, SameScope
<1>9. RecordsFinal'
  BY <1>1, <1>3, <1>4 DEF IInv, TypeOK, DeleterState, RecordsFinal
<1>10. DeletionRemoves'
  BY <1>1 DEF IInv, DeletionRemoves, RecordsFinal
<1>11. QED BY <1>3, <1>5, <1>6, <1>8, <1>9, <1>10 DEF IInv

-----------------------------------------------------------------------------
(* The actions of deletions.                                                 *)

\* What a deletion of a scope does to the requests: it marks those it crosses.
SameButCrossed(q, p) ==
    /\ q.phase = p.phase
    /\ q.primary = p.primary
    /\ q.key = p.key
    /\ q.identity = p.identity
    /\ q.task = p.task
    /\ q.tenant_generation = p.tenant_generation
    /\ q.task_generation = p.task_generation

\* A deletion marks exactly the admitted requests of its scope as crossed.
LEMMA RemoveCrosses ==
    ASSUME IInv, NEW scope \in Scope, RemoveBindings(scope)
    PROVE  /\ request' \in [Request -> RequestState]
           /\ \A r \in Request : SameButCrossed(request'[r], request[r])
           /\ \A r \in Request : request'[r].crossed =>
                  \/ request[r].crossed
                  \/ InScope(r, scope) /\ request[r].phase # "new"
           /\ \A r \in Request : Shaped(request'[r])
<1>1. request' = Crossed(scope)
  BY DEF RemoveBindings
<1>2. ASSUME NEW r \in Request
      PROVE  /\ request'[r] \in RequestState
             /\ SameButCrossed(request'[r], request[r])
             /\ request'[r].crossed => \/ request[r].crossed
                                       \/ InScope(r, scope) /\ request[r].phase # "new"
  <2>1. request[r] \in RequestState
    BY DEF IInv, TypeOK
  <2>2. CASE InScope(r, scope) /\ request[r].phase # "new"
    <3>1. request'[r] = [request[r] EXCEPT !.crossed = TRUE]
      BY <1>1, <2>2 DEF Crossed
    <3>2. QED BY <2>1, <2>2, <3>1 DEF RequestState, SameButCrossed
  <2>3. CASE ~(InScope(r, scope) /\ request[r].phase # "new")
    <3>1. request'[r] = request[r]
      BY <1>1, <2>3 DEF Crossed
    <3>2. QED BY <2>1, <3>1 DEF SameButCrossed
  <2>4. QED BY <2>2, <2>3
<1>3. request' \in [Request -> RequestState]
  <2>1. request' = [r \in Request |-> request'[r]]
    BY <1>1 DEF Crossed
  <2>2. QED BY <1>2, <2>1
<1>4. \A r \in Request : Shaped(request'[r])
  BY <1>2 DEF IInv, Shaped, SameButCrossed
<1>5. QED BY <1>2, <1>3, <1>4

\* The generation of the scope grows, and no other.
LEMMA RemoveAdvances ==
    ASSUME IInv, NEW scope \in Scope, RemoveBindings(scope)
    PROVE  /\ tenant_generation' \in Nat /\ task_generation' \in [Task -> Nat]
           /\ tenant_generation' >= tenant_generation
           /\ \A t \in Task : task_generation'[t] >= task_generation[t]
           /\ scope = Tenant => tenant_generation' = tenant_generation + 1
           /\ scope # Tenant => /\ scope \in Task
                                /\ task_generation'[scope] = task_generation[scope] + 1
<1>1. CASE scope = Tenant
  BY <1>1 DEF RemoveBindings, IInv, TypeOK
<1>2. CASE scope # Tenant
  <2>1. scope \in Task
    BY <1>2 DEF Scope
  <2>2. task_generation' = [task_generation EXCEPT ![scope] = @ + 1]
        /\ tenant_generation' = tenant_generation
    BY <1>2 DEF RemoveBindings
  <2>3. QED BY <1>2, <2>1, <2>2 DEF IInv, TypeOK
<1>3. QED BY <1>1, <1>2

\* Its bindings go, and no other.
LEMMA RemoveUnbinds ==
    ASSUME IInv, NEW scope \in Scope, RemoveBindings(scope)
    PROVE  /\ bindings' \in [Key -> Binding \cup {NoBinding}]
           /\ Bound' \subseteq Bound
           /\ \A k \in Bound' : bindings'[k] = bindings[k]
           /\ \A k \in Bound' : scope # Tenant /\ bindings[k].task # scope
<1>1. bindings' = Unbound(scope)
  BY DEF RemoveBindings
<1>2. QED BY <1>1 DEF Unbound, Bound, IInv, TypeOK

\* Fewer bindings are as finite, and fit as well.
LEMMA FewerFit ==
    ASSUME IInv, Bound' \subseteq Bound, backend' = backend
    PROVE  /\ IsFiniteSet(Bound')
           /\ backend' = "memory" => Cardinality(Bound') <= Capacity
<1>1. IsFiniteSet(Bound) /\ Cardinality(Bound) \in Nat
  BY FS_CardinalityType DEF IInv
<1>2. IsFiniteSet(Bound') /\ Cardinality(Bound') <= Cardinality(Bound)
  BY <1>1, FS_Subset
<1>3. Cardinality(Bound') \in Nat
  BY <1>2, FS_CardinalityType
<1>4. backend = "memory" => Cardinality(Bound) <= Capacity
  BY DEF IInv, TypeOK
<1>5. Capacity \in Nat
  BY ConstantsAssumption
<1>6. QED BY <1>1, <1>2, <1>3, <1>4, <1>5

\* Whatever else the handler does with its own state, a scope's removal keeps the
\* invariant of requests and bindings.
LEMMA RemoveKeeps ==
    ASSUME IInv, NEW scope \in Scope, RemoveBindings(scope), UNCHANGED <<backend, restarts>>
    PROVE  /\ IsFiniteSet(Bound')
           /\ backend' = "memory" => Cardinality(Bound') <= Capacity
           /\ CrossedIsBehind'
           /\ BindingsAttributed'
           /\ NoBindingResurrected'
<1>1. IsFiniteSet(Bound') /\ (backend' = "memory" => Cardinality(Bound') <= Capacity)
  BY RemoveUnbinds, FewerFit
<1>2. /\ \A r \in Request : SameButCrossed(request'[r], request[r])
      /\ \A r \in Request : request'[r].crossed =>
             \/ request[r].crossed
             \/ InScope(r, scope) /\ request[r].phase # "new"
  BY RemoveCrosses
<1>3. /\ tenant_generation' \in Nat /\ task_generation' \in [Task -> Nat]
      /\ tenant_generation' >= tenant_generation
      /\ \A t \in Task : task_generation'[t] >= task_generation[t]
      /\ scope = Tenant => tenant_generation' = tenant_generation + 1
      /\ scope # Tenant => /\ scope \in Task
                           /\ task_generation'[scope] = task_generation[scope] + 1
  BY RemoveAdvances
<1>4. CrossedIsBehind'
  <2> SUFFICES ASSUME NEW r \in Request, request'[r].phase # "new"
               PROVE  (/\ request[r].tenant_generation <= tenant_generation
                       /\ request[r].task_generation <= TaskGeneration(request[r].task)
                       /\ Known(r) /\ request[r].crossed => Behind(r))'
    BY DEF CrossedIsBehind, Known
  <2>1. /\ SameButCrossed(request'[r], request[r]) /\ request[r].phase # "new"
        /\ Known(r)' => Known(r)
    BY <1>2 DEF SameButCrossed, Known
  <2>2. /\ request[r].tenant_generation <= tenant_generation
        /\ request[r].task_generation <= TaskGeneration(request[r].task)
        /\ Known(r) /\ request[r].crossed => Behind(r)
    BY <2>1 DEF IInv, CrossedIsBehind
  <2>3. /\ request[r].tenant_generation \in Nat /\ request[r].task_generation \in Nat
        /\ request[r].task \in Task \cup {NoTask}
        /\ tenant_generation \in Nat /\ task_generation \in [Task -> Nat]
    BY DEF IInv, TypeOK, RequestState
  <2>4. NoTask \notin Task /\ Tenant \notin Task
    BY ConstantsAssumption DEF Key
  <2>5. /\ TaskGeneration(request[r].task) \in Nat
        /\ TaskGeneration(request[r].task)' \in Nat
        /\ TaskGeneration(request[r].task)' >= TaskGeneration(request[r].task)
    BY <1>3, <2>1, <2>3 DEF TaskGeneration, SameButCrossed
  <2>6. /\ request'[r].tenant_generation = request[r].tenant_generation
        /\ request'[r].task_generation = request[r].task_generation
        /\ request'[r].task = request[r].task
    BY <2>1 DEF SameButCrossed
  <2>7. ASSUME Behind(r) PROVE Behind(r)'
    BY <1>3, <2>3, <2>5, <2>6, <2>7 DEF Behind
  <2>8. ASSUME InScope(r, scope) PROVE Behind(r)'
    <3>1. CASE scope = Tenant
      BY <1>3, <2>2, <2>3, <2>6, <3>1 DEF Behind
    <3>2. CASE scope # Tenant
      <4>1. request[r].task = scope /\ scope \in Task
        BY <1>3, <2>8, <3>2 DEF InScope
      <4>2. TaskGeneration(request[r].task)' = TaskGeneration(request[r].task) + 1
        BY <1>3, <2>4, <2>6, <3>2, <4>1 DEF TaskGeneration
      <4>3. QED BY <2>2, <2>3, <2>5, <2>6, <4>2 DEF Behind
    <3>3. QED BY <3>1, <3>2
  <2>9. Known(r)' /\ request'[r].crossed => Behind(r)'
    BY <1>2, <2>1, <2>2, <2>7, <2>8
  <2>10. QED BY <1>3, <2>2, <2>3, <2>5, <2>6, <2>9
<1>5. /\ Bound' \subseteq Bound
      /\ \A k \in Bound' : bindings'[k] = bindings[k]
      /\ \A k \in Bound' : scope # Tenant /\ bindings[k].task # scope
      /\ \A k \in Bound : bindings[k].by \in Request
  BY RemoveUnbinds DEF IInv, TypeOK, Bound, Binding
<1>6. BindingsAttributed'
  BY <1>2, <1>5 DEF IInv, BindingsAttributed, SameButCrossed
<1>7. NoBindingResurrected'
  BY <1>2, <1>5 DEF IInv, BindingsAttributed, NoBindingResurrected, InScope
<1>8. QED BY <1>1, <1>4, <1>6, <1>7

\* A step of a handler or of Redis that leaves requests and generations alone, and
\* writes no binding.
LEMMA RequestsStay ==
    ASSUME IInv, UNCHANGED <<backend, restarts, generations, request>>,
           bindings' \in [Key -> Binding \cup {NoBinding}],
           \A k \in Bound' : k \in Bound /\ bindings'[k] = bindings[k]
    PROVE  /\ IsFiniteSet(Bound')
           /\ backend' = "memory" => Cardinality(Bound') <= Capacity
           /\ \A r \in Request : Shaped(request'[r])
           /\ CrossedIsBehind'
           /\ BindingsAttributed'
           /\ NoBindingResurrected'
<1>1. IsFiniteSet(Bound') /\ (backend' = "memory" => Cardinality(Bound') <= Capacity)
  BY FewerFit
<1>2. CrossedIsBehind'
  BY DEF IInv, CrossedIsBehind, Behind, Known, TaskGeneration, generations
<1>3. BindingsAttributed' /\ NoBindingResurrected'
  BY DEF IInv, BindingsAttributed, NoBindingResurrected
<1>4. QED BY <1>1, <1>2, <1>3 DEF IInv

\* Doomed records that a handler does not look at stay as they are.
LEMMA DoomedStay ==
    ASSUME IInv, UNCHANGED <<restarts, generations, request, deleter>>
    PROVE  DoomedIsOlder'
BY DEF IInv, DoomedIsOlder, InScope, Seen, Current, generations

\* The deletion handler lists records, whose requests have ended.
LEMMA ListKeeps ==
    ASSUME IInv, NEW d \in Deleter, NEW scope \in Scope, List(d, scope)
    PROVE  IInv'
<1> DEFINE q == [IdleDeleter EXCEPT !.phase = "listed", !.scope = scope,
                                    !.listed = {r \in records : InScope(r, scope)}]
<1>1. /\ deleter' = [deleter EXCEPT ![d] = q]
      /\ UNCHANGED <<backend, restarts, generations, bindings, records, request, gone>>
  BY DEF List
<1>2. q \in DeleterState /\ q.phase = "listed" /\ q.doomed = {}
  BY DEF IInv, TypeOK, IdleDeleter, DeleterState, Scope
<1> HIDE DEF q
<1>3. Bound' = Bound /\ bindings' \in [Key -> Binding \cup {NoBinding}]
  BY <1>1 DEF IInv, TypeOK, Bound
<1>4. /\ IsFiniteSet(Bound') /\ CrossedIsBehind' /\ BindingsAttributed' /\ NoBindingResurrected'
      /\ \A r \in Request : Shaped(request'[r])
  BY <1>1, <1>3, RequestsStay
<1>5. TypeOK'
  BY <1>1, <1>2, <1>3 DEF IInv, TypeOK, generations
<1>6. deleter'[d] = q /\ \A e \in Deleter \ {d} : deleter'[e] = deleter[e]
  BY <1>1 DEF IInv, TypeOK
<1>7. RecordsFinal' /\ DeletionRemoves'
  BY <1>1, <1>2, <1>6 DEF IInv, RecordsFinal, DeletionRemoves
<1>8. DoomedIsOlder'
  BY <1>1, <1>2, <1>6 DEF IInv, DoomedIsOlder, InScope, Seen, Current, generations
<1>9. QED BY <1>4, <1>5, <1>7, <1>8 DEF IInv

\* A record that was older than its scope's generation is so after a removal.
LEMMA RemoveKeepsOlder ==
    ASSUME IInv, NEW scope \in Scope, RemoveBindings(scope),
           NEW other \in Scope, NEW r \in Request, InScope(r, other),
           \/ Seen(r, other) < Current(other)
           \/ other = scope /\ request[r].phase = "ended"
    PROVE  /\ InScope(r, other)'
           /\ (Seen(r, other) < Current(other))'
           /\ Seen(r, other)' = Seen(r, other)
<1>1. SameButCrossed(request'[r], request[r])
  BY RemoveCrosses
<1>2. InScope(r, other)' /\ Seen(r, other)' = Seen(r, other)
  BY <1>1 DEF InScope, Seen, SameButCrossed
<1>3. /\ tenant_generation' \in Nat /\ task_generation' \in [Task -> Nat]
      /\ tenant_generation' >= tenant_generation
      /\ \A t \in Task : task_generation'[t] >= task_generation[t]
      /\ scope = Tenant => tenant_generation' = tenant_generation + 1
      /\ scope # Tenant => /\ scope \in Task
                           /\ task_generation'[scope] = task_generation[scope] + 1
  BY RemoveAdvances
<1>4. /\ request[r].tenant_generation \in Nat /\ request[r].task_generation \in Nat
      /\ tenant_generation \in Nat /\ task_generation \in [Task -> Nat]
  BY DEF IInv, TypeOK, RequestState
<1>5. Current(other) \in Nat /\ Current(other)' \in Nat /\ Current(other)' >= Current(other)
      /\ Seen(r, other) \in Nat
  BY <1>3, <1>4 DEF Current, Seen, Scope
<1>6. CASE Seen(r, other) < Current(other)
  BY <1>2, <1>5, <1>6
<1>7. CASE other = scope /\ request[r].phase = "ended"
  <2>1. /\ request[r].tenant_generation <= tenant_generation
        /\ request[r].task_generation <= TaskGeneration(request[r].task)
    BY <1>7 DEF IInv, CrossedIsBehind
  <2>2. Seen(r, other) <= Current(other)
    <3>1. CASE other = Tenant
      BY <2>1, <3>1 DEF Seen, Current
    <3>2. CASE other # Tenant
      <4>1. request[r].task = other /\ other \in Task /\ NoTask \notin Task
        BY <3>2, ConstantsAssumption DEF InScope, Scope, Key
      <4>2. QED BY <2>1, <3>2, <4>1 DEF Seen, Current, TaskGeneration
    <3>3. QED BY <3>1, <3>2
  <2>3. Current(other)' = Current(other) + 1
    BY <1>3, <1>7 DEF Current
  <2>4. QED BY <1>2, <1>5, <2>2, <2>3
<1>8. QED BY <1>6, <1>7

\* Fencing raises the generation and removes the scope's bindings.
LEMMA FenceKeeps ==
    ASSUME IInv, NEW d \in Deleter, Fence(d)
    PROVE  IInv'
<1>0. PICK scope \in Scope : scope = deleter[d].scope
  BY DEF IInv, TypeOK, DeleterState
<1> DEFINE doomed == {r \in records : InScope(r, scope)}
           q == [deleter[d] EXCEPT !.phase = "fenced", !.doomed = doomed]
<1>1. /\ RemoveBindings(scope)
      /\ deleter' = [deleter EXCEPT ![d] = q]
      /\ UNCHANGED <<backend, restarts, records, gone>>
  BY <1>0 DEF Fence
<1>2. /\ deleter[d] \in DeleterState /\ scope \in Scope /\ doomed \subseteq Request
      /\ \A e \in Deleter : deleter[e].scope \in Scope /\ deleter[e].doomed \subseteq Request
  BY DEF IInv, TypeOK, DeleterState
<1>3. q \in DeleterState /\ q.phase = "fenced" /\ q.doomed = doomed /\ q.scope = scope
  BY <1>0, <1>2 DEF DeleterState
<1>4. deleter'[d] = q /\ \A e \in Deleter \ {d} : deleter'[e] = deleter[e]
  BY <1>1 DEF IInv, TypeOK
<1>5. /\ request' \in [Request -> RequestState]
      /\ \A r \in Request : SameButCrossed(request'[r], request[r])
      /\ \A r \in Request : Shaped(request'[r])
  BY <1>1, <1>2, RemoveCrosses
<1>6. bindings' \in [Key -> Binding \cup {NoBinding}]
  BY <1>1, <1>2, RemoveUnbinds
<1>7. tenant_generation' \in Nat /\ task_generation' \in [Task -> Nat]
  BY <1>1, <1>2, RemoveAdvances
<1>8. /\ IsFiniteSet(Bound') /\ (backend' = "memory" => Cardinality(Bound') <= Capacity)
      /\ CrossedIsBehind' /\ BindingsAttributed' /\ NoBindingResurrected'
  BY <1>1, <1>2, RemoveKeeps
<1>9. \A r \in doomed : r \in Request /\ InScope(r, scope) /\ request[r].phase = "ended"
  BY <1>2 DEF IInv, RecordsFinal
<1>10. deleter' \in [Deleter -> DeleterState]
  BY <1>1, <1>3 DEF IInv, TypeOK
<1>11. RemoveBindings(scope)
  BY <1>1
<1> HIDE DEF q, doomed
<1>12. TypeOK'
  BY <1>1, <1>5, <1>6, <1>7, <1>8, <1>10 DEF IInv, TypeOK
<1>13. RecordsFinal'
  BY <1>1, <1>2, <1>3, <1>4, <1>5, <1>9 DEF IInv, TypeOK, RecordsFinal, SameButCrossed
<1>14. DoomedIsOlder'
  <2> SUFFICES ASSUME NEW e \in Deleter, NEW r \in deleter'[e].doomed
               PROVE  (/\ InScope(r, deleter[e].scope)
                       /\ deleter[e].phase = "fenced" =>
                              Seen(r, deleter[e].scope) < Current(deleter[e].scope)
                       /\ deleter[e].phase = "erasing" =>
                              Seen(r, deleter[e].scope) < deleter[e].before)'
    BY DEF DoomedIsOlder
  <2>2. CASE e = d
    <3>1. r \in doomed /\ deleter'[e].scope = scope /\ deleter'[e].phase = "fenced"
      BY <1>3, <1>4, <2>2
    <3>2. InScope(r, scope)' /\ (Seen(r, scope) < Current(scope))'
      BY <1>2, <1>9, <1>11, <3>1, RemoveKeepsOlder
    <3>3. QED BY <3>1, <3>2 DEF InScope, Seen, Current
  <2>3. CASE e # d
    <3>1. deleter'[e] = deleter[e] /\ r \in deleter[e].doomed /\ r \in Request
          /\ deleter[e].scope \in Scope
      BY <1>2, <1>4, <2>3
    <3>2. /\ InScope(r, deleter[e].scope)
          /\ deleter[e].phase = "fenced" => Seen(r, deleter[e].scope) < Current(deleter[e].scope)
          /\ deleter[e].phase = "erasing" => Seen(r, deleter[e].scope) < deleter[e].before
      BY <3>1 DEF IInv, DoomedIsOlder
    <3>3. SameButCrossed(request'[r], request[r])
      BY <1>5, <3>1
    <3>4. CASE deleter[e].phase = "fenced"
      <4>1. PICK other \in Scope : other = deleter[e].scope
        BY <3>1
      <4>2. /\ InScope(r, other) /\ Seen(r, other) < Current(other)
            /\ deleter'[e].scope = other /\ deleter'[e].phase = "fenced"
        BY <3>1, <3>2, <3>4, <4>1
      <4>3. InScope(r, other)' /\ (Seen(r, other) < Current(other))'
        BY <1>11, <3>1, <4>2, RemoveKeepsOlder
      <4>4. QED BY <4>2, <4>3 DEF InScope, Seen, Current
    <3>5. CASE deleter[e].phase # "fenced"
      BY <3>1, <3>2, <3>3, <3>5 DEF InScope, Seen, SameButCrossed
    <3>6. QED BY <3>4, <3>5
  <2>4. QED BY <2>2, <2>3
<1>15. DeletionRemoves'
  BY <1>1 DEF IInv, DeletionRemoves
<1>16. QED BY <1>5, <1>8, <1>12, <1>13, <1>14, <1>15 DEF IInv

\* The generation read back is newer than everything listed.
LEMMA ReadGenerationKeeps ==
    ASSUME IInv, NEW d \in Deleter, ReadGeneration(d)
    PROVE  IInv'
<1> DEFINE before == IF deleter[d].scope = Tenant THEN tenant_generation
                     ELSE task_generation[deleter[d].scope]
           q == [deleter[d] EXCEPT !.phase = "erasing", !.before = before]
<1>1. /\ deleter[d].phase = "fenced"
      /\ deleter' = [deleter EXCEPT ![d] = q]
      /\ UNCHANGED <<backend, restarts, generations, bindings, records, request, gone>>
  BY DEF ReadGeneration
<1>2. deleter[d] \in DeleterState /\ deleter[d].scope \in Scope
  BY DEF IInv, TypeOK, DeleterState
<1>3. before = Current(deleter[d].scope) /\ before \in Nat
  BY <1>2 DEF IInv, TypeOK, Current, Scope
<1>4. /\ q \in DeleterState /\ q.phase = "erasing" /\ q.before = before
      /\ q.scope = deleter[d].scope /\ q.doomed = deleter[d].doomed
  BY <1>2, <1>3 DEF DeleterState
<1> HIDE DEF before, q
<1>5. deleter'[d] = q /\ \A e \in Deleter \ {d} : deleter'[e] = deleter[e]
  BY <1>1 DEF IInv, TypeOK
<1>6. Bound' = Bound /\ bindings' \in [Key -> Binding \cup {NoBinding}]
  BY <1>1 DEF IInv, TypeOK, Bound
<1>7. /\ IsFiniteSet(Bound') /\ CrossedIsBehind' /\ BindingsAttributed' /\ NoBindingResurrected'
      /\ \A r \in Request : Shaped(request'[r])
  BY <1>1, <1>6, RequestsStay
<1>8. TypeOK'
  BY <1>1, <1>4, <1>6 DEF IInv, TypeOK, generations
<1>9. RecordsFinal' /\ DeletionRemoves'
  BY <1>1, <1>4, <1>5 DEF IInv, RecordsFinal, DeletionRemoves
<1>10. DoomedIsOlder'
  BY <1>1, <1>3, <1>4, <1>5 DEF IInv, DoomedIsOlder, InScope, Seen, Current, generations
<1>11. QED BY <1>7, <1>8, <1>9, <1>10 DEF IInv

\* Erasing by generation, or by id, takes every record that was listed.
LEMMA EraseKeeps ==
    ASSUME IInv, NEW d \in Deleter, Erase(d)
    PROVE  IInv'
<1>1. /\ deleter[d].phase = "erasing"
      /\ deleter' = [deleter EXCEPT ![d] = IdleDeleter]
      /\ gone' = gone \cup deleter[d].doomed
      /\ records' \subseteq records
      /\ backend = "memory" => records' = records \ Older(d)
      /\ UNCHANGED <<backend, restarts, generations, bindings, request>>
  BY DEF Erase
<1>2. IdleDeleter \in DeleterState /\ IdleDeleter.doomed = {}
  BY DEF IdleDeleter, DeleterState, Scope
<1>3. deleter[d] \in DeleterState /\ deleter[d].doomed \subseteq Request
  BY DEF IInv, TypeOK, DeleterState
<1>4. deleter'[d] = IdleDeleter /\ \A e \in Deleter \ {d} : deleter'[e] = deleter[e]
  BY <1>1 DEF IInv, TypeOK
<1>5. Bound' = Bound /\ bindings' \in [Key -> Binding \cup {NoBinding}]
  BY <1>1 DEF IInv, TypeOK, Bound
<1>6. /\ IsFiniteSet(Bound') /\ CrossedIsBehind' /\ BindingsAttributed' /\ NoBindingResurrected'
      /\ \A r \in Request : Shaped(request'[r])
  BY <1>1, <1>5, RequestsStay
<1>7. TypeOK'
  BY <1>1, <1>2, <1>3, <1>5 DEF IInv, TypeOK, generations
<1>8. RecordsFinal'
  BY <1>1, <1>2, <1>4 DEF IInv, RecordsFinal
<1>9. DoomedIsOlder'
  BY <1>1, <1>2, <1>4 DEF IInv, DoomedIsOlder, InScope, Seen, Current, generations
<1>10. DeletionRemoves'
  <2> SUFFICES ASSUME backend = "memory"
               PROVE  gone' \cap records' = {}
    BY <1>1 DEF DeletionRemoves
  <2>1. \A r \in deleter[d].doomed \cap records : r \in Older(d)
    BY <1>1 DEF IInv, DoomedIsOlder, Older, Seen
  <2>2. gone \cap records = {}
    BY DEF IInv, DeletionRemoves
  <2>3. QED BY <1>1, <2>1, <2>2
<1>11. QED BY <1>6, <1>7, <1>8, <1>9, <1>10 DEF IInv

\* delete_task_binding fences the task as a deletion does.
LEMMA UnbindKeeps ==
    ASSUME IInv, NEW task \in Task, Unbind(task)
    PROVE  IInv'
<1>1. /\ RemoveBindings(task) /\ task \in Scope
      /\ UNCHANGED <<backend, restarts, records, deleter, gone>>
  BY DEF Unbind, Scope
<1>2. /\ request' \in [Request -> RequestState]
      /\ \A r \in Request : SameButCrossed(request'[r], request[r])
      /\ \A r \in Request : Shaped(request'[r])
  BY <1>1, RemoveCrosses
<1>3. /\ bindings' \in [Key -> Binding \cup {NoBinding}]
      /\ tenant_generation' \in Nat /\ task_generation' \in [Task -> Nat]
  BY <1>1, RemoveUnbinds, RemoveAdvances
<1>4. /\ IsFiniteSet(Bound') /\ (backend' = "memory" => Cardinality(Bound') <= Capacity)
      /\ CrossedIsBehind' /\ BindingsAttributed' /\ NoBindingResurrected'
  BY <1>1, RemoveKeeps
<1>5. TypeOK'
  BY <1>1, <1>2, <1>3, <1>4 DEF IInv, TypeOK
<1>6. RecordsFinal' /\ DeletionRemoves'
  BY <1>1, <1>2 DEF IInv, TypeOK, DeleterState, RecordsFinal, DeletionRemoves, SameButCrossed
<1>7. DoomedIsOlder'
  <2> SUFFICES ASSUME NEW e \in Deleter, NEW r \in deleter'[e].doomed
               PROVE  (/\ InScope(r, deleter[e].scope)
                       /\ deleter[e].phase = "fenced" =>
                              Seen(r, deleter[e].scope) < Current(deleter[e].scope)
                       /\ deleter[e].phase = "erasing" =>
                              Seen(r, deleter[e].scope) < deleter[e].before)'
    BY DEF DoomedIsOlder
  <2>1. PICK other \in Scope : other = deleter[e].scope
    BY DEF IInv, TypeOK, DeleterState
  <2>2. r \in Request /\ r \in deleter[e].doomed /\ deleter'[e] = deleter[e]
    BY <1>1 DEF IInv, TypeOK, DeleterState
  <2>3. /\ InScope(r, other)
        /\ deleter[e].phase = "fenced" => Seen(r, other) < Current(other)
        /\ deleter[e].phase = "erasing" => Seen(r, other) < deleter[e].before
    BY <2>1, <2>2 DEF IInv, DoomedIsOlder
  <2>4. SameButCrossed(request'[r], request[r])
    BY <1>2, <2>2
  <2>5. CASE deleter[e].phase = "fenced"
    <3>1. InScope(r, other)' /\ (Seen(r, other) < Current(other))'
      BY <1>1, <2>2, <2>3, <2>5, RemoveKeepsOlder
    <3>2. QED BY <2>1, <2>2, <2>5, <3>1 DEF InScope, Seen, Current
  <2>6. CASE deleter[e].phase # "fenced"
    BY <2>1, <2>2, <2>3, <2>4, <2>6 DEF InScope, Seen, SameButCrossed
  <2>7. QED BY <2>5, <2>6
<1>8. QED BY <1>2, <1>4, <1>5, <1>6, <1>7 DEF IInv

\* UnbindSession and Expire: one binding is gone, and nothing else happens.
LEMMA ForgetKeeps ==
    ASSUME IInv, NEW key \in Key, bindings' = [bindings EXCEPT ![key] = NoBinding],
           UNCHANGED <<backend, restarts, generations, records, request, deleter, gone>>
    PROVE  IInv'
<1>1. /\ bindings' \in [Key -> Binding \cup {NoBinding}]
      /\ \A k \in Bound' : k \in Bound /\ bindings'[k] = bindings[k]
  BY DEF IInv, TypeOK, Bound
<1>2. /\ IsFiniteSet(Bound') /\ (backend' = "memory" => Cardinality(Bound') <= Capacity)
      /\ \A r \in Request : Shaped(request'[r])
      /\ CrossedIsBehind' /\ BindingsAttributed' /\ NoBindingResurrected'
  BY <1>1, RequestsStay
<1>3. TypeOK'
  BY <1>1, <1>2 DEF IInv, TypeOK, generations
<1>4. RecordsFinal' /\ DeletionRemoves' /\ DoomedIsOlder'
  BY DoomedStay DEF IInv, RecordsFinal, DeletionRemoves
<1>5. QED BY <1>2, <1>3, <1>4 DEF IInv

\* Nothing that was read before a restart is compared with anything after it.
LEMMA RestartKeeps ==
    ASSUME IInv, Restart
    PROVE  IInv'
<1>1. /\ restarts < MaxRestarts /\ restarts' = restarts + 1
      /\ tenant_generation' = 0 /\ task_generation' = [t \in Task |-> 0]
      /\ bindings' = [k \in Key |-> NoBinding]
      /\ request' = [r \in Request |-> IF request[r].phase = "new" THEN NewRequest
                                       ELSE Reloaded(r)]
      /\ deleter' = [d \in Deleter |-> IdleDeleter]
      /\ UNCHANGED <<backend, records, gone>>
  BY DEF Restart
<1>2. restarts' \in 0..MaxRestarts /\ restarts' # 0
  BY <1>1, ConstantsAssumption DEF IInv, TypeOK
<1>3. NewRequest \in RequestState /\ NewRequest.phase = "new" /\ Shaped(NewRequest)
  BY DEF NewRequest, RequestState, Reason, Shaped
<1>4. \A r \in Request : /\ Reloaded(r) \in RequestState /\ Reloaded(r).phase = "ended"
                         /\ Reloaded(r).tenant_generation = 0 /\ Reloaded(r).task_generation = 0
                         /\ Shaped(Reloaded(r))
  <2> HIDE DEF Past
  <2>1. \A r \in Request : /\ Past(r, "ended") \in RequestState
                           /\ Past(r, "ended").phase = "ended" /\ Shaped(Past(r, "ended"))
    BY PastType DEF IInv
  <2>2. QED BY <2>1 DEF Reloaded, RequestState, Shaped
<1>5. /\ request' \in [Request -> RequestState]
      /\ \A r \in Request : Shaped(request'[r])
      /\ \A r \in Request :
            \/ request'[r].phase = "new"
            \/ /\ request'[r].phase = "ended"
               /\ request'[r].tenant_generation = 0 /\ request'[r].task_generation = 0
      /\ \A r \in Request : request[r].phase = "ended" => request'[r].phase = "ended"
  <2> HIDE DEF NewRequest, Reloaded, RequestState, Shaped
  <2>1. QED BY <1>1, <1>3, <1>4
<1>6. Bound' = {}
  BY <1>1 DEF Bound
<1>7. IsFiniteSet(Bound') /\ Cardinality(Bound') = 0
  BY <1>6, FS_EmptySet
<1>8. IdleDeleter \in DeleterState /\ IdleDeleter.doomed = {}
  BY DEF IdleDeleter, DeleterState, Scope
<1>9. Capacity \in Nat
  BY ConstantsAssumption
<1>10. TypeOK'
  BY <1>1, <1>2, <1>5, <1>7, <1>8, <1>9 DEF IInv, TypeOK
<1>11. CrossedIsBehind'
  <2>1. \A r \in Request : TaskGeneration(request[r].task)' = 0
    BY <1>1, <1>5 DEF TaskGeneration, RequestState
  <2>2. QED BY <1>1, <1>2, <1>5, <2>1 DEF CrossedIsBehind, Known
<1>12. BindingsAttributed' /\ NoBindingResurrected'
  BY <1>6 DEF BindingsAttributed, NoBindingResurrected
<1>13. RecordsFinal'
  BY <1>1, <1>5, <1>8 DEF IInv, TypeOK, RecordsFinal
<1>14. DoomedIsOlder' /\ DeletionRemoves'
  BY <1>1, <1>8 DEF IInv, DoomedIsOlder, DeletionRemoves
<1>15. QED BY <1>5, <1>7, <1>10, <1>11, <1>12, <1>13, <1>14 DEF IInv

-----------------------------------------------------------------------------
(* The theorems.                                                             *)

\* Nothing is stored, and nobody is admitted, at the start.
LEMMA Initial == Init => IInv
<1> SUFFICES ASSUME Init PROVE IInv
  OBVIOUS
<1>1. /\ restarts = 0 /\ tenant_generation = 0 /\ task_generation = [t \in Task |-> 0]
      /\ backend \in Backends
      /\ bindings = [k \in Key |-> NoBinding] /\ records = {} /\ gone = {}
      /\ request = [r \in Request |-> NewRequest]
      /\ deleter = [d \in Deleter |-> IdleDeleter]
  BY DEF Init
<1>2. NewRequest \in RequestState /\ NewRequest.phase = "new" /\ Shaped(NewRequest)
  BY DEF NewRequest, RequestState, Reason, Shaped
<1>3. IdleDeleter \in DeleterState /\ IdleDeleter.doomed = {}
  BY DEF IdleDeleter, DeleterState, Scope
<1>4. Bound = {}
  BY <1>1 DEF Bound
<1>5. IsFiniteSet(Bound) /\ Cardinality(Bound) = 0
  BY <1>4, FS_EmptySet
<1>6. Capacity \in Nat /\ MaxRestarts \in Nat /\ Backends \subseteq {"memory", "redis"}
  BY ConstantsAssumption
<1>7. TypeOK
  BY <1>1, <1>2, <1>3, <1>5, <1>6 DEF TypeOK
<1>8. CrossedIsBehind /\ \A r \in Request : Shaped(request[r])
  BY <1>1, <1>2 DEF CrossedIsBehind, Known
<1>9. BindingsAttributed /\ NoBindingResurrected
  BY <1>4 DEF BindingsAttributed, NoBindingResurrected
<1>10. RecordsFinal /\ DoomedIsOlder /\ DeletionRemoves
  BY <1>1, <1>3 DEF RecordsFinal, DoomedIsOlder, DeletionRemoves
<1>11. QED BY <1>5, <1>7, <1>8, <1>9, <1>10 DEF IInv

\* A step that changes nothing.
LEMMA Stuttering == IInv /\ UNCHANGED vars => IInv'
<1> SUFFICES ASSUME IInv, UNCHANGED vars PROVE IInv'
  OBVIOUS
<1>1. UNCHANGED <<backend, restarts, generations, bindings, records, request, deleter, gone>>
  BY DEF vars, generations
<1>2. Bound' = Bound /\ bindings' \in [Key -> Binding \cup {NoBinding}]
  BY <1>1 DEF IInv, TypeOK, Bound
<1>3. /\ IsFiniteSet(Bound') /\ CrossedIsBehind' /\ BindingsAttributed' /\ NoBindingResurrected'
      /\ \A r \in Request : Shaped(request'[r])
  BY <1>1, <1>2, RequestsStay
<1>4. TypeOK'
  BY <1>1, <1>2 DEF IInv, TypeOK, generations
<1>5. RecordsFinal' /\ DeletionRemoves' /\ DoomedIsOlder'
  BY <1>1, DoomedStay DEF IInv, RecordsFinal, DeletionRemoves
<1>6. QED BY <1>3, <1>4, <1>5 DEF IInv

\* Every step keeps the inductive invariant, action by action.
LEMMA Inductive == IInv /\ [Next]_vars => IInv'
<1> SUFFICES ASSUME IInv, [Next]_vars PROVE IInv'
  OBVIOUS
<1>1. CASE \E r \in Request, primary \in BOOLEAN, task \in Task \cup {NoTask},
              key \in Key \cup {NoTask} : Admit(r, primary, task, key)
  BY <1>1, AdmitKeeps
<1>2. CASE \E r \in Request : Lookup(r)
  BY <1>2, LookupKeeps
<1>3. CASE \E r \in Request : Serve(r)
  BY <1>3, ServeKeeps
<1>4. CASE \E r \in Request : Commit(r)
  BY <1>4, CommitKeeps
<1>5. CASE \E r \in Request : Store(r)
  BY <1>5, StoreKeeps
<1>6. CASE \E d \in Deleter, scope \in Scope : List(d, scope)
  BY <1>6, ListKeeps
<1>7. CASE \E d \in Deleter : Fence(d)
  BY <1>7, FenceKeeps
<1>8. CASE \E d \in Deleter : ReadGeneration(d)
  BY <1>8, ReadGenerationKeeps
<1>9. CASE \E d \in Deleter : Erase(d)
  BY <1>9, EraseKeeps
<1>10. CASE \E task \in Task : Unbind(task)
  BY <1>10, UnbindKeeps
<1>11. CASE \E session \in Session : UnbindSession(session)
  BY <1>11, ForgetKeeps DEF UnbindSession, Key
<1>12. CASE \E key \in Key : Expire(key)
  BY <1>12, ForgetKeeps DEF Expire
<1>13. CASE Restart
  BY <1>13, RestartKeeps
<1>14. CASE UNCHANGED vars
  BY <1>14, Stuttering
<1>15. QED BY <1>1, <1>2, <1>3, <1>4, <1>5, <1>6, <1>7, <1>8, <1>9, <1>10, <1>11, <1>12,
              <1>13, <1>14 DEF Next

\* The inductive invariant: generations only grow, a crossed request is behind
\* them, and what bindings and records say of their requests stays true.
THEOREM Invariance == Spec => []IInv
BY Initial, Inductive, PTL DEF Spec

\* Every reachable state is well typed, and the memory repository of binding.rs
\* never holds more bindings than its capacity.
THEOREM TypeCorrect == Spec => []TypeOK
<1>1. IInv => TypeOK
  BY DEF IInv
<1>2. QED BY Invariance, <1>1, PTL

\* No binding is ever the work of a request that was admitted before a deletion of
\* its task or of its tenant (put's generation check in binding.rs against
\* remove_task and remove_tenant).
THEOREM NoResurrection == Spec => []NoBindingResurrected
<1>1. IInv => NoBindingResurrected
  BY DEF IInv
<1>2. QED BY Invariance, <1>1, PTL

\* On the memory backend what was stored when a deletion of its scope took effect is
\* gone for good once the deletion is answered, in the process that made the record
\* and in those that replay it (delete_task_records and delete_tenant_records in
\* main.rs, delete_local in record.rs).
THEOREM Removal == Spec => []DeletionRemoves
<1>1. IInv => DeletionRemoves
  BY DEF IInv
<1>2. QED BY Invariance, <1>1, PTL

\* On Redis a request that a deletion crossed stores no record (put_record's
\* generation check in shared_state.rs).
THEOREM CrossedStores == Spec => CrossedStoresNothing
<1> DEFINE A == backend = "redis" =>
         \A r \in Request : request[r].crossed /\ r \notin records => r \notin records'
<1>1. ASSUME IInv, Next, backend = "redis", NEW r \in Request, request[r].crossed,
             r \notin records
      PROVE  r \notin records'
  <2>1. CASE \E s \in Request : Store(s)
    <3>1. PICK s \in Request : Store(s)
      BY <2>1
    <3>2. CASE s = r
      <4>1. request[r].phase = "storing"
        BY <3>1, <3>2 DEF Store
      <4>2. Known(r)
        BY <4>1 DEF Known
      <4>3. request[r].tenant_generation \in Nat /\ request[r].task_generation \in Nat
        BY <1>1 DEF IInv, TypeOK, RequestState
      <4>4. ~Fresh(r)
        BY <1>1, <4>2, <4>3 DEF IInv, CrossedIsBehind, Behind, Fresh
      <4>5. QED BY <1>1, <3>1, <3>2, <4>4 DEF Store
    <3>3. CASE s # r
      BY <1>1, <3>1, <3>3 DEF Store
    <3>4. QED BY <3>2, <3>3
  <2>2. CASE \E d \in Deleter : Erase(d)
    BY <1>1, <2>2 DEF Erase
  <2>3. CASE UNCHANGED records
    BY <1>1, <2>3
  <2>4. QED BY <1>1, <2>1, <2>2, <2>3 DEF Next, Admit, Lookup, Serve, Commit, List, Fence,
              ReadGeneration, Unbind, UnbindSession, Expire, Restart
<1>2. IInv /\ [Next]_vars => [A]_vars
  BY <1>1
<1>3. QED BY <1>2, Invariance, PTL DEF Spec, CrossedStoresNothing

\* What a binding binds to changes only with its generation, and only for a request
\* that was routed as a migration or served by a fallback (commit_task_binding's
\* allow_migration and put in binding.rs).
THEOREM FirstSuccess == Spec => FirstSuccessWins
<1> DEFINE A == \A k \in Bound :
         (bindings'[k] # NoBinding /\ bindings'[k].identity # bindings[k].identity) =>
            /\ bindings'[k].generation = bindings[k].generation + 1
            /\ request[bindings'[k].by].reason \notin {"routed", "bound"}
<1>1. ASSUME IInv, Next, NEW k \in Bound, bindings'[k] # NoBinding,
             bindings'[k].identity # bindings[k].identity
      PROVE  /\ bindings'[k].generation = bindings[k].generation + 1
             /\ request[bindings'[k].by].reason \notin {"routed", "bound"}
  <2>1. CASE \E r \in Request : Commit(r)
    <3>1. PICK r \in Request : Commit(r)
      BY <2>1
    <3>2. ~UNCHANGED bindings
      BY <1>1
    <3>3. /\ k \in Key /\ bindings[k] # NoBinding
          /\ \/ bindings'[k] = Written(r, bindings[k])
             \/ bindings'[k] \in {NoBinding, bindings[k]}
      BY <1>1, <3>1, <3>2 DEF Commit, Bound
    <3>4. bindings'[k] = Written(r, bindings[k])
      BY <1>1, <3>3
    <3>5. QED BY <1>1, <3>3, <3>4 DEF Written, AllowsMigration
  <2>2. CASE \E scope \in Scope : RemoveBindings(scope)
    BY <1>1, <2>2, RemoveUnbinds DEF Bound
  <2>3. CASE \E key \in Key : bindings' = [bindings EXCEPT ![key] = NoBinding]
    BY <1>1, <2>3 DEF IInv, TypeOK, Bound
  <2>4. CASE UNCHANGED bindings
    BY <1>1, <2>4
  <2>5. CASE Restart
    BY <1>1, <2>5 DEF Restart, Bound
  <2>6. (\E d \in Deleter : Fence(d)) \/ (\E task \in Task : Unbind(task))
            => \E scope \in Scope : RemoveBindings(scope)
    BY <1>1 DEF Fence, Unbind, Scope, IInv, TypeOK, DeleterState
  <2>7. (\E session \in Session : UnbindSession(session)) \/ (\E key \in Key : Expire(key))
            => \E key \in Key : bindings' = [bindings EXCEPT ![key] = NoBinding]
    BY DEF UnbindSession, Expire, Key
  <2>8. QED BY <1>1, <2>1, <2>2, <2>3, <2>4, <2>5, <2>6, <2>7
            DEF Next, Admit, Lookup, Serve, Store, List, ReadGeneration, Erase
<1>2. IInv /\ [Next]_vars => [A]_vars
  BY <1>1
<1>3. QED BY <1>2, Invariance, PTL DEF Spec, FirstSuccessWins

-----------------------------------------------------------------------------
(* RecordStore.                                                             *)
\* An append writes one record, and nobody waits for it.
Commands ==
    \A i \in 1 .. Len(queue) :
        queue[i].kind = "append" => Len(queue[i].records) = 1 /\ queue[i].by = NoCaller

\* A rewrite in the queue has at most one caller, which waits for it and for no other.
Attended ==
    /\ \A i \in 1 .. Len(queue) :
          queue[i].by # NoCaller => caller[queue[i].by].phase \in Waiting
    /\ \A i, j \in 1 .. Len(queue) : queue[i].by = queue[j].by /\ queue[i].by # NoCaller => i = j
    /\ \A c \in Caller :
          caller[c].phase \in Waiting => \E i \in 1 .. Len(queue) : queue[i].by = c

\* A process that is down has nothing in memory and nobody at work.
Asleep ==
    ~up => /\ memory = <<>> /\ queue = <<>>
           /\ \A r \in Record : put[r] # "pushed"
           /\ \A c \in Caller : caller[c] = Idle

\* Where a record may still be: in a command, in the snapshot of a rewrite that is yet
\* to be sent, in the files.
Queued(r) == \E i \in 1 .. Len(queue) : r \in Range(queue[i].records)

Pending(r) == \E c \in Caller : r \in Range(caller[c].snapshot)

Filed(r) == r \in Range(path) \/ r \in Range(rotated)

\* A record that was not appended is nowhere.
Unwritten ==
    \A r \in Record : put[r] = "new" =>
        /\ r \notin Range(memory) /\ ~Filed(r) /\ ~Queued(r) /\ ~Pending(r) /\ r \notin expired
        /\ \A c \in Caller : r \notin caller[c].found

\* What a caller k holds in each phase of delete_matching.
Stage(k, mem, exp) ==
    /\ k.phase \notin Sending \cup Waiting => k.gone = {}
    /\ k.phase \notin Sending => k.snapshot = <<>>
    /\ k.op = "sweep" => k.found \subseteq exp
    /\ k.op = "sweep" /\ k.phase \in {"prune_send", "prune_wait"} =>
          k.found \cap mem = {}
    /\ k.phase \in {"erase", "erase_send", "erase_wait"} => k.op = "delete"
    /\ k.phase = "erase" => k.found \subseteq k.targets

Stages == \A c \in Caller : Stage(caller[c], Range(memory), expired)

\* No write of r is to be decided any more: it is not in memory, not between the two
\* halves of append, and in no snapshot.
Fading(r) == put[r] = "done" /\ r \notin Range(memory) /\ ~Pending(r)

\* What a caller removed, or found for a deletion that removed something.
Doom(k) == k.gone \cup IF k.phase \in {"erase_send", "erase_wait"} THEN k.found ELSE {}

\* What a caller removed is fading, unless an older write of it was overtaken.
Fades == \A c \in Caller : \A r \in Doom(caller[c]) \ overtaken : Fading(r)

\* It is in no command from the caller's own rewrite on, which so makes an end of it.
Rewritten ==
    \A i, j \in 1 .. Len(queue) : queue[i].by # NoCaller /\ i <= j =>
        \A r \in Doom(caller[queue[i].by]) \ overtaken : r \notin Range(queue[j].records)

\* Fading, and out of the queue and the files too: for good.
Nowhere(r) == Fading(r) /\ ~Queued(r) /\ ~Filed(r)

\* That is where the records of an acknowledged deletion are,
Erasure == \A r \in erased \ overtaken : Nowhere(r)

\* and those of a tombstoned vector, if they are not expired and pruned.
Spent(r) == r \in expired /\ r \notin Range(memory)

Burial == \A r \in tombstones \ overtaken : Nowhere(r) \/ Spent(r)

\* The inductive invariant of the record store.
StoreInv == /\ StoreTypeOK /\ Commands /\ Attended /\ Asleep /\ Unwritten /\ Stages
            /\ Fades /\ Rewritten /\ Erasure /\ Burial

\* VecDeque::retain, of the members of the deque.
LEMMA KeepLeaves ==
    ASSUME NEW s \in RecordSeq, NEW dropped
    PROVE  /\ Keep(s, dropped) \in RecordSeq
           /\ Len(Keep(s, dropped)) <= Len(s)
           /\ Range(Keep(s, dropped)) = Range(s) \ dropped
<1>1. s \in Seq(Record)
  BY DEF RecordSeq
<1> DEFINE S == Range(s) \ dropped
           k == Kept(s, S)
<1> HIDE DEF S
<1>2. /\ k \in Seq(Record) /\ Len(k) \in Nat /\ Len(k) <= Len(s)
      /\ \A i \in 1 .. Len(k) : k[i] \in S
      /\ \A i \in 1 .. Len(k) : \E j \in 1 .. Len(s) : k[i] = s[j]
      /\ \A i \in 1 .. Len(s) : s[i] \in S => \E j \in 1 .. Len(k) : k[j] = s[i]
  BY <1>1, KeptIsPicked
<1> HIDE DEF k
<1>3. Range(k) \subseteq S
  BY <1>2 DEF Range
<1>4. S \subseteq Range(k)
  BY <1>1, <1>2 DEF Range, S
<1> QED
  BY <1>2, <1>3, <1>4 DEF Keep, k, S, RecordSeq

\* Making room leaves no more than the capacity, and adds nothing.
LEMMA NewestLeaves ==
    ASSUME StoreTypeOK, NEW s \in RecordSeq
    PROVE  /\ Newest(s) \in RecordSeq
           /\ Len(Newest(s)) <= capacity
           /\ Range(Newest(s)) \subseteq Range(s)
<1>1. capacity \in Nat \ {0}
  BY StoreAssumption DEF StoreTypeOK
<1>2. CASE Len(s) <= capacity
  BY <1>2 DEF Newest
<1>3. CASE Len(s) > capacity
  <2> DEFINE m == Len(s) - capacity + 1
             n == SubSeq(s, m, Len(s))
  <2>1. s \in Seq(Record) /\ Len(s) \in Nat /\ m \in 1 .. Len(s) + 1
    BY <1>1, <1>3 DEF RecordSeq
  <2>2. /\ n \in Seq(Record) /\ Len(n) = capacity
        /\ \A i \in 1 .. Len(n) : n[i] = s[m + i - 1] /\ m + i - 1 \in 1 .. Len(s)
    BY <1>1, <1>3, <2>1
  <2>3. Newest(s) = n
    BY <1>1, <1>3, <2>1 DEF Newest
  <2>4. Range(n) \subseteq Range(s)
    BY <2>1, <2>2 DEF Range
  <2> QED
    BY <1>1, <2>2, <2>3, <2>4 DEF RecordSeq
<1> QED
  BY <1>1, <1>2, <1>3 DEF RecordSeq

\* The members of a sequence that grows by one,
LEMMA AppendHolds ==
    ASSUME NEW s \in RecordSeq, NEW r \in Record
    PROVE  Append(s, r) \in RecordSeq /\ Range(Append(s, r)) = Range(s) \cup {r}
<1>1. /\ Append(s, r) \in Seq(Record) /\ Len(Append(s, r)) = Len(s) + 1 /\ Len(s) \in Nat
      /\ \A i \in 1 .. Len(s) : Append(s, r)[i] = s[i]
      /\ Append(s, r)[Len(s) + 1] = r
  BY DEF RecordSeq
<1>2. s \in Seq(Record)
  BY DEF RecordSeq
<1> QED
  BY <1>1, <1>2 DEF Range, RecordSeq

\* of one of records,
LEMMA InRange ==
    ASSUME NEW s \in RecordSeq
    PROVE  Range(s) \subseteq Record
BY DEF Range, RecordSeq

\* A command has its three fields.
LEMMA QueueTyped ==
    ASSUME StoreTypeOK
    PROVE  \A i \in 1 .. Len(queue) : /\ queue[i].by \in Caller \cup {NoCaller}
                                      /\ queue[i].kind \in {"append", "rewrite"}
                                      /\ queue[i].records \in RecordSeq
<1> SUFFICES ASSUME NEW i \in 1 .. Len(queue)
             PROVE  queue[i] \in Command
  BY DEF Command
<1> QED
  BY DEF StoreTypeOK

\* and of the empty one.
LEMMA NothingInEmpty == Range(<<>>) = {} /\ <<>> \in RecordSeq
BY DEF Range, RecordSeq

\* A store that was never written to.
LEMMA StoreInitial == StoreInit => StoreInv
<1> SUFFICES ASSUME StoreInit PROVE StoreInv
  OBVIOUS
<1> USE DEF StoreInit
<1>1. \A c \in Caller : caller[c] = Idle
  OBVIOUS
<1>2. Idle \in CallerState
  BY NothingInEmpty DEF Idle, CallerState, Op, Phase
<1>3. StoreTypeOK
  BY <1>2, NothingInEmpty, StoreAssumption DEF StoreTypeOK
<1>4. Commands /\ Attended /\ Asleep
  BY <1>1 DEF Commands, Attended, Asleep, Idle, Waiting
<1>5. Unwritten
  BY <1>1, NothingInEmpty DEF Unwritten, Filed, Queued, Pending, Idle
<1>6. Stages
  BY <1>1 DEF Stages, Stage, Idle
<1>7. Fades /\ Rewritten
  BY <1>1 DEF Fades, Rewritten, Doom, Idle
<1>8. Erasure /\ Burial
  BY DEF Erasure, Burial
<1> QED
  BY <1>3, <1>4, <1>5, <1>6, <1>7, <1>8 DEF StoreInv

\* append, first half: nothing is known of a record before it.
LEMMA PushKeeps ==
    ASSUME StoreInv, NEW r \in Record, Push(r)
    PROVE  StoreInv'
<1> USE DEF StoreInv, Push, files, history
<1>1. memory \in RecordSeq /\ Append(memory, r) \in RecordSeq
  BY AppendHolds DEF StoreTypeOK
<1>2. /\ memory' \in RecordSeq /\ Len(memory') <= capacity
      /\ Range(memory') \subseteq Range(memory) \cup {r}
  BY <1>1, AppendHolds, NewestLeaves
<1>3. put \in [Record -> {"new", "pushed", "done"}]
  BY DEF StoreTypeOK
<1>4. /\ put[r] = "new" /\ put'[r] = "pushed"
      /\ \A q \in Record \ {r} : put'[q] = put[q]
  BY <1>3
<1>5. StoreTypeOK'
  BY <1>2, <1>3 DEF StoreTypeOK
<1>6. Commands' /\ Attended' /\ Asleep'
  BY DEF Commands, Attended, Asleep
<1>7. \A q : Queued(q)' = Queued(q) /\ Pending(q)' = Pending(q) /\ Filed(q)' = Filed(q)
  BY DEF Queued, Pending, Filed
<1>8. Unwritten'
  BY <1>2, <1>4, <1>7 DEF Unwritten
<1>9. \A c \in Caller : r \notin caller[c].found
  BY <1>4 DEF Unwritten
<1>10. Stages'
  BY <1>2, <1>9 DEF Stages, Stage
<1>11. \A q \in Record : put[q] # "new" /\ q \notin Range(memory) => q # r /\ q \notin Range(memory')
  BY <1>2, <1>4
<1>12. \A q \in Record : (Fading(q) => Fading(q)') /\ (Nowhere(q) => Nowhere(q)')
  BY <1>4, <1>7, <1>11 DEF Fading, Nowhere
<1>13. \A q \in Record : Spent(q) => Spent(q)'
  BY <1>11 DEF Spent, Unwritten
<1>14. \A c \in Caller : Doom(caller[c]) \subseteq Record
  BY DEF Doom, StoreTypeOK, CallerState
<1>15. Fades' /\ Rewritten'
  BY <1>12, <1>14 DEF Fades, Rewritten
<1>16. Erasure' /\ Burial'
  BY <1>12, <1>13 DEF Erasure, Burial, StoreTypeOK
<1> QED
  BY <1>5, <1>6, <1>8, <1>10, <1>15, <1>16

\* What append writes is in no rewrite that is still to be forgotten.
LEMMA EnqueueKeeps ==
    ASSUME StoreInv, NEW r \in Record, Enqueue(r)
    PROVE  StoreInv'
<1> USE DEF StoreInv, Enqueue, files, history
<1>1. put \in [Record -> {"new", "pushed", "done"}] /\ queue \in Seq(Command)
  BY DEF StoreTypeOK
<1>2. /\ put[r] = "pushed" /\ put'[r] = "done"
      /\ \A q \in Record \ {r} : put'[q] = put[q]
  BY <1>1
<1>3. /\ AppendCommand(r) \in Command
      /\ AppendCommand(r).records = <<r>> /\ Range(<<r>>) = {r}
      /\ AppendCommand(r).by = NoCaller /\ AppendCommand(r).kind = "append"
  BY DEF AppendCommand, Command, RecordSeq, Range
<1>4. up
  BY <1>2 DEF Asleep
<1>5. StoreTypeOK'
  BY <1>1, <1>3, StoreAssumption DEF StoreTypeOK
<1>6. \A q \in Record : /\ put[q] = "done" => put'[q] = "done" /\ q # r
                        /\ put'[q] = "new" => put[q] = "new" /\ q # r
  BY <1>2
<1>7. \A q : Pending(q)' = Pending(q) /\ Filed(q)' = Filed(q)
  BY DEF Pending, Filed
<1>8. \A c \in Caller : Doom(caller[c]) \subseteq Record
  BY DEF Doom, StoreTypeOK, CallerState
<1>9. CASE Len(queue) < QueueCapacity
  <2>1. /\ Len(queue') = Len(queue) + 1 /\ Len(queue) \in Nat
        /\ \A i \in 1 .. Len(queue) : queue'[i] = queue[i]
        /\ queue'[Len(queue) + 1] = AppendCommand(r)
    BY <1>1, <1>9
  <2>2. \A i \in 1 .. Len(queue') : i \in 1 .. Len(queue) \/ i = Len(queue) + 1
    BY <2>1
  <2>3. Commands'
    BY <1>3, <2>1, <2>2 DEF Commands
  <2>4. Attended'
    BY <1>3, <2>1, <2>2, StoreAssumption DEF Attended, Caller
  <2>5. \A q \in Record : q # r => (Queued(q)' <=> Queued(q))
    BY <1>3, <2>1, <2>2 DEF Queued
  <2>6. Unwritten'
    BY <1>6, <1>7, <2>5 DEF Unwritten
  <2>7. \A q \in Record : (Fading(q) => Fading(q)') /\ (Nowhere(q) => Nowhere(q)')
    BY <1>6, <1>7, <2>5 DEF Fading, Nowhere
  <2>8. Rewritten'
    <3> SUFFICES ASSUME NEW i \in 1 .. Len(queue'), NEW j \in 1 .. Len(queue'),
                        queue'[i].by # NoCaller, i <= j,
                        NEW q \in Doom(caller[queue'[i].by]) \ overtaken
                 PROVE  q \notin Range(queue'[j].records)
      BY DEF Rewritten
    <3>1. i \in 1 .. Len(queue) /\ queue'[i] = queue[i]
      BY <1>3, <2>1, <2>2
    <3>2. queue[i].by \in Caller
      BY <3>1, QueueTyped
    <3>3. CASE j \in 1 .. Len(queue)
      BY <2>1, <3>1, <3>3 DEF Rewritten
    <3>4. CASE j = Len(queue) + 1
      <4>1. put[q] = "done" /\ q \in Record
        BY <1>8, <3>1, <3>2 DEF Fades, Fading
      <4> QED
        BY <1>3, <1>6, <2>1, <3>4, <4>1
    <3> QED
      BY <2>2, <3>3, <3>4
  <2> QED
    BY <1>4, <1>5, <1>7, <1>8, <2>3, <2>4, <2>6, <2>7, <2>8
       DEF Asleep, Stages, Stage, Fades, Erasure, Burial, Spent, StoreTypeOK
<1>10. CASE ~(Len(queue) < QueueCapacity)
  <2>1. queue' = queue
    BY <1>10
  <2>2. \A q : Queued(q)' = Queued(q)
    BY <2>1 DEF Queued
  <2>3. \A q \in Record : (Fading(q) => Fading(q)') /\ (Nowhere(q) => Nowhere(q)')
    BY <1>6, <1>7, <2>2 DEF Fading, Nowhere
  <2>4. Commands' /\ Attended' /\ Asleep'
    BY <1>4, <2>1 DEF Commands, Attended, Asleep
  <2>5. Unwritten'
    BY <1>6, <1>7, <2>2 DEF Unwritten
  <2> QED
    BY <1>5, <1>8, <2>1, <2>3, <2>4, <2>5
       DEF Stages, Stage, Fades, Rewritten, Erasure, Burial, Spent, StoreTypeOK
<1> QED
  BY <1>9, <1>10

\* Only what has expired is expired.
LEMMA ExpireKeeps ==
    ASSUME StoreInv, NEW r \in Record, ExpireRecord(r)
    PROVE  StoreInv'
<1> USE DEF StoreInv, ExpireRecord, files, history, store
<1>1. \A q : /\ Queued(q)' = Queued(q) /\ Pending(q)' = Pending(q) /\ Filed(q)' = Filed(q)
             /\ Fading(q)' = Fading(q) /\ Nowhere(q)' = Nowhere(q)
             /\ (Spent(q) => Spent(q)')
  BY DEF Queued, Pending, Filed, Fading, Nowhere, Spent
<1>2. StoreTypeOK' /\ Commands' /\ Attended' /\ Asleep'
  BY DEF StoreTypeOK, Commands, Attended, Asleep
<1>3. Unwritten'
  BY <1>1 DEF Unwritten
<1>4. Stages'
  BY DEF Stages, Stage
<1>5. Fades' /\ Rewritten' /\ Erasure' /\ Burial'
  BY <1>1 DEF Fades, Rewritten, Erasure, Burial
<1> QED
  BY <1>2, <1>3, <1>4, <1>5

\* A caller begins with nothing removed.
LEMMA BeginKeeps ==
    ASSUME StoreInv, NEW c \in Caller, NEW op \in Op, NEW targets \in SUBSET Record,
           Begin(c, op, targets)
    PROVE  StoreInv'
<1> USE DEF StoreInv, Begin, files, history
<1> DEFINE k == [Idle EXCEPT !.op = op, !.phase = "prune", !.targets = targets,
                             !.found = IF op = "sweep" THEN Range(memory) \cap expired ELSE {}]
<1>1. /\ caller \in [Caller -> CallerState]
      /\ memory \in RecordSeq /\ Range(memory) \subseteq Record
  BY InRange DEF StoreTypeOK
<1>2. /\ k.op = op /\ k.phase = "prune" /\ k.targets = targets /\ k.gone = {}
      /\ k.found = IF op = "sweep" THEN Range(memory) \cap expired ELSE {}
      /\ k.snapshot = <<>>
      /\ k \in CallerState
  BY <1>1, NothingInEmpty DEF Idle, CallerState, Phase
<1> HIDE DEF k
<1>3. caller'[c] = k /\ \A d \in Caller \ {c} : caller'[d] = caller[d]
  BY <1>1 DEF k
<1>4. caller' \in [Caller -> CallerState]
  BY <1>1, <1>2 DEF k
<1>5. caller[c].gone = {} /\ caller[c].snapshot = <<>> /\ caller[c].phase = "idle"
  BY DEF Stages, Stage, Sending, Waiting
<1>6. StoreTypeOK'
  BY <1>4 DEF StoreTypeOK
<1>7. Commands' /\ Asleep'
  BY DEF Commands, Asleep
<1>8. Attended'
  BY <1>2, <1>3, <1>5 DEF Attended, Waiting, StoreTypeOK, Command
<1>9. \A q : Queued(q)' = Queued(q) /\ Filed(q)' = Filed(q)
  BY DEF Queued, Filed
<1>10. \A q : Pending(q)' <=> Pending(q)
  BY <1>2, <1>3, <1>5 DEF Pending
<1>11. \A q : (Fading(q)' <=> Fading(q)) /\ (Nowhere(q)' <=> Nowhere(q)) /\ (Spent(q)' <=> Spent(q))
  BY <1>9, <1>10 DEF Fading, Nowhere, Spent
<1>12. Unwritten'
  BY <1>2, <1>3, <1>9, <1>10 DEF Unwritten
<1>13. Stages'
  BY <1>2, <1>3 DEF Stages, Stage
<1>14. Doom(k) = {}
  BY <1>2 DEF Doom
<1>15. Fades' /\ Rewritten'
  BY <1>3, <1>11, <1>14 DEF Fades, Rewritten, StoreTypeOK, Command
<1>16. Erasure' /\ Burial'
  BY <1>11 DEF Erasure, Burial
<1> QED
  BY <1>6, <1>7, <1>8, <1>12, <1>13, <1>15, <1>16

\* The rewrite of a snapshot without the removed records follows, in the queue, whatever
\* may hold them.
LEMMA SendKeeps ==
    ASSUME StoreInv, NEW c \in Caller, SendRewrite(c)
    PROVE  StoreInv'
<1> USE DEF StoreInv, SendRewrite, files, history
<1> DEFINE k == [caller[c] EXCEPT
                    !.phase = IF Pruning(c) THEN "prune_wait" ELSE "erase_wait",
                    !.snapshot = <<>>]
<1>1. /\ caller \in [Caller -> CallerState] /\ queue \in Seq(Command)
  BY DEF StoreTypeOK
<1>2. /\ k.op = caller[c].op /\ k.targets = caller[c].targets /\ k.gone = caller[c].gone
      /\ k.found = caller[c].found /\ k.snapshot = <<>>
      /\ k.phase = IF caller[c].phase = "prune_send" THEN "prune_wait" ELSE "erase_wait"
      /\ caller[c].phase \in {"prune_send", "erase_send"}
      /\ k \in CallerState
  BY <1>1, NothingInEmpty DEF CallerState, Phase, Pruning, Sending
<1> HIDE DEF k
<1>3. caller'[c] = k /\ \A d \in Caller \ {c} : caller'[d] = caller[d]
  BY <1>1 DEF k
<1>4. caller' \in [Caller -> CallerState]
  BY <1>1, <1>2 DEF k
<1>5. /\ RewriteCommand(c).kind = "rewrite" /\ RewriteCommand(c).by = c
      /\ RewriteCommand(c).records = caller[c].snapshot
      /\ RewriteCommand(c) \in Command
  BY <1>1 DEF RewriteCommand, Command, CallerState
<1>6. /\ Len(queue') = Len(queue) + 1 /\ Len(queue) \in Nat
      /\ \A i \in 1 .. Len(queue) : queue'[i] = queue[i]
      /\ queue'[Len(queue) + 1] = RewriteCommand(c)
  BY <1>1, <1>5
<1>7. \A i \in 1 .. Len(queue') : i \in 1 .. Len(queue) \/ i = Len(queue) + 1
  BY <1>6
<1>8. StoreTypeOK'
  BY <1>1, <1>4, <1>5, StoreAssumption DEF StoreTypeOK
<1>9. c # NoCaller /\ \A i \in 1 .. Len(queue) : queue[i].by # c
  BY <1>2, StoreAssumption DEF Attended, Waiting, Caller
<1>10. Commands'
  BY <1>5, <1>6, <1>7 DEF Commands
<1>11. Attended'
  <2>1. \A i \in 1 .. Len(queue') :
           queue'[i].by # NoCaller => caller'[queue'[i].by].phase \in Waiting
    <3> SUFFICES ASSUME NEW i \in 1 .. Len(queue'), queue'[i].by # NoCaller
                 PROVE  caller'[queue'[i].by].phase \in Waiting
      OBVIOUS
    <3>1. CASE i = Len(queue) + 1
      BY <1>2, <1>3, <1>5, <1>6, <3>1 DEF Waiting
    <3>2. CASE i \in 1 .. Len(queue)
      <4>1. queue'[i] = queue[i] /\ queue[i].by \in Caller \ {c}
        BY <1>6, <1>9, <3>2, QueueTyped
      <4>2. caller[queue[i].by].phase \in Waiting
        BY <3>2, <4>1 DEF Attended
      <4> QED
        BY <1>3, <4>1, <4>2
    <3> QED
      BY <1>7, <3>1, <3>2
  <2>2. \A i, j \in 1 .. Len(queue') :
           queue'[i].by = queue'[j].by /\ queue'[i].by # NoCaller => i = j
    BY <1>5, <1>6, <1>7, <1>9 DEF Attended
  <2>3. \A d \in Caller :
           caller'[d].phase \in Waiting => \E i \in 1 .. Len(queue') : queue'[i].by = d
    BY <1>3, <1>5, <1>6 DEF Attended
  <2> QED
    BY <2>1, <2>2, <2>3 DEF Attended
<1>12. Asleep'
  BY <1>2 DEF Asleep, Idle
<1>13. \A q : Filed(q)' = Filed(q)
  BY DEF Filed
<1>14. \A q : (Pending(q)' => Pending(q)) /\ (Queued(q)' => Queued(q) \/ Pending(q))
  <2>1. \A q : Pending(q)' => Pending(q)
    BY <1>2, <1>3, NothingInEmpty DEF Pending
  <2>2. \A q : Queued(q)' => Queued(q) \/ Pending(q)
    BY <1>5, <1>6, <1>7 DEF Pending, Queued
  <2> QED
    BY <2>1, <2>2
<1>15. \A q : (Fading(q) => Fading(q)') /\ (Nowhere(q) => Nowhere(q)') /\ (Spent(q)' <=> Spent(q))
  BY <1>13, <1>14 DEF Fading, Nowhere, Spent
<1>16. Unwritten'
  BY <1>2, <1>3, <1>13, <1>14 DEF Unwritten
<1>17. Stages'
  <2>1. Stage(caller[c], Range(memory), expired)
    BY DEF Stages
  <2>2. Stage(k, Range(memory), expired)
    BY <1>2, <2>1 DEF Stage, Sending, Waiting
  <2> QED
    BY <1>3, <2>2 DEF Stages
<1>18. \A d \in Caller : Doom(caller'[d]) = Doom(caller[d])
  <2>1. Doom(k) = Doom(caller[c])
    BY <1>2 DEF Doom
  <2> QED
    BY <1>3, <2>1
<1>19. Fades'
  BY <1>15, <1>18 DEF Fades
<1>20. Rewritten'
  <2> SUFFICES ASSUME NEW i \in 1 .. Len(queue'), NEW j \in 1 .. Len(queue'),
                      queue'[i].by # NoCaller, i <= j,
                      NEW q \in Doom(caller'[queue'[i].by]) \ overtaken
               PROVE  q \notin Range(queue'[j].records)
    BY DEF Rewritten
  <2>1. queue'[i].by \in Caller
    BY <1>5, <1>6, <1>7, QueueTyped
  <2>2. Fading(q) /\ q \in Doom(caller[queue'[i].by]) \ overtaken
    BY <1>18, <2>1 DEF Fades
  <2>3. CASE j \in 1 .. Len(queue)
    BY <1>6, <1>7, <2>2, <2>3 DEF Rewritten
  <2>4. CASE j = Len(queue) + 1
    BY <1>5, <1>6, <2>2, <2>4 DEF Fading, Pending
  <2> QED
    BY <1>7, <2>3, <2>4
<1>21. Erasure' /\ Burial'
  BY <1>15 DEF Erasure, Burial
<1> QED
  BY <1>8, <1>10, <1>11, <1>12, <1>16, <1>17, <1>19, <1>20, <1>21

\* What a caller holds when its delete_matching has succeeded.
LEMMA Returned ==
    ASSUME StoreTypeOK, NEW c \in Caller
    PROVE  /\ Return(c) \in CallerState
           /\ Return(c).phase \in {"idle", "erase"}
           /\ Return(c).found \subseteq Range(memory)
           /\ Return(c).snapshot = <<>>
           /\ Doom(Return(c)) = {}
           /\ \A mem, exp : Stage(Return(c), mem, exp)
<1>1. caller[c] \in CallerState
  BY DEF StoreTypeOK
<1>2. Idle \in CallerState
  BY NothingInEmpty DEF Idle, CallerState, Op, Phase
<1>3. CASE Return(c) = Idle
  BY <1>2, <1>3 DEF Idle, Doom, Stage
<1>4. CASE Pruning(c) /\ caller[c].op = "delete"
  <2> DEFINE k == [Idle EXCEPT !.op = "delete", !.phase = "erase", !.targets = caller[c].targets,
                               !.found = caller[c].targets \cap Range(memory)]
  <2>1. Return(c) = k
    BY <1>4 DEF Return
  <2>2. caller[c].targets \in SUBSET Record
    BY <1>1 DEF CallerState
  <2>3. /\ k.op = "delete" /\ k.phase = "erase" /\ k.gone = {} /\ k.snapshot = <<>>
        /\ k.targets = caller[c].targets /\ k.found = caller[c].targets \cap Range(memory)
        /\ k \in CallerState
    BY <2>2, NothingInEmpty DEF Idle, CallerState, Op, Phase
  <2> HIDE DEF k
  <2> QED
    BY <2>1, <2>3 DEF Doom, Stage
<1> QED
  BY <1>3, <1>4 DEF Return

\* An idle caller holds nothing.
LEMMA IdleShape ==
    /\ Idle \in CallerState /\ Idle.phase = "idle" /\ Idle.found = {} /\ Idle.snapshot = <<>>
    /\ Doom(Idle) = {} /\ \A mem, exp : Stage(Idle, mem, exp)
BY NothingInEmpty DEF Idle, CallerState, Op, Phase, Doom, Stage

\* delete_matching under the lock: what it removes fades, and what it tombstones without a
\* rewrite was not there.
LEMMA RetainKeeps ==
    ASSUME StoreInv, NEW c \in Caller, Retain(c)
    PROVE  StoreInv'
<1> USE DEF StoreInv, files
<1> DEFINE doomed == IF Pruning(c) THEN expired ELSE caller[c].targets
           dropped == Range(memory) \cap doomed
<1>1. /\ caller \in [Caller -> CallerState] /\ memory \in RecordSeq /\ caller[c] \in CallerState
      /\ Range(memory) \subseteq Record
  BY InRange DEF StoreTypeOK
<1>2. /\ memory' \in RecordSeq /\ Len(memory') <= Len(memory)
      /\ Range(memory') = Range(memory) \ dropped
  BY <1>1, KeepLeaves DEF Retain
<1>3. Len(memory') <= capacity
  BY <1>1, <1>2, StoreAssumption DEF StoreTypeOK, RecordSeq
<1>4. Stage(caller[c], Range(memory), expired) /\ caller[c].phase \in {"prune", "erase"}
  BY DEF Stages, Retain
<1>5. caller[c].gone = {} /\ caller[c].snapshot = <<>> /\ Doom(caller[c]) = {}
  BY <1>4 DEF Stage, Doom, Sending, Waiting
<1>6. UNCHANGED <<capacity, up, crashes, queue, put, path, rotated, expired, erased>>
  BY DEF Retain
<1>7. up
  BY <1>4 DEF Asleep, Idle
<1>8. \A i \in 1 .. Len(queue) : queue[i].by # c
  BY <1>4, StoreAssumption DEF Attended, Waiting, Caller
<1>9. \A q : Queued(q)' = Queued(q) /\ Filed(q)' = Filed(q)
  BY <1>6 DEF Queued, Filed
<1>10. Commands' /\ Asleep'
  BY <1>6, <1>7 DEF Commands, Asleep
<1>11. ASSUME \A d \in Caller \ {c} : caller'[d] = caller[d], caller'[c].phase \notin Waiting
       PROVE  Attended'
  <2>1. \A i \in 1 .. Len(queue') : queue'[i] = queue[i] /\ queue[i].by \in (Caller \ {c}) \cup {NoCaller}
    BY <1>6, <1>8, QueueTyped
  <2>2. \A i \in 1 .. Len(queue') :
           queue'[i].by # NoCaller => caller'[queue'[i].by].phase \in Waiting
    BY <1>6, <1>11, <2>1 DEF Attended
  <2>3. \A d \in Caller :
           caller'[d].phase \in Waiting => \E i \in 1 .. Len(queue') : queue'[i].by = d
    BY <1>6, <1>11 DEF Attended
  <2> QED
    BY <1>6, <2>2, <2>3 DEF Attended
<1>12. \A q \in Record : put[q] # "new" /\ Spent(q) => Spent(q)'
  BY <1>2, <1>6 DEF Spent
<1>13. CASE dropped = {}
  <2>1. /\ caller' = [caller EXCEPT ![c] = Return(c)]
        /\ tombstones' = tombstones \cup Buried(c, TRUE)
        /\ overtaken' = overtaken
    BY <1>13 DEF Retain
  <2>2. caller'[c] = Return(c) /\ \A d \in Caller \ {c} : caller'[d] = caller[d]
    BY <1>1, <2>1
  <2>3. /\ Return(c) \in CallerState /\ Return(c).phase \notin Waiting /\ Doom(Return(c)) = {}
        /\ Return(c).found \subseteq Range(memory) /\ Return(c).snapshot = <<>>
        /\ \A mem, exp : Stage(Return(c), mem, exp)
    BY Returned DEF Waiting
  <2>4. Buried(c, TRUE) \subseteq caller[c].found
    BY DEF Buried
  <2>5. StoreTypeOK'
    BY <1>1, <1>2, <1>3, <1>6, <2>1, <2>3, <2>4 DEF StoreTypeOK, CallerState
  <2>6. \A q : Pending(q)' <=> Pending(q)
    BY <1>5, <2>2, <2>3 DEF Pending
  <2>7. Range(memory') = Range(memory)
    BY <1>2, <1>13
  <2>8. \A q : Fading(q)' = Fading(q) /\ Nowhere(q)' = Nowhere(q) /\ Spent(q)' = Spent(q)
    BY <1>6, <1>9, <2>6, <2>7 DEF Fading, Nowhere, Spent
  <2>9. Unwritten'
    BY <1>6, <1>9, <2>2, <2>3, <2>6, <2>7 DEF Unwritten
  <2>10. Stages'
    BY <1>6, <2>2, <2>3, <2>7 DEF Stages
  <2>11. Fades' /\ Rewritten'
    <3>1. \A d \in Caller : Doom(caller'[d]) = Doom(caller[d])
      BY <1>5, <2>2, <2>3
    <3>2. \A i \in 1 .. Len(queue) : queue[i].by # NoCaller => queue[i].by \in Caller
      BY QueueTyped
    <3> QED
      BY <1>6, <2>1, <2>8, <3>1, <3>2 DEF Fades, Rewritten
  <2>12. Erasure'
    BY <1>6, <2>1, <2>8 DEF Erasure
  <2>13. Burial'
    <3>1. \A q \in Buried(c, TRUE) : Spent(q)
      <4>1. Buried(c, TRUE) = {} \/ (caller[c].op = "sweep" /\ Buried(c, TRUE) = caller[c].found)
        BY <1>5 DEF Buried
      <4>2. caller[c].op = "sweep" => Pruning(c) /\ caller[c].found \subseteq expired
        BY <1>4 DEF Stage, Pruning
      <4> QED
        BY <1>13, <4>1, <4>2 DEF Spent
    <3> QED
      BY <2>1, <2>8, <3>1 DEF Burial
  <2> QED
    BY <1>10, <1>11, <2>2, <2>3, <2>5, <2>9, <2>10, <2>11, <2>12, <2>13
<1>14. CASE dropped # {}
  <2> DEFINE k == [caller[c] EXCEPT
                      !.targets = IF Pruning(c) THEN @ ELSE {},
                      !.phase = IF Pruning(c) THEN "prune_send" ELSE "erase_send",
                      !.gone = dropped, !.snapshot = memory']
  <2>1. /\ caller' = [caller EXCEPT
              ![c].targets = IF Pruning(c) THEN @ ELSE {},
              ![c].phase = IF Pruning(c) THEN "prune_send" ELSE "erase_send",
              ![c].gone = dropped, ![c].snapshot = memory']
        /\ overtaken' = overtaken \cup (doomed \cap Overtaken(c))
        /\ tombstones' = tombstones
    BY <1>14 DEF Retain
  <2>2. caller'[c] = k /\ \A d \in Caller \ {c} : caller'[d] = caller[d]
    BY <1>1, <2>1 DEF CallerState
  <2>3. /\ k.op = caller[c].op /\ k.found = caller[c].found /\ k.gone = dropped
        /\ k.snapshot = memory'
        /\ k.phase = IF caller[c].phase = "prune" THEN "prune_send" ELSE "erase_send"
        /\ k \in CallerState
    BY <1>1, <1>2, <1>4 DEF CallerState, Phase, Pruning
  <2>4. DOMAIN caller' = Caller /\ caller' = [d \in Caller |-> caller'[d]]
    BY <1>1, <2>1
  <2> HIDE DEF k
  <2>5. caller' \in [Caller -> CallerState]
    BY <1>1, <2>2, <2>3, <2>4
  <2>6. expired \subseteq Record /\ doomed \subseteq Record
    BY <1>1 DEF StoreTypeOK, CallerState
  <2>7. StoreTypeOK'
    BY <1>2, <1>3, <1>6, <2>1, <2>5, <2>6 DEF StoreTypeOK
  <2>8. \A q : Pending(q)' => Pending(q) \/ q \in Range(memory')
    BY <2>2, <2>3 DEF Pending
  <2>9. \A q : (Fading(q) => Fading(q)') /\ (Nowhere(q) => Nowhere(q)') /\ (Spent(q) => Spent(q)')
    BY <1>2, <1>6, <1>9, <2>8 DEF Fading, Nowhere, Spent
  <2>10. Unwritten'
    BY <1>2, <1>6, <1>9, <2>2, <2>3, <2>8 DEF Unwritten
  <2>11. Stages'
    <3>1. Stage(k, Range(memory'), expired')
      <4>1. caller[c].op = "sweep" =>
               /\ caller[c].phase = "prune" /\ caller[c].found \subseteq expired /\ doomed = expired
        BY <1>4 DEF Stage, Pruning
      <4> QED
        BY <1>2, <1>4, <1>6, <2>3, <4>1 DEF Stage, Sending, Waiting
    <3>2. \A d \in Caller \ {c} : Stage(caller'[d], Range(memory'), expired')
      BY <1>2, <1>6, <2>2 DEF Stages, Stage
    <3> QED
      BY <2>2, <3>1, <3>2 DEF Stages
  <2>12. Doom(k) \subseteq doomed
    <3>1. caller[c].phase = "erase" => caller[c].found \subseteq doomed
      BY <1>4 DEF Stage, Pruning
    <3> QED
      BY <1>4, <2>3, <3>1 DEF Doom
  <2>13. Doom(k) \subseteq Record /\ \A q \in Doom(k) : put[q] # "new"
    <3>1. \A q \in Record : put[q] = "new" => q \notin caller[c].found /\ q \notin Range(memory)
      BY DEF Unwritten
    <3> QED
      BY <1>1, <2>3, <2>6, <2>12, <3>1 DEF Doom
  <2>14. \A q \in Doom(k) \ overtaken' : Fading(q)'
    <3> SUFFICES ASSUME NEW q \in Doom(k) \ overtaken'
                 PROVE  Fading(q)'
      OBVIOUS
    <3>1. q \in doomed /\ q \in Record /\ put[q] # "new" /\ q \notin Overtaken(c)
      BY <2>1, <2>12, <2>13
    <3>2. put[q] = "done"
      BY <3>1 DEF Overtaken, StoreTypeOK
    <3>3. \A d \in Caller \ {c} : q \notin Range(caller[d].snapshot)
      <4> SUFFICES ASSUME NEW d \in Caller \ {c} PROVE q \notin Range(caller[d].snapshot)
        OBVIOUS
      <4>1. CASE caller[d].phase \in Sending
        BY <3>1, <4>1 DEF Overtaken
      <4>2. CASE caller[d].phase \notin Sending
        BY <4>2, NothingInEmpty DEF Stages, Stage
      <4> QED
        BY <4>1, <4>2
    <3>4. q \notin Range(memory')
      BY <1>2, <3>1
    <3>5. ~Pending(q)'
      BY <2>2, <2>3, <3>3, <3>4 DEF Pending
    <3> QED
      BY <1>6, <3>2, <3>4, <3>5 DEF Fading
  <2>15. Fades'
    BY <2>1, <2>2, <2>9, <2>14 DEF Fades
  <2>16. Rewritten'
    <3>1. \A i \in 1 .. Len(queue) : queue[i].by # NoCaller => queue[i].by \in Caller \ {c}
      BY <1>8, QueueTyped
    <3> QED
      BY <1>6, <2>1, <2>2, <3>1 DEF Rewritten
  <2>17. Erasure' /\ Burial'
    BY <1>6, <2>1, <2>9 DEF Erasure, Burial
  <2>18. Attended'
    BY <1>11, <2>2, <2>3 DEF Waiting
  <2> QED
    BY <1>10, <2>7, <2>10, <2>11, <2>15, <2>16, <2>17, <2>18
<1> QED
  BY <1>13, <1>14

\* Whatever a command leaves behind, the files hold nothing that was in neither the files
\* nor the command, and after a rewrite that succeeded only what it wrote.
LEMMA ResultsHold ==
    ASSUME StoreTypeOK, NEW command \in Command,
           command.kind = "append" => Len(command.records) = 1,
           NEW result \in Results(command)
    PROVE  /\ result.path \in RecordSeq /\ result.rotated \in RecordSeq
           /\ result.ok \in BOOLEAN
           /\ Range(result.path) \cup Range(result.rotated)
                 \subseteq Range(path) \cup Range(rotated) \cup Range(command.records)
           /\ command.kind = "rewrite" /\ result.ok =>
                 result.path = command.records /\ result.rotated = <<>>
<1>1. path \in RecordSeq /\ rotated \in RecordSeq /\ command.records \in RecordSeq
  BY DEF StoreTypeOK, Command
<1>2. CASE command.kind = "rewrite"
  <2>1. result \in {Disk(path, rotated, FALSE), Disk(command.records, rotated, FALSE),
                    Disk(command.records, <<>>, TRUE)}
    BY <1>2 DEF Results, Rewrites
  <2>2. CASE result = Disk(path, rotated, FALSE)
    <3>1. result.path = path /\ result.rotated = rotated /\ result.ok = FALSE
      BY <2>2 DEF Disk
    <3> QED
      BY <1>1, <3>1
  <2>3. CASE result = Disk(command.records, rotated, FALSE)
    <3>1. result.path = command.records /\ result.rotated = rotated /\ result.ok = FALSE
      BY <2>3 DEF Disk
    <3> QED
      BY <1>1, <3>1
  <2>4. CASE result = Disk(command.records, <<>>, TRUE)
    <3>1. result.path = command.records /\ result.rotated = <<>> /\ result.ok = TRUE
      BY <2>4 DEF Disk
    <3> QED
      BY <1>1, <3>1, NothingInEmpty
  <2> QED
    BY <2>1, <2>2, <2>3, <2>4
<1>3. CASE command.kind = "append"
  <2> DEFINE r == command.records[1]
  <2>1. r \in Record /\ Range(command.records) = {r}
    BY <1>1, <1>3 DEF RecordSeq, Range
  <2>2. \A d \in Rotations :
           /\ d.path \in RecordSeq /\ d.rotated \in RecordSeq
           /\ Range(d.path) \cup Range(d.rotated) \subseteq Range(path) \cup Range(rotated)
    BY <1>1, NothingInEmpty DEF Rotations, Disk
  <2>3. PICK d \in Rotations :
           result \in {[d EXCEPT !.ok = FALSE], Disk(Append(d.path, r), d.rotated, TRUE)}
    BY <1>3 DEF Results, Appends
  <2>4. \A e \in Rotations : e = [path |-> e.path, rotated |-> e.rotated, ok |-> e.ok]
    BY DEF Rotations, Disk
  <2>5. CASE result = [d EXCEPT !.ok = FALSE]
    <3>1. result.path = d.path /\ result.rotated = d.rotated /\ result.ok = FALSE
      BY <2>4, <2>5
    <3> QED
      BY <1>3, <2>2, <3>1
  <2>6. CASE result = Disk(Append(d.path, r), d.rotated, TRUE)
    <3>1. /\ result.path = Append(d.path, r) /\ result.rotated = d.rotated /\ result.ok = TRUE
      BY <2>6 DEF Disk
    <3>2. Append(d.path, r) \in RecordSeq /\ Range(Append(d.path, r)) = Range(d.path) \cup {r}
      BY <2>1, <2>2, AppendHolds
    <3> QED
      BY <1>3, <2>1, <2>2, <3>1, <3>2
  <2> QED
    BY <2>3, <2>5, <2>6
<1> QED
  BY <1>2, <1>3 DEF Command

\* record_writer, whatever became of the command.
LEMMA WriteKeeps == StoreInv /\ Write => StoreInv'
<1> SUFFICES ASSUME StoreInv, Write PROVE StoreInv'
  OBVIOUS
<1> USE DEF StoreInv
<1> DEFINE head == Head(queue)
           c == head.by
<1>1. /\ queue \in Seq(Command) /\ queue # <<>> /\ queue' = Tail(queue) /\ up
      /\ UNCHANGED <<capacity, up, crashes, memory, put, expired, overtaken>>
  BY DEF Write, StoreTypeOK
<1>2. /\ Len(queue) \in Nat /\ Len(queue) >= 1 /\ Len(queue') = Len(queue) - 1
      /\ queue' \in Seq(Command)
      /\ \A i \in 1 .. Len(queue') : queue'[i] = queue[i + 1] /\ i + 1 \in 1 .. Len(queue)
      /\ head = queue[1] /\ 1 \in 1 .. Len(queue) /\ head \in Command
  BY <1>1
<1>3. head.kind = "append" => Len(head.records) = 1 /\ head.by = NoCaller
  BY <1>2 DEF Commands
<1>4. PICK result \in Results(head) :
         /\ path' = result.path
         /\ rotated' = result.rotated
         /\ IF Answers(head, result.ok)
            THEN /\ caller' = [caller EXCEPT ![c] = IF result.ok THEN Return(c) ELSE Idle]
                 /\ tombstones' = tombstones \cup Buried(c, result.ok)
                 /\ erased' = IF result.ok THEN erased \cup caller[c].gone ELSE erased
            ELSE UNCHANGED <<caller, tombstones, erased>>
  BY DEF Write
<1>5. /\ result.path \in RecordSeq /\ result.rotated \in RecordSeq /\ result.ok \in BOOLEAN
      /\ Range(result.path) \cup Range(result.rotated)
            \subseteq Range(path) \cup Range(rotated) \cup Range(head.records)
      /\ head.kind = "rewrite" /\ result.ok =>
            result.path = head.records /\ result.rotated = <<>>
  BY <1>2, <1>3, ResultsHold
<1>6. \A q : Queued(q)' => Queued(q)
  BY <1>2 DEF Queued
<1>7. \A q : Filed(q)' => Filed(q) \/ Queued(q)
  BY <1>2, <1>4, <1>5 DEF Filed, Queued
<1>8. Commands' /\ Asleep'
  BY <1>1, <1>2 DEF Commands, Asleep
<1>9. caller \in [Caller -> CallerState] /\ memory \in RecordSeq
  BY DEF StoreTypeOK
<1>10. CASE c = NoCaller
  <2>1. UNCHANGED <<caller, tombstones, erased>>
    BY <1>4, <1>10 DEF Answers
  <2>2. StoreTypeOK'
    BY <1>1, <1>2, <1>4, <1>5, <2>1, StoreAssumption DEF StoreTypeOK
  <2>3. Attended'
    <3>1. \A i \in 1 .. Len(queue') :
             queue'[i].by # NoCaller => caller'[queue'[i].by].phase \in Waiting
      BY <1>2, <2>1 DEF Attended
    <3>2. \A i, j \in 1 .. Len(queue') :
             queue'[i].by = queue'[j].by /\ queue'[i].by # NoCaller => i = j
      <4> SUFFICES ASSUME NEW i \in 1 .. Len(queue'), NEW j \in 1 .. Len(queue'),
                          queue'[i].by = queue'[j].by, queue'[i].by # NoCaller
                   PROVE  i = j
        OBVIOUS
      <4>1. i + 1 = j + 1
        BY <1>2 DEF Attended
      <4> QED
        BY <4>1
    <3>3. \A d \in Caller :
             caller'[d].phase \in Waiting => \E i \in 1 .. Len(queue') : queue'[i].by = d
      <4> SUFFICES ASSUME NEW d \in Caller, caller'[d].phase \in Waiting
                   PROVE  \E i \in 1 .. Len(queue') : queue'[i].by = d
        OBVIOUS
      <4>1. PICK i \in 1 .. Len(queue) : queue[i].by = d
        BY <2>1 DEF Attended
      <4>2. i # 1
        BY <1>2, <1>10, <4>1, StoreAssumption DEF Caller
      <4>3. i - 1 \in 1 .. Len(queue') /\ queue'[i - 1] = queue[i]
        BY <1>2, <4>2
      <4> QED
        BY <4>1, <4>3
    <3> QED
      BY <3>1, <3>2, <3>3 DEF Attended
  <2>4. \A q : Pending(q)' = Pending(q)
    BY <2>1 DEF Pending
  <2>5. \A q : /\ Fading(q)' = Fading(q) /\ Spent(q)' = Spent(q)
               /\ (Nowhere(q) => Nowhere(q)')
    BY <1>1, <1>6, <1>7, <2>4 DEF Fading, Nowhere, Spent
  <2>6. Unwritten'
    BY <1>1, <1>6, <1>7, <2>1, <2>4 DEF Unwritten
  <2>7. Stages' /\ Fades' /\ Erasure' /\ Burial'
    BY <1>1, <2>1, <2>5 DEF Stages, Fades, Erasure, Burial
  <2>8. Rewritten'
    BY <1>1, <1>2, <2>1 DEF Rewritten
  <2> QED
    BY <1>8, <2>2, <2>3, <2>6, <2>7, <2>8
<1>11. CASE c # NoCaller
  <2> DEFINE k == IF result.ok THEN Return(c) ELSE Idle
  <2>1. c \in Caller /\ caller[c].phase \in Waiting /\ caller[c] \in CallerState
    BY <1>2, <1>9, <1>11, QueueTyped DEF Attended
  <2>2. /\ caller' = [caller EXCEPT ![c] = k]
        /\ tombstones' = tombstones \cup Buried(c, result.ok)
        /\ erased' = IF result.ok THEN erased \cup caller[c].gone ELSE erased
    BY <1>4, <1>11 DEF Answers
  <2>3. /\ k \in CallerState /\ k.phase \notin Waiting /\ Doom(k) = {}
        /\ k.found \subseteq Range(memory) /\ k.snapshot = <<>>
        /\ \A mem, exp : Stage(k, mem, exp)
    BY <2>1, IdleShape, Returned DEF Waiting
  <2> HIDE DEF k
  <2>4. caller'[c] = k /\ \A d \in Caller \ {c} : caller'[d] = caller[d]
    BY <1>9, <2>1, <2>2
  <2>5. Buried(c, result.ok) \subseteq caller[c].found
    BY DEF Buried
  <2>6. StoreTypeOK'
    BY <1>1, <1>2, <1>4, <1>5, <1>9, <2>1, <2>2, <2>3, <2>5, StoreAssumption
       DEF StoreTypeOK, CallerState
  <2>7. \A i \in 1 .. Len(queue') : queue'[i].by # c
    <3> SUFFICES ASSUME NEW i \in 1 .. Len(queue'), queue'[i].by = c PROVE FALSE
      OBVIOUS
    <3>1. i + 1 = 1
      BY <1>2, <1>11 DEF Attended
    <3> QED
      BY <3>1
  <2>8. Attended'
    <3>1. \A i \in 1 .. Len(queue') :
             queue'[i].by # NoCaller => caller'[queue'[i].by].phase \in Waiting
      <4> SUFFICES ASSUME NEW i \in 1 .. Len(queue'), queue'[i].by # NoCaller
                   PROVE  caller'[queue'[i].by].phase \in Waiting
        OBVIOUS
      <4>1. queue'[i].by \in Caller \ {c}
        BY <1>2, <2>7, QueueTyped
      <4>2. caller[queue'[i].by].phase \in Waiting
        BY <1>2 DEF Attended
      <4> QED
        BY <2>4, <4>1, <4>2
    <3>2. \A i, j \in 1 .. Len(queue') :
             queue'[i].by = queue'[j].by /\ queue'[i].by # NoCaller => i = j
      <4> SUFFICES ASSUME NEW i \in 1 .. Len(queue'), NEW j \in 1 .. Len(queue'),
                          queue'[i].by = queue'[j].by, queue'[i].by # NoCaller
                   PROVE  i = j
        OBVIOUS
      <4>1. i + 1 = j + 1
        BY <1>2 DEF Attended
      <4> QED
        BY <4>1
    <3>3. \A d \in Caller :
             caller'[d].phase \in Waiting => \E i \in 1 .. Len(queue') : queue'[i].by = d
      <4> SUFFICES ASSUME NEW d \in Caller, caller'[d].phase \in Waiting
                   PROVE  \E i \in 1 .. Len(queue') : queue'[i].by = d
        OBVIOUS
      <4>1. d # c /\ caller[d].phase \in Waiting
        BY <2>3, <2>4
      <4>2. PICK i \in 1 .. Len(queue) : queue[i].by = d
        BY <4>1 DEF Attended
      <4>3. i # 1
        BY <1>2, <4>1, <4>2
      <4>4. i - 1 \in 1 .. Len(queue') /\ queue'[i - 1] = queue[i]
        BY <1>2, <4>3
      <4> QED
        BY <4>2, <4>4
    <3> QED
      BY <3>1, <3>2, <3>3 DEF Attended
  <2>9. \A q : Pending(q)' => Pending(q)
    BY <2>3, <2>4, NothingInEmpty DEF Pending
  <2>10. \A q : /\ (Fading(q) => Fading(q)') /\ Spent(q)' = Spent(q)
                /\ (Nowhere(q) => Nowhere(q)')
    BY <1>1, <1>6, <1>7, <2>9 DEF Fading, Nowhere, Spent
  <2>11. Unwritten'
    BY <1>1, <1>6, <1>7, <2>3, <2>4, <2>9 DEF Unwritten
  <2>12. Stages'
    BY <1>1, <2>3, <2>4 DEF Stages
  <2>13. Fades'
    BY <1>1, <2>3, <2>4, <2>10 DEF Fades
  <2>14. Rewritten'
    <3> SUFFICES ASSUME NEW i \in 1 .. Len(queue'), NEW j \in 1 .. Len(queue'),
                        queue'[i].by # NoCaller, i <= j,
                        NEW q \in Doom(caller'[queue'[i].by]) \ overtaken
                 PROVE  q \notin Range(queue'[j].records)
      BY <1>1 DEF Rewritten
    <3>1. queue'[i].by \in Caller \ {c} /\ queue'[i] = queue[i + 1] /\ queue'[j] = queue[j + 1]
      BY <1>2, <2>7, QueueTyped
    <3>2. i + 1 \in 1 .. Len(queue) /\ j + 1 \in 1 .. Len(queue) /\ i + 1 <= j + 1
      BY <1>2
    <3>3. q \in Doom(caller[queue[i + 1].by]) \ overtaken
      BY <2>4, <3>1
    <3> QED
      BY <3>1, <3>2, <3>3 DEF Rewritten
  <2>15. ASSUME result.ok PROVE \A q \in Doom(caller[c]) \ overtaken : Nowhere(q)'
    <3> SUFFICES ASSUME NEW q \in Doom(caller[c]) \ overtaken PROVE Nowhere(q)'
      OBVIOUS
    <3>1. Fading(q)'
      BY <2>1, <2>10 DEF Fades
    <3>2. \A j \in 1 .. Len(queue) : q \notin Range(queue[j].records)
      BY <1>2, <1>11 DEF Rewritten
    <3>3. ~Queued(q)'
      BY <1>2, <3>2 DEF Queued
    <3>4. head.kind = "rewrite"
      BY <1>2, <1>3, <1>11, QueueTyped
    <3>5. path' = head.records /\ rotated' = <<>>
      BY <1>4, <1>5, <2>15, <3>4
    <3>6. ~Filed(q)'
      BY <1>2, <3>2, <3>5, NothingInEmpty DEF Filed
    <3> QED
      BY <3>1, <3>3, <3>6 DEF Nowhere
  <2>16. Erasure'
    <3>1. \A q \in erased' \ erased : result.ok /\ q \in Doom(caller[c])
      BY <2>2 DEF Doom
    <3> QED
      BY <1>1, <2>10, <2>15, <3>1 DEF Erasure
  <2>17. Burial'
    <3>1. Stage(caller[c], Range(memory), expired)
      BY <2>1 DEF Stages
    <3>2. ASSUME NEW q \in Buried(c, result.ok), q \notin overtaken
          PROVE  Nowhere(q)' \/ Spent(q)
      <4>1. result.ok /\ q \in caller[c].found
        BY <3>2 DEF Buried
      <4>2. CASE caller[c].op = "sweep"
        <5>1. caller[c].phase = "prune_wait"
          BY <2>1, <3>1, <4>2 DEF Stage, Waiting
        <5> QED
          BY <3>1, <4>1, <4>2, <5>1 DEF Stage, Spent
      <4>3. CASE caller[c].op # "sweep"
        <5>1. ~Pruning(c)
          BY <3>2, <4>3 DEF Buried
        <5>2. caller[c].phase = "erase_wait"
          BY <2>1, <5>1 DEF Pruning, Waiting
        <5>3. q \in Doom(caller[c]) \ overtaken
          BY <3>2, <4>1, <5>2 DEF Doom
        <5> QED
          BY <2>15, <4>1, <5>3
      <4> QED
        BY <4>2, <4>3
    <3> QED
      BY <1>1, <2>2, <2>10, <3>2 DEF Burial
  <2> QED
    BY <1>8, <2>6, <2>8, <2>11, <2>12, <2>13, <2>14, <2>16, <2>17
<1> QED
  BY <1>10, <1>11

\* A caller that goes away leaves its rewrite in the queue, with nobody to answer.
LEMMA CancelKeeps ==
    ASSUME StoreInv, NEW c \in Caller, Cancel(c)
    PROVE  StoreInv'
<1> USE DEF StoreInv, Cancel, files, history
<1>1. /\ caller \in [Caller -> CallerState] /\ queue \in Seq(Command)
      /\ caller[c].phase # "idle"
  BY DEF StoreTypeOK
<1>2. caller'[c] = Idle /\ \A d \in Caller \ {c} : caller'[d] = caller[d]
  BY <1>1
<1>3. up
  BY <1>1, IdleShape DEF Asleep
<1>4. /\ Len(queue') = Len(queue) /\ Len(queue) \in Nat /\ queue' \in Seq(Command)
      /\ \A i \in 1 .. Len(queue) :
            /\ queue'[i].records = queue[i].records /\ queue'[i].kind = queue[i].kind
            /\ queue'[i].by = IF queue[i].by = c THEN NoCaller ELSE queue[i].by
  <2> DEFINE e(i) == IF queue[i].by = c THEN [queue[i] EXCEPT !.by = NoCaller] ELSE queue[i]
  <2>1. queue' = [i \in 1 .. Len(queue) |-> e(i)]
    BY <1>1
  <2>2. \A i \in 1 .. Len(queue) :
           /\ e(i) \in Command
           /\ e(i).records = queue[i].records /\ e(i).kind = queue[i].kind
           /\ e(i).by = IF queue[i].by = c THEN NoCaller ELSE queue[i].by
    <3> SUFFICES ASSUME NEW i \in 1 .. Len(queue)
                 PROVE  /\ e(i) \in Command
                        /\ e(i).records = queue[i].records /\ e(i).kind = queue[i].kind
                        /\ e(i).by = IF queue[i].by = c THEN NoCaller ELSE queue[i].by
      OBVIOUS
    <3>1. queue[i] \in Command
      BY <1>1
    <3> QED
      BY <3>1 DEF Command
  <2> HIDE DEF e
  <2> QED
    BY <1>1, <2>1, <2>2
<1>5. StoreTypeOK'
  BY <1>1, <1>4, IdleShape DEF StoreTypeOK
<1>6. Commands' /\ Asleep'
  BY <1>3, <1>4 DEF Commands, Asleep
<1>7. \A q : Queued(q)' = Queued(q) /\ Filed(q)' = Filed(q)
  BY <1>4 DEF Queued, Filed
<1>8. \A q : Pending(q)' => Pending(q)
  BY <1>2, IdleShape, NothingInEmpty DEF Pending
<1>9. \A q : /\ (Fading(q) => Fading(q)') /\ Spent(q)' = Spent(q)
             /\ (Nowhere(q) => Nowhere(q)')
  BY <1>7, <1>8 DEF Fading, Nowhere, Spent
<1>10. Attended'
  <2>1. \A i \in 1 .. Len(queue') :
           queue'[i].by # NoCaller => caller'[queue'[i].by].phase \in Waiting
    <3> SUFFICES ASSUME NEW i \in 1 .. Len(queue'), queue'[i].by # NoCaller
                 PROVE  caller'[queue'[i].by].phase \in Waiting
      OBVIOUS
    <3>1. queue'[i].by = queue[i].by /\ queue[i].by \in Caller \ {c}
      BY <1>4, QueueTyped
    <3>2. caller[queue[i].by].phase \in Waiting
      BY <1>4, <3>1 DEF Attended
    <3> QED
      BY <1>2, <3>1, <3>2
  <2>2. \A i, j \in 1 .. Len(queue') :
           queue'[i].by = queue'[j].by /\ queue'[i].by # NoCaller => i = j
    BY <1>4 DEF Attended
  <2>3. \A d \in Caller :
           caller'[d].phase \in Waiting => \E i \in 1 .. Len(queue') : queue'[i].by = d
    <3> SUFFICES ASSUME NEW d \in Caller, caller'[d].phase \in Waiting
                 PROVE  \E i \in 1 .. Len(queue') : queue'[i].by = d
      OBVIOUS
    <3>1. d # c /\ caller[d].phase \in Waiting
      BY <1>2, IdleShape DEF Waiting
    <3> QED
      BY <1>4, <3>1 DEF Attended
  <2> QED
    BY <2>1, <2>2, <2>3 DEF Attended
<1>11. Unwritten'
  BY <1>2, <1>7, <1>8, IdleShape DEF Unwritten
<1>12. Stages' /\ Fades'
  BY <1>2, <1>9, IdleShape DEF Stages, Fades
<1>13. Rewritten'
  <2> SUFFICES ASSUME NEW i \in 1 .. Len(queue'), NEW j \in 1 .. Len(queue'),
                      queue'[i].by # NoCaller, i <= j,
                      NEW q \in Doom(caller'[queue'[i].by]) \ overtaken
               PROVE  q \notin Range(queue'[j].records)
    BY DEF Rewritten
  <2>1. queue'[i].by = queue[i].by /\ queue[i].by \in Caller \ {c}
    BY <1>4, QueueTyped
  <2>2. q \in Doom(caller[queue[i].by]) \ overtaken
    BY <1>2, <2>1
  <2>3. i \in 1 .. Len(queue) /\ j \in 1 .. Len(queue)
    BY <1>4
  <2> QED
    BY <1>4, <2>1, <2>2, <2>3 DEF Rewritten
<1>14. Erasure' /\ Burial'
  BY <1>9 DEF Erasure, Burial
<1> QED
  BY <1>5, <1>6, <1>10, <1>11, <1>12, <1>13, <1>14

\* A crash takes memory, queue and callers at once, and may leave a half done write.
LEMMA CrashKeeps == StoreInv /\ Crash => StoreInv'
<1> SUFFICES ASSUME StoreInv, Crash PROVE StoreInv'
  OBVIOUS
<1> USE DEF StoreInv, history, files
<1>1. /\ memory' = <<>> /\ queue' = <<>> /\ up' = FALSE
      /\ caller' = [c \in Caller |-> Idle]
      /\ put' = [r \in Record |-> IF put[r] = "pushed" THEN "done" ELSE put[r]]
      /\ crashes < MaxCrashes /\ crashes' = crashes + 1
      /\ UNCHANGED <<capacity, expired, tombstones, erased, overtaken>>
  BY DEF Crash
<1>2. /\ path' \in RecordSeq /\ rotated' \in RecordSeq
      /\ \A q : Filed(q)' => Filed(q) \/ Queued(q)
  <2>1. CASE UNCHANGED files
    BY <2>1 DEF StoreTypeOK, Filed
  <2>2. CASE queue # <<>> /\ \E result \in Results(Head(queue)) :
                                path' = result.path /\ rotated' = result.rotated
    <3>1. PICK result \in Results(Head(queue)) : path' = result.path /\ rotated' = result.rotated
      BY <2>2
    <3>2. 1 \in 1 .. Len(queue) /\ Head(queue) = queue[1] /\ Head(queue) \in Command
      BY <2>2 DEF StoreTypeOK
    <3>3. Head(queue).kind = "append" => Len(Head(queue).records) = 1
      BY <3>2 DEF Commands
    <3>4. /\ result.path \in RecordSeq /\ result.rotated \in RecordSeq
          /\ Range(result.path) \cup Range(result.rotated)
                \subseteq Range(path) \cup Range(rotated) \cup Range(Head(queue).records)
      BY <3>2, <3>3, ResultsHold
    <3> QED
      BY <3>1, <3>2, <3>4 DEF Filed, Queued
  <2> QED
    BY <2>1, <2>2 DEF Crash
<1>3. put \in [Record -> {"new", "pushed", "done"}] /\ crashes \in 0 .. MaxCrashes
  BY DEF StoreTypeOK
<1>4. \A r \in Record : /\ put'[r] # "pushed"
                        /\ put'[r] = "new" => put[r] = "new"
                        /\ put[r] = "done" => put'[r] = "done"
  BY <1>1, <1>3
<1>5. Len(queue') = 0 /\ \A d \in Caller : caller'[d] = Idle
  BY <1>1
<1>6. StoreTypeOK'
  <2>1. caller' \in [Caller -> CallerState]
    BY <1>1, IdleShape
  <2>2. put' \in [Record -> {"new", "pushed", "done"}]
    BY <1>1, <1>3
  <2>3. crashes' \in 0 .. MaxCrashes
    BY <1>1, <1>3, StoreAssumption
  <2>4. memory' \in RecordSeq /\ Len(memory') <= capacity
    BY <1>1, NothingInEmpty, StoreAssumption DEF StoreTypeOK
  <2>5. queue' \in Seq(Command) /\ Len(queue') <= QueueCapacity
    BY <1>1, StoreAssumption
  <2> QED
    BY <1>1, <1>2, <2>1, <2>2, <2>3, <2>4, <2>5 DEF StoreTypeOK
<1>7. Commands' /\ Attended' /\ Asleep'
  BY <1>1, <1>4, <1>5, IdleShape DEF Commands, Attended, Asleep, Waiting
<1>8. \A q : ~Queued(q)' /\ ~Pending(q)' /\ q \notin Range(memory')
  BY <1>1, <1>5, IdleShape, NothingInEmpty DEF Queued, Pending
<1>9. Unwritten'
  BY <1>1, <1>2, <1>4, <1>5, <1>8, IdleShape DEF Unwritten
<1>10. Stages' /\ Fades' /\ Rewritten'
  BY <1>5, IdleShape DEF Stages, Fades, Rewritten
<1>11. \A q \in Record : /\ (Nowhere(q) => Nowhere(q)')
                         /\ (Spent(q) => Spent(q)')
  BY <1>1, <1>2, <1>4, <1>8 DEF Nowhere, Fading, Spent
<1>12. Erasure' /\ Burial'
  BY <1>1, <1>11 DEF Erasure, Burial, StoreTypeOK
<1> QED
  BY <1>6, <1>7, <1>9, <1>10, <1>12

\* What open makes of the file is in memory without what has expired.
LEMMA OpenReads ==
    ASSUME StoreInv, Open
    PROVE  /\ memory' \in RecordSeq /\ Len(memory') <= capacity
           /\ Range(memory') \subseteq Range(path) \ expired
           /\ path' \in RecordSeq /\ rotated' \in RecordSeq
           /\ Range(path') \cup Range(rotated') \subseteq Range(path) \cup Range(rotated)
           /\ up' \in BOOLEAN /\ (~up' => memory' = <<>>)
<1> USE DEF StoreInv, files
<1>1. path \in RecordSeq /\ rotated \in RecordSeq /\ StoreTypeOK
  BY DEF StoreTypeOK
<1>2. /\ Replayed \in RecordSeq /\ Len(Replayed) <= capacity
      /\ Range(Replayed) \subseteq Range(path) \ expired
  BY <1>1, KeepLeaves, NewestLeaves DEF Replayed
<1>3. <<>> \in RecordSeq /\ Len(<<>>) <= capacity /\ Range(<<>>) = {}
  BY NothingInEmpty, StoreAssumption DEF StoreTypeOK
<1>4. CASE Range(path) \cap expired = {}
  BY <1>1, <1>2, <1>4 DEF Open
<1>5. CASE Range(path) \cap expired # {}
  <2>1. PICK result \in Rewrites(Replayed) :
           /\ path' = result.path /\ rotated' = result.rotated /\ up' = result.ok
           /\ memory' = IF result.ok THEN Replayed ELSE <<>>
    BY <1>5 DEF Open
  <2>2. /\ result.path \in {path, Replayed} /\ result.rotated \in {rotated, <<>>}
        /\ result.ok \in BOOLEAN
    <3>1. \/ result = [path |-> path, rotated |-> rotated, ok |-> FALSE]
          \/ result = [path |-> Replayed, rotated |-> rotated, ok |-> FALSE]
          \/ result = [path |-> Replayed, rotated |-> <<>>, ok |-> TRUE]
      BY DEF Rewrites, Disk
    <3>2. CASE result = [path |-> path, rotated |-> rotated, ok |-> FALSE]
      BY <3>2
    <3>3. CASE result = [path |-> Replayed, rotated |-> rotated, ok |-> FALSE]
      BY <3>3
    <3>4. CASE result = [path |-> Replayed, rotated |-> <<>>, ok |-> TRUE]
      BY <3>4
    <3> QED
      BY <3>1, <3>2, <3>3, <3>4
  <2> QED
    BY <1>1, <1>2, <1>3, <2>1, <2>2
<1> QED
  BY <1>4, <1>5

\* RecordStore::open.
LEMMA OpenKeeps == StoreInv /\ Open => StoreInv'
<1> SUFFICES ASSUME StoreInv, Open PROVE StoreInv'
  OBVIOUS
<1> USE DEF StoreInv
<1>1. /\ ~up /\ UNCHANGED <<capacity, crashes, queue, put, expired, tombstones, caller, erased, overtaken>>
  BY DEF Open, history
<1>2. /\ memory' \in RecordSeq /\ Len(memory') <= capacity
      /\ Range(memory') \subseteq Range(path) \ expired
      /\ path' \in RecordSeq /\ rotated' \in RecordSeq
      /\ Range(path') \cup Range(rotated') \subseteq Range(path) \cup Range(rotated)
      /\ up' \in BOOLEAN /\ (~up' => memory' = <<>>)
  BY OpenReads
<1>3. queue = <<>> /\ memory = <<>> /\ \A c \in Caller : caller[c] = Idle
  BY <1>1 DEF Asleep
<1>4. StoreTypeOK' /\ Commands' /\ Attended' /\ Asleep'
  BY <1>1, <1>2 DEF StoreTypeOK, Commands, Attended, Asleep
<1>5. \A q : /\ Queued(q)' = Queued(q) /\ Pending(q)' = Pending(q)
             /\ (Filed(q)' => Filed(q)) /\ (q \in Range(memory') => Filed(q) /\ q \notin expired)
  BY <1>1, <1>2 DEF Queued, Pending, Filed
<1>6. Unwritten'
  BY <1>1, <1>5 DEF Unwritten
<1>7. Stages' /\ Fades' /\ Rewritten'
  BY <1>1, <1>3, IdleShape DEF Stages, Fades, Rewritten
<1>8. \A q : /\ (Nowhere(q) => Nowhere(q)') /\ (Spent(q) => Spent(q)')
  BY <1>1, <1>5 DEF Nowhere, Fading, Spent
<1>9. Erasure' /\ Burial'
  BY <1>1, <1>8 DEF Erasure, Burial
<1> QED
  BY <1>4, <1>6, <1>7, <1>9

\* Every step keeps the invariant.
LEMMA StoreInductive == StoreInv /\ [StoreNext]_storeVars => StoreInv'
<1> SUFFICES ASSUME StoreInv, [StoreNext]_storeVars PROVE StoreInv'
  OBVIOUS
<1>1. ASSUME NEW r \in Record, Push(r) \/ Enqueue(r) \/ ExpireRecord(r) PROVE StoreInv'
  BY <1>1, PushKeeps, EnqueueKeeps, ExpireKeeps
<1>2. ASSUME NEW c \in Caller, Retain(c) \/ SendRewrite(c) PROVE StoreInv'
  BY <1>2, RetainKeeps, SendKeeps
<1>3. ASSUME NEW c \in Handler, Begin(c, "read", {}) \/ Cancel(c) PROVE StoreInv'
  BY <1>3, BeginKeeps, CancelKeeps DEF Caller, Op
<1>4. ASSUME NEW c \in Handler, NEW targets \in (SUBSET Record) \ {{}}, Begin(c, "delete", targets)
      PROVE  StoreInv'
  BY <1>4, BeginKeeps DEF Caller, Op
<1>5. CASE Begin(Sweeper, "sweep", {})
  BY <1>5, BeginKeeps DEF Caller, Op
<1>6. CASE Write \/ Crash \/ Open
  BY <1>6, WriteKeeps, CrashKeeps, OpenKeeps
<1>7. CASE UNCHANGED storeVars
  <2> USE <1>7 DEF storeVars, StoreInv
  <2>1. StoreTypeOK' /\ Commands' /\ Attended' /\ Asleep'
    BY DEF StoreTypeOK, Commands, Attended, Asleep
  <2>2. \A q : /\ Queued(q)' = Queued(q) /\ Pending(q)' = Pending(q) /\ Filed(q)' = Filed(q)
               /\ Fading(q)' = Fading(q) /\ Nowhere(q)' = Nowhere(q) /\ Spent(q)' = Spent(q)
    BY DEF Queued, Pending, Filed, Fading, Nowhere, Spent
  <2> QED
    BY <2>1, <2>2 DEF Unwritten, Stages, Fades, Rewritten, Erasure, Burial
<1> QED
  BY <1>1, <1>2, <1>3, <1>4, <1>5, <1>6, <1>7 DEF StoreNext

\* So it always holds.
LEMMA StoreInvariance == StoreSpec => []StoreInv
BY StoreInitial, StoreInductive, PTL DEF StoreSpec

\* Every variable of the record store has its type; the deque never holds more than the
\* capacity and the writer's queue no more than its own (RecordStore, record_writer).
THEOREM StoreTypeCorrect == StoreSpec => []StoreTypeOK
<1>1. StoreInv => StoreTypeOK
  BY DEF StoreInv
<1> QED
  BY <1>1, StoreInvariance, PTL

\* A record whose deletion or pruning succeeded is nowhere: not in memory, the queue, the
\* file or its rotated copy, through any crash and restart, unless an older write of it
\* was still to reach the queue (delete_matching, rewrite_records).
THEOREM ErasedForGood == StoreSpec => []ErasedIsNowhere
<1>1. StoreInv => ErasedIsNowhere
  <2> SUFFICES ASSUME StoreInv, NEW r \in erased \ overtaken
               PROVE  r \notin Stored
    BY DEF ErasedIsNowhere
  <2>1. Nowhere(r)
    BY DEF StoreInv, Erasure
  <2>2. r \notin UNION {Range(queue[i].records) : i \in DOMAIN queue}
    BY <2>1 DEF Nowhere, Queued, StoreInv, StoreTypeOK
  <2> QED
    BY <2>1, <2>2 DEF Nowhere, Fading, Filed, Stored
<1> QED
  BY <1>1, StoreInvariance, PTL

\* A record that can be read still has its vector, whatever prune, sweep or rewrite failed
\* or crashed before (sweep_expired_records, delete_task_records, open).
THEOREM VectorsStay == StoreSpec => []VectorsOutliveRecords
<1>1. StoreInv => VectorsOutliveRecords
  BY DEF StoreInv, Burial, Nowhere, Fading, Spent, VectorsOutliveRecords
<1> QED
  BY <1>1, StoreInvariance, PTL

\* No step brings back to memory what has expired and is not there.
LEMMA ExpiredStays ==
    ASSUME StoreInv, [StoreNext]_storeVars, NEW r \in expired, r \notin Range(memory)
    PROVE  r \notin Range(memory')
<1> USE DEF StoreInv
<1>1. memory \in RecordSeq /\ r \in Record
  BY DEF StoreTypeOK
<1>2. ASSUME NEW q \in Record, Push(q) PROVE r \notin Range(memory')
  <2>1. q # r
    BY <1>2 DEF Unwritten, Push
  <2>2. Range(memory') \subseteq Range(memory) \cup {q}
    BY <1>1, <1>2, AppendHolds, NewestLeaves DEF Push
  <2> QED
    BY <2>1, <2>2
<1>3. ASSUME NEW c \in Caller, Retain(c) PROVE r \notin Range(memory')
  BY <1>1, <1>3, KeepLeaves DEF Retain
<1>4. CASE Open
  BY <1>4, OpenReads
<1>5. CASE Crash
  BY <1>5, NothingInEmpty DEF Crash
<1>6. CASE memory' = memory
  BY <1>6
<1> QED
  BY <1>2, <1>3, <1>4, <1>5, <1>6
     DEF StoreNext, storeVars, store, Enqueue, ExpireRecord, SendRewrite, Begin, Cancel, Write

\* An expired record that cannot be read any more never becomes readable again, not by a
\* restart that replays the file either (RecordStore::open, prune).
THEOREM ExpiredForGood == StoreSpec => ExpiredNeverReturns
<1>1. StoreInv /\ [StoreNext]_storeVars
         => [\A r \in expired : r \notin Range(memory) => r \notin Range(memory')]_storeVars
  BY ExpiredStays
<1> QED
  BY <1>1, StoreInvariance, PTL DEF StoreSpec, ExpiredNeverReturns

\* A caller waits for the answer of the writer exactly while one rewrite of its own is in
\* the queue: no deletion hangs or is answered with another's outcome (delete_matching).
THEOREM WaitersAttended == StoreSpec => []WaitingIsQueued
<1>1. StoreInv => WaitingIsQueued
  <2> SUFFICES ASSUME StoreInv, NEW c \in Caller
               PROVE  Cardinality({i \in DOMAIN queue : queue[i].by = c})
                         = IF caller[c].phase \in Waiting THEN 1 ELSE 0
    BY DEF WaitingIsQueued
  <2> DEFINE of == {i \in DOMAIN queue : queue[i].by = c}
  <2>1. DOMAIN queue = 1 .. Len(queue) /\ c # NoCaller
    BY StoreAssumption DEF StoreInv, StoreTypeOK, Caller
  <2>2. CASE caller[c].phase \in Waiting
    <3>1. PICK i \in of : TRUE
      BY <2>1, <2>2 DEF StoreInv, Attended
    <3>2. of = {i}
      BY <2>1, <3>1 DEF StoreInv, Attended
    <3> QED
      BY <2>2, <3>2, FS_Singleton
  <2>3. CASE caller[c].phase \notin Waiting
    <3>1. of = {}
      BY <2>1, <2>3 DEF StoreInv, Attended
    <3> QED
      BY <2>3, <3>1, FS_EmptySet
  <2> QED
    BY <2>2, <2>3
<1> QED
  BY <1>1, StoreInvariance, PTL
=============================================================================
