----------------------------- MODULE BudgetProofs -----------------------------
(***************************************************************************)
(* The hard budget, for any calls, keys, bodies, limits and costs, on both  *)
(* repositories: the total that a tenant is admitted against is the sum of  *)
(* the entries of its period (Balanced), no period is charged more than the *)
(* limit (NeverOverCharged), and a call that alone bears its request id     *)
(* stays charged until it is settled or given back (StaysCharged).          *)
(***************************************************************************)
EXTENDS Budget, FiniteSetTheorems, TLAPS

-----------------------------------------------------------------------------
(* Sums of entries.                                                          *)

\* What an entry adds to the total: an entry below zero is none.
Worth(n) == IF n > 0 THEN n ELSE 0

\* The units of one entry.
LEMMA UnitsOfOne ==
    ASSUME NEW k, NEW n \in Int
    PROVE  IsFiniteSet({k} \X (1 .. n)) /\ Cardinality({k} \X (1 .. n)) = Worth(n)
<1>1. /\ IsFiniteSet(1 .. n) /\ Cardinality(1 .. n) \in Nat
      /\ n >= 0 => Cardinality(1 .. n) = n
      /\ n <= 0 => Cardinality(1 .. n) = 0
  BY FS_Interval
<1>2. IsFiniteSet({k}) /\ Cardinality({k}) = 1
  BY FS_Singleton
<1>3. /\ IsFiniteSet({k} \X (1 .. n))
      /\ Cardinality({k} \X (1 .. n)) = 1 * Cardinality(1 .. n)
  BY <1>1, <1>2, FS_Product
<1>4. QED BY <1>1, <1>3 DEF Worth

\* An entry that is set takes the place of what was there.
LEMMA EntrySet ==
    ASSUME NEW S, NEW f \in [S -> Int], IsFiniteSet(Units(f)), NEW x \in S, NEW v \in Int,
           NEW g \in [S -> Int], g[x] = v, \A k \in S : k # x => g[k] = f[k]
    PROVE  /\ IsFiniteSet(Units(g))
           /\ TotalOf(f) \in Nat /\ TotalOf(g) \in Nat
           /\ Worth(f[x]) <= TotalOf(f)
           /\ TotalOf(g) = TotalOf(f) - Worth(f[x]) + Worth(v)
<1> DEFINE old == {x} \X (1 .. f[x])
           new == {x} \X (1 .. v)
           rest == {u \in Units(f) : u[1] # x}
<1>1. /\ g \in [S -> Int] /\ g[x] = v
      /\ \A k \in S : k # x => g[k] = f[k]
  OBVIOUS
<1>2. /\ IsFiniteSet(old) /\ Cardinality(old) = Worth(f[x])
      /\ IsFiniteSet(new) /\ Cardinality(new) = Worth(v)
      /\ IsFiniteSet(rest)
  BY UnitsOfOne, FS_Subset
<1>3. Units(f) = rest \cup old /\ rest \cap old = {}
  BY DEF Units
<1>4. Units(g) = rest \cup new /\ rest \cap new = {}
  <2>1. \A u \in Units(g) : u \in rest \cup new
    <3>1. ASSUME NEW u \in Units(g)
          PROVE  u \in rest \cup new
      <4>1. PICK k \in S : u \in {k} \X (1 .. g[k])
        BY <1>1 DEF Units
      <4>2. CASE k = x
        BY <1>1, <4>1, <4>2
      <4>3. CASE k # x
        <5>1. u \in {k} \X (1 .. f[k])
          BY <1>1, <4>1, <4>3
        <5>2. u \in Units(f) /\ u[1] # x
          BY <4>3, <5>1 DEF Units
        <5>3. QED BY <5>2
      <4>4. QED BY <4>2, <4>3
    <3>2. QED BY <3>1
  <2>2. \A u \in new : u \in Units(g)
    BY <1>1 DEF Units
  <2>3. \A u \in rest : u \in Units(g)
    <3>1. ASSUME NEW u \in rest
          PROVE  u \in Units(g)
      <4>1. PICK k \in S : u \in {k} \X (1 .. f[k])
        BY DEF Units
      <4>2. k # x
        BY <4>1
      <4>3. u \in {k} \X (1 .. g[k])
        BY <1>1, <4>1, <4>2
      <4>4. QED BY <1>1, <4>3 DEF Units
    <3>2. QED BY <3>1
  <2>4. rest \cap new = {}
    OBVIOUS
  <2>5. QED BY <2>1, <2>2, <2>3, <2>4
<1> HIDE DEF old, new, rest
<1>5. Cardinality(rest) \in Nat /\ Cardinality({}) = 0
  BY <1>2, FS_CardinalityType, FS_EmptySet
<1>6. Cardinality(rest \cup old) = Cardinality(rest) + Cardinality(old) - Cardinality(rest \cap old)
  BY <1>2, FS_Union
<1>7. Cardinality(rest \cup new) = Cardinality(rest) + Cardinality(new) - Cardinality(rest \cap new)
  BY <1>2, FS_Union
<1>8. IsFiniteSet(rest \cup new)
  BY <1>2, FS_Union
<1>9. Worth(f[x]) \in Nat /\ Worth(v) \in Nat
  BY DEF Worth
<1> DEFINE r == Cardinality(rest)
           a == Worth(f[x])
           b == Worth(v)
<1>10. r \in Nat /\ a \in Nat /\ b \in Nat
  BY <1>5, <1>9
<1>11. Cardinality(rest \cup old) = r + a - 0 /\ Cardinality(rest \cup new) = r + b - 0
  BY <1>2, <1>3, <1>4, <1>5, <1>6, <1>7
<1>12. TotalOf(f) = Cardinality(rest \cup old) /\ TotalOf(g) = Cardinality(rest \cup new)
  BY <1>3, <1>4, Zenon DEF TotalOf
<1>13. IsFiniteSet(Units(g))
  BY <1>4, <1>8
<1> HIDE DEF r, a, b
<1>14. /\ TotalOf(f) \in Nat /\ TotalOf(g) \in Nat
       /\ a <= TotalOf(f)
       /\ TotalOf(g) = TotalOf(f) - a + b
  BY <1>10, <1>11, <1>12
<1>15. QED BY <1>13, <1>14 DEF a, b

\* A set with at most one member.
LEMMA OneAtMost ==
    ASSUME NEW S, IsFiniteSet(S), Cardinality(S) <= 1, NEW c \in S, NEW d \in S
    PROVE  c = d
<1> SUFFICES ASSUME c # d
             PROVE  FALSE
  OBVIOUS
<1>1. IsFiniteSet({c}) /\ Cardinality({c}) = 1
  BY FS_Singleton
<1>2. IsFiniteSet({c} \cup {d}) /\ Cardinality({c} \cup {d}) = Cardinality({c}) + 1
  BY <1>1, FS_AddElement
<1>3. {c} \cup {d} \subseteq S
  OBVIOUS
<1>4. Cardinality({c} \cup {d}) <= Cardinality(S)
  BY <1>3, FS_Subset
<1>5. Cardinality(S) \in Nat
  BY FS_CardinalityType
<1>6. QED BY <1>1, <1>2, <1>4, <1>5

\* No call is billed more than its plan was estimated at.
LEMMA WithinEstimate ==
    ASSUME NEW attempts \in 1 .. MaxAttempts, NEW cost \in FinalCosts
    PROVE  /\ Estimate \in Nat
           /\ cost + Cost * (attempts - 1) \in Nat
           /\ cost + Cost * (attempts - 1) <= Estimate
<1>1. Cost \in Nat /\ MaxAttempts \in Nat \ {0} /\ cost \in 0 .. Cost
  BY ConstantsAssumption
<1> DEFINE n == attempts - 1
           m == MaxAttempts - attempts
<1>2. n \in Nat /\ m \in Nat /\ MaxAttempts = n + 1 + m
  BY <1>1
<1>3. Cost * n \in Nat /\ Cost * m \in Nat
  BY <1>1, <1>2
<1>4. Cost * MaxAttempts = Cost * n + Cost + Cost * m
  BY <1>1, <1>2
<1>5. QED BY <1>1, <1>3, <1>4 DEF Estimate

-----------------------------------------------------------------------------
(* The inductive invariant.                                                  *)

\* Finitely many calls have been granted, so that those of an id can be counted.
FewGranted == IsFiniteSet({c \in Call : Granted(c)})

FewUnits == \A p \in Period : IsFiniteSet(Units(ledger[p].entry))

Identified ==
    \A c \in Call : Granted(c) \/ call[c].phase = "identified" => call[c].id \in Call

\* An entry is that of some call that was granted.
Backed == \A p \in Period, id \in Call : Holds(ledger[p], id) => Holders(p, id) # {}

\* A call that is not yet over and shares its request id with none holds its entry, as
\* long as Redis keeps it, and the entry is what was reserved.
Charged(c) ==
    \A p \in Period, id \in Call :
       (/\ call[c].phase = "executing" /\ call[c].id = id /\ call[c].period = p
        /\ limit > 0 /\ Alone(p, id)) =>
           /\ Live(p) => Holds(ledger[p], id)
           /\ Holds(ledger[p], id) => ledger[p].entry[id] = Estimate

LoneCharged == \A c \in Call : Charged(c)

IInv ==
    /\ TypeOK /\ FewGranted /\ FewUnits /\ Identified
    /\ Backed /\ LoneCharged
    /\ LedgerBalanced /\ HardBudget

\* What is granted stays granted, for its id and its period.
GrantsStay ==
    \A d \in Call : Granted(d) =>
       Granted(d)' /\ call'[d].id = call[d].id /\ call'[d].period = call[d].period

\* A call alone with its id was alone before.
LEMMA HoldersGrow ==
    ASSUME GrantsStay, FewGranted', NEW p, NEW id
    PROVE  /\ Holders(p, id) \subseteq Holders(p, id)'
           /\ IsFiniteSet(Holders(p, id)')
           /\ Alone(p, id)' => Alone(p, id)
<1>1. Holders(p, id) \subseteq Holders(p, id)'
  BY DEF Holders, GrantsStay
<1>2. IsFiniteSet(Holders(p, id)')
  <2>1. Holders(p, id)' \subseteq {c \in Call : Granted(c)}'
    BY DEF Holders
  <2>2. QED BY <2>1, FS_Subset DEF FewGranted
<1>3. Cardinality(Holders(p, id)) <= Cardinality(Holders(p, id)')
      /\ Cardinality(Holders(p, id)') \in Nat /\ IsFiniteSet(Holders(p, id))
  BY <1>1, <1>2, FS_Subset, FS_CardinalityType
<1>4. Cardinality(Holders(p, id)) \in Nat
  BY <1>3, FS_CardinalityType
<1>5. QED BY <1>1, <1>2, <1>3, <1>4 DEF Alone

\* A step that sets one entry, and the total of its period.
Set(l, id, w, v) == [total |-> w, entry |-> [l.entry EXCEPT ![id] = v]]

SetsEntry(p, id, w, v) == ledger' = [ledger EXCEPT ![p] = Set(@, id, w, v)]

\* What a step that leaves the ledger alone, or sets one entry, keeps of the sums.
LEMMA SameLedger ==
    ASSUME IInv, GrantsStay, FewGranted', UNCHANGED <<backend, limit, ledger>>
    PROVE  FewUnits' /\ LedgerBalanced' /\ HardBudget'
<1>1. ASSUME NEW p \in Period, \A id \in Call : Alone(p, id)'
      PROVE  \A id \in Call : Alone(p, id)
  BY <1>1, HoldersGrow
<1>2. FewUnits'
  BY DEF IInv, FewUnits
<1>3. LedgerBalanced'
  BY <1>1 DEF IInv, LedgerBalanced
<1>4. HardBudget'
  BY <1>1 DEF IInv, HardBudget
<1>5. QED BY <1>2, <1>3, <1>4

\* A step that sets an entry, and the total with it.
LEMMA EntryStep ==
    ASSUME IInv, GrantsStay, FewGranted', UNCHANGED <<backend, limit>>,
           NEW p \in Period, NEW id \in Call, NEW w \in Nat, NEW v \in Nat \cup {-1},
           SetsEntry(p, id, w, v),
           (backend = "redis" \/ \A i \in Call : Alone(p, i)) =>
               w = ledger[p].total - Worth(ledger[p].entry[id]) + Worth(v),
           limit > 0 /\ (\A i \in Call : Alone(p, i)) => w <= limit
    PROVE  /\ ledger' \in [Period -> Ledger]
           /\ FewUnits' /\ LedgerBalanced' /\ HardBudget'
           /\ ledger'[p].entry[id] = v
           /\ \A q \in Period, i \in Call :
                 q # p \/ i # id => ledger'[q].entry[i] = ledger[q].entry[i]
<1> DEFINE f == ledger[p].entry
           g == [f EXCEPT ![id] = v]
<1>1. ledger \in [Period -> Ledger] /\ f \in [Call -> Nat \cup {-1}] /\ IsFiniteSet(Units(f))
  BY DEF IInv, TypeOK, Ledger, FewUnits
<1>2. g \in [Call -> Nat \cup {-1}] /\ g[id] = v /\ \A i \in Call : i # id => g[i] = f[i]
  BY <1>1
<1>3. f \in [Call -> Int] /\ v \in Int
  BY <1>1
<1>a. g \in [Call -> Int]
  BY <1>2
<1> HIDE DEF f, g
<1>4. /\ IsFiniteSet(Units(g))
      /\ TotalOf(f) \in Nat /\ TotalOf(g) \in Nat
      /\ TotalOf(g) = TotalOf(f) - Worth(f[id]) + Worth(v)
  BY <1>1, <1>2, <1>3, <1>a, EntrySet
<1>5. /\ ledger'[p] = [total |-> w, entry |-> g]
      /\ \A q \in Period : q # p => ledger'[q] = ledger[q]
      /\ ledger' \in [Period -> Ledger]
  BY <1>1, <1>2 DEF Ledger, f, g, SetsEntry, Set
<1>6. ledger'[p].total = w /\ ledger'[p].entry = g
  BY <1>5
<1>7. ASSUME NEW q \in Period, \A i \in Call : Alone(q, i)'
      PROVE  \A i \in Call : Alone(q, i)
  BY <1>7, HoldersGrow
<1>8. FewUnits'
  BY <1>4, <1>5, <1>6 DEF IInv, FewUnits
<1>9. LedgerBalanced'
  <2>1. ASSUME NEW q \in Period, backend = "redis" \/ \A i \in Call : Alone(q, i)'
        PROVE  ledger'[q].total = TotalOf(ledger'[q].entry)
    <3>1. backend = "redis" \/ \A i \in Call : Alone(q, i)
      BY <1>7, <2>1
    <3>2. ledger[q].total = TotalOf(ledger[q].entry)
      BY <3>1 DEF IInv, LedgerBalanced
    <3>3. CASE q # p
      BY <1>5, <3>2, <3>3
    <3>4. CASE q = p
      <4>1. w = TotalOf(f) - Worth(f[id]) + Worth(v)
        BY <3>1, <3>2, <3>4 DEF f
      <4>2. QED BY <1>4, <1>6, <3>4, <4>1
    <3>5. QED BY <3>3, <3>4
  <2>2. QED BY <2>1 DEF LedgerBalanced
<1>10. HardBudget'
  <2>1. ASSUME NEW q \in Period, limit > 0, \A i \in Call : Alone(q, i)'
        PROVE  ledger'[q].total <= limit
    <3>1. \A i \in Call : Alone(q, i)
      BY <1>7, <2>1
    <3>2. CASE q # p
      BY <1>5, <2>1, <3>1, <3>2 DEF IInv, HardBudget
    <3>3. CASE q = p
      BY <1>6, <2>1, <3>1, <3>3
    <3>4. QED BY <3>2, <3>3
  <2>2. QED BY <2>1 DEF HardBudget
<1>11. QED BY <1>2, <1>5, <1>6, <1>8, <1>9, <1>10 DEF f


\* A step of one call, at an entry that the call is now granted.
LEMMA EntryCharged ==
    ASSUME IInv, GrantsStay, FewGranted', UNCHANGED <<backend, limit, period>>,
           NEW p \in Period, NEW id \in Call, NEW c \in Holders(p, id)',
           \A d \in Call : d # c => call'[d] = call[d],
           \A q \in Period, i \in Call :
               q # p \/ i # id => ledger'[q].entry[i] = ledger[q].entry[i],
           Charged(c)'
    PROVE  Backed' /\ LoneCharged'
<1>1. Backed'
  <2>1. ASSUME NEW q \in Period, NEW i \in Call, Holds(ledger[q], i)'
        PROVE  Holders(q, i)' # {}
    <3>1. CASE q = p /\ i = id
      BY <3>1
    <3>2. CASE q # p \/ i # id
      <4>1. Holds(ledger[q], i)
        BY <2>1, <3>2 DEF Holds
      <4>2. QED BY <4>1, HoldersGrow DEF IInv, Backed
    <3>3. QED BY <3>1, <3>2
  <2>2. QED BY <2>1 DEF Backed
<1>2. ASSUME NEW d \in Call, d # c
      PROVE  Charged(d)'
  <2> SUFFICES ASSUME NEW q \in Period, NEW i \in Call,
                      call'[d].phase = "executing", call'[d].id = i, call'[d].period = q,
                      limit > 0, Alone(q, i)'
               PROVE  /\ Live(q)' => Holds(ledger[q], i)'
                      /\ Holds(ledger[q], i)' => ledger'[q].entry[i] = Estimate
    BY DEF Charged, Estimate
  <2>1. call'[d] = call[d]
    BY <1>2
  <2>2. d \in Holders(q, i)' /\ c \in Call
    BY DEF Holders, Granted
  <2>3. q # p \/ i # id
    <3> SUFFICES ASSUME q = p, i = id
                 PROVE  FALSE
      OBVIOUS
    <3>1. Cardinality(Holders(q, i)') <= 1 /\ IsFiniteSet(Holders(q, i)')
      BY HoldersGrow DEF Alone
    <3>2. QED BY <1>2, <2>2, <3>1, OneAtMost
  <2>4. Alone(q, i)
    BY HoldersGrow
  <2>5. /\ Live(q) => Holds(ledger[q], i)
        /\ Holds(ledger[q], i) => ledger[q].entry[i] = Estimate
    BY <2>1, <2>4 DEF IInv, LoneCharged, Charged
  <2>6. ledger'[q].entry[i] = ledger[q].entry[i]
    BY <2>3
  <2>7. QED BY <2>5, <2>6 DEF Live, Holds
<1>3. QED BY <1>1, <1>2 DEF LoneCharged

\* A step of some calls that leaves the ledger alone.
LEMMA SameCharged ==
    ASSUME IInv, GrantsStay, FewGranted', UNCHANGED <<backend, limit, ledger>>,
           period <= period', period' \in Period,
           NEW C, \A d \in Call \ C : call'[d] = call[d],
           \A c \in Call \cap C : Charged(c)'
    PROVE  Backed' /\ LoneCharged'
<1>1. Backed'
  <2>1. ASSUME NEW q \in Period, NEW i \in Call, Holds(ledger[q], i)
        PROVE  Holders(q, i)' # {}
    BY <2>1, HoldersGrow DEF IInv, Backed
  <2>2. QED BY <2>1 DEF Backed, Holds
<1>2. ASSUME NEW d \in Call, d \notin C
      PROVE  Charged(d)'
  <2> SUFFICES ASSUME NEW q \in Period, NEW i \in Call,
                      call'[d].phase = "executing", call'[d].id = i, call'[d].period = q,
                      limit > 0, Alone(q, i)'
               PROVE  /\ Live(q)' => Holds(ledger[q], i)
                      /\ Holds(ledger[q], i) => ledger[q].entry[i] = Estimate
    BY DEF Charged, Estimate, Holds
  <2>1. call'[d] = call[d]
    BY <1>2
  <2>2. Alone(q, i)
    BY HoldersGrow
  <2>3. Live(q)' => Live(q)
    BY ConstantsAssumption DEF Live, Period, IInv, TypeOK
  <2>4. QED BY <2>1, <2>2, <2>3 DEF IInv, LoneCharged, Charged
<1>3. QED BY <1>1, <1>2 DEF LoneCharged

-----------------------------------------------------------------------------
(* The steps.                                                                *)

\* A step of one call keeps the others' grants.
LEMMA CallStep ==
    ASSUME IInv, NEW c \in Call, call' \in [Call -> CallState],
           \A d \in Call : d # c => call'[d] = call[d],
           Granted(c) => Granted(c)' /\ call'[c].id = call[c].id /\ call'[c].period = call[c].period,
           Granted(c)' \/ call'[c].phase = "identified" => call'[c].id \in Call
    PROVE  GrantsStay /\ FewGranted' /\ Identified'
<1>1. GrantsStay
  BY DEF GrantsStay, Granted
<1>2. {d \in Call : Granted(d)'} \subseteq {d \in Call : Granted(d)} \cup {c}
  BY DEF Granted
<1>3. IsFiniteSet({d \in Call : Granted(d)} \cup {c})
  BY FS_AddElement DEF IInv, FewGranted
<1>4. FewGranted'
  BY <1>2, <1>3, FS_Subset DEF FewGranted
<1>5. Identified'
  BY DEF IInv, Identified, Granted
<1>6. QED BY <1>1, <1>4, <1>5

\* A step of one call that is not executing afterwards, and leaves the ledger alone.
LEMMA QuietStep ==
    ASSUME IInv, NEW c \in Call, call' \in [Call -> CallState],
           \A d \in Call : d # c => call'[d] = call[d],
           Granted(c) => Granted(c)' /\ call'[c].id = call[c].id /\ call'[c].period = call[c].period,
           Granted(c)' \/ call'[c].phase = "identified" => call'[c].id \in Call,
           Charged(c)',
           UNCHANGED <<backend, limit, period, ledger>>,
           claims' \in [Key -> [id : Call, body : Body] \cup {NoClaim}]
    PROVE  IInv'
<1>1. GrantsStay /\ FewGranted' /\ Identified'
  BY CallStep
<1>2. period <= period' /\ period' \in Period
  BY ConstantsAssumption DEF IInv, TypeOK, Period
<1>3. \A d \in Call \ {c} : call'[d] = call[d]
  OBVIOUS
<1>4. \A d \in Call \cap {c} : Charged(d)'
  OBVIOUS
<1>5. Backed' /\ LoneCharged'
  BY <1>1, <1>2, <1>3, <1>4, SameCharged
<1>6. FewUnits' /\ LedgerBalanced' /\ HardBudget'
  BY <1>1, SameLedger
<1>7. TypeOK'
  BY DEF IInv, TypeOK
<1>8. QED BY <1>1, <1>5, <1>6, <1>7 DEF IInv

\* A step of one call that sets its entry of one period.
LEMMA ChargeStep ==
    ASSUME IInv, NEW c \in Call, call' \in [Call -> CallState],
           \A d \in Call : d # c => call'[d] = call[d],
           Granted(c) => Granted(c)' /\ call'[c].id = call[c].id /\ call'[c].period = call[c].period,
           NEW p \in Period, NEW id \in Call, NEW w \in Nat, NEW v \in Nat \cup {-1},
           Granted(c)', call'[c].id = id, call'[c].period = p,
           UNCHANGED <<backend, limit, period, claims>>,
           SetsEntry(p, id, w, v),
           (backend = "redis" \/ \A i \in Call : Alone(p, i)) =>
               w = ledger[p].total - Worth(ledger[p].entry[id]) + Worth(v),
           limit > 0 /\ (\A i \in Call : Alone(p, i)) => w <= limit,
           call'[c].phase = "executing" => v = Estimate /\ v \in Nat
    PROVE  IInv'
<1>1. GrantsStay /\ FewGranted' /\ Identified'
  BY CallStep
<1>2. /\ ledger' \in [Period -> Ledger]
      /\ FewUnits' /\ LedgerBalanced' /\ HardBudget'
      /\ ledger'[p].entry[id] = v
      /\ \A q \in Period, i \in Call :
            q # p \/ i # id => ledger'[q].entry[i] = ledger[q].entry[i]
  BY <1>1, EntryStep
<1>3. c \in Holders(p, id)'
  BY DEF Holders
<1>4. Charged(c)'
  BY <1>2 DEF Charged, Holds, Estimate
<1>5. Backed' /\ LoneCharged'
  BY <1>1, <1>2, <1>3, <1>4, EntryCharged
<1>6. TypeOK'
  BY <1>2 DEF IInv, TypeOK
<1>7. QED BY <1>1, <1>2, <1>5, <1>6 DEF IInv

\* Nobody holds the id of a call that is granted alone.
LEMMA Newcomer ==
    ASSUME GrantsStay, FewGranted', NEW p, NEW id, NEW c \in Call, ~Granted(c),
           c \in Holders(p, id)', Alone(p, id)'
    PROVE  Holders(p, id) = {}
<1> SUFFICES ASSUME NEW d \in Holders(p, id)
             PROVE  FALSE
  OBVIOUS
<1>1. d \in Holders(p, id)' /\ IsFiniteSet(Holders(p, id)') /\ Cardinality(Holders(p, id)') <= 1
  BY HoldersGrow DEF Alone
<1>2. d = c
  BY <1>1, OneAtMost
<1>3. QED BY <1>2 DEF Holders

\* The record of a period with a total and an entry replaced.
LEMMA IsSet ==
    ASSUME NEW l \in Ledger, NEW id \in Call, NEW w, NEW v,
           NEW new \in Ledger, new.total = w, new.entry[id] = v,
           \A i \in Call : i # id => new.entry[i] = l.entry[i]
    PROVE  new = Set(l, id, w, v)
<1>1. new.entry = [l.entry EXCEPT ![id] = v]
  BY DEF Ledger
<1>2. new = [total |-> new.total, entry |-> new.entry]
  BY DEF Ledger
<1>3. QED BY <1>1, <1>2 DEF Set

\* What reserve makes of the ledger of a period.
LEMMA ReservedSets ==
    ASSUME NEW l \in Ledger, NEW id \in Call
    PROVE  Reserved(l, id) = Set(l, id, l.total + Estimate, Estimate)
<1>1. Estimate \in Nat /\ l.total + Estimate \in Nat
  BY ConstantsAssumption DEF Estimate, Ledger
<1>2. /\ Reserved(l, id) \in Ledger
      /\ Reserved(l, id).total = l.total + Estimate /\ Reserved(l, id).entry[id] = Estimate
      /\ \A i \in Call : i # id => Reserved(l, id).entry[i] = l.entry[i]
  BY <1>1 DEF Reserved, Ledger
<1>3. QED BY <1>2, IsSet

\* What settle and release make of it, for a request id with an entry.
LEMMA SettledSets ==
    ASSUME NEW l \in Ledger, NEW id \in Call, Holds(l, id), NEW actual \in Nat,
           Minus(l.total, l.entry[id]) \in Nat
    PROVE  /\ Settled(l, id, actual) = Set(l, id, Minus(l.total, l.entry[id]) + actual, actual)
           /\ Released(l, id) = Set(l, id, Minus(l.total, l.entry[id]), -1)
<1> DEFINE n == Minus(l.total, l.entry[id])
           settled == [l EXCEPT !.total = n + actual, !.entry[id] = actual]
           released == [l EXCEPT !.total = n, !.entry[id] = -1]
<1>1. Settled(l, id, actual) = settled /\ Released(l, id) = released
  BY Zenon DEF Settled, Released
<1>2. n \in Nat /\ n + actual \in Nat
  OBVIOUS
<1> HIDE DEF n
<1>3. /\ settled \in Ledger /\ settled.total = n + actual /\ settled.entry[id] = actual
      /\ \A i \in Call : i # id => settled.entry[i] = l.entry[i]
  BY <1>2 DEF Ledger
<1>4. /\ released \in Ledger /\ released.total = n /\ released.entry[id] = -1
      /\ \A i \in Call : i # id => released.entry[i] = l.entry[i]
  BY <1>2 DEF Ledger
<1> HIDE DEF settled, released
<1>5. settled = Set(l, id, n + actual, actual) /\ released = Set(l, id, n, -1)
  BY <1>3, <1>4, IsSet
<1>6. QED BY <1>1, <1>5 DEF n

\* The memory repository's settle without an entry leaves one that no total counts.
LEMMA StraySets ==
    ASSUME NEW l \in Ledger, NEW id \in Call, ~Holds(l, id), NEW actual \in Nat, backend = "memory"
    PROVE  Settled(l, id, actual) = Set(l, id, l.total, actual)
<1> DEFINE settled == [l EXCEPT !.entry[id] = actual]
<1>1. Settled(l, id, actual) = settled
  BY DEF Settled
<1>2. /\ settled \in Ledger /\ settled.total = l.total /\ settled.entry[id] = actual
      /\ \A i \in Call : i # id => settled.entry[i] = l.entry[i]
  BY DEF Ledger
<1> HIDE DEF settled
<1>3. QED BY <1>1, <1>2, IsSet

\* Releasing and settling take no more than there is, as long as the total is the sum.
LEMMA MinusTotal ==
    ASSUME IInv, NEW p \in Period, NEW id \in Call, Holds(ledger[p], id)
    PROVE  /\ Minus(ledger[p].total, ledger[p].entry[id]) \in Nat
           /\ ledger[p].entry[id] \in Nat
           /\ (backend = "redis" \/ \A i \in Call : Alone(p, i)) =>
                 Minus(ledger[p].total, ledger[p].entry[id])
                     = ledger[p].total - Worth(ledger[p].entry[id])
<1> DEFINE f == ledger[p].entry
           n == ledger[p].total
<1>1. /\ f \in [Call -> Nat \cup {-1}] /\ n \in Nat /\ IsFiniteSet(Units(f))
      /\ backend \in {"memory", "redis"}
  BY DEF IInv, TypeOK, Ledger, FewUnits
<1>2. f[id] \in Nat /\ f \in [Call -> Int]
  BY <1>1 DEF Holds
<1>3. (backend = "redis" \/ \A i \in Call : Alone(p, i)) => n = TotalOf(f)
  BY DEF IInv, LedgerBalanced
<1> HIDE DEF f, n
<1>4. TotalOf(f) \in Nat /\ Worth(f[id]) <= TotalOf(f)
  BY <1>1, <1>2, EntrySet
<1>5. Worth(f[id]) = f[id]
  BY <1>2 DEF Worth
<1>6. Minus(n, f[id]) \in Nat
  <2>1. CASE backend = "memory"
    BY <1>1, <1>2, <2>1 DEF Minus
  <2>2. CASE backend = "redis"
    <3>1. n >= f[id]
      BY <1>1, <1>2, <1>3, <1>4, <1>5, <2>2
    <3>2. QED BY <1>1, <1>2, <2>2, <3>1 DEF Minus
  <2>3. QED BY <1>1, <2>1, <2>2
<1>7. ASSUME backend = "redis" \/ \A i \in Call : Alone(p, i)
      PROVE  Minus(n, f[id]) = n - Worth(f[id])
  <2>1. ~(f[id] > n)
    BY <1>1, <1>2, <1>3, <1>4, <1>5, <1>7
  <2>2. QED BY <1>5, <2>1 DEF Minus
<1>8. QED BY <1>2, <1>6, <1>7 DEF f, n

\* reserve.
LEMMA ReserveKeeps ==
    ASSUME IInv, NEW c \in Call, Reserve(c)
    PROVE  IInv'
<1> DEFINE l == ledger[period]
           id == call[c].id
           granted == [call EXCEPT ![c].phase = "executing", ![c].period = period]
<1>1. /\ call \in [Call -> CallState] /\ period \in Period /\ id \in Call /\ l \in Ledger
      /\ call[c].phase = "identified" /\ ~Granted(c)
      /\ UNCHANGED <<backend, limit, claims, period>>
  BY DEF IInv, TypeOK, Reserve, Identified, Granted
<1>2. ASSUME call' = granted
      PROVE  /\ call' \in [Call -> CallState]
             /\ \A d \in Call : d # c => call'[d] = call[d]
             /\ call'[c].id = id /\ call'[c].period = period
             /\ call'[c].phase = "executing" /\ Granted(c)'
             /\ GrantsStay /\ FewGranted'
  <2>1. /\ call' \in [Call -> CallState]
        /\ \A d \in Call : d # c => call'[d] = call[d]
        /\ call'[c].id = id /\ call'[c].period = period /\ call'[c].phase = "executing"
    BY <1>1, <1>2 DEF CallState, Phase
  <2>2. Granted(c)'
    BY <2>1 DEF Granted
  <2>3. QED BY <1>1, <2>1, <2>2, CallStep
<1>3. CASE call' = granted /\ (limit = 0 \/ Holds(l, id)) /\ UNCHANGED ledger
  <2>1. Charged(c)'
    <3> SUFFICES ASSUME NEW p \in Period, NEW i \in Call, call'[c].id = i, call'[c].period = p,
                        limit > 0, Alone(p, i)'
                 PROVE  FALSE
      BY <1>1 DEF Charged
    <3>1. c \in Holders(p, i)'
      BY <1>2, <1>3 DEF Holders
    <3>2. Holders(p, i) = {}
      BY <1>1, <1>2, <1>3, <3>1, Newcomer
    <3>3. ~Holds(ledger[p], i)
      BY <3>2 DEF IInv, Backed
    <3>4. QED BY <1>2, <1>3, <3>3
  <2>2. claims' \in [Key -> [id : Call, body : Body] \cup {NoClaim}]
    BY <1>1 DEF IInv, TypeOK
  <2>3. QED BY <1>1, <1>2, <1>3, <2>1, <2>2, QuietStep
<1>4. CASE /\ limit > 0 /\ ~Holds(l, id) /\ Fits(l) /\ call' = granted
           /\ ledger' = [ledger EXCEPT ![period] = Reserved(@, id)]
  <2>1. Estimate \in Nat
    BY ConstantsAssumption DEF Estimate
  <2>2. l.total \in Nat /\ limit \in Nat /\ l.entry[id] = -1
    BY <1>1, <1>4 DEF Ledger, Holds, IInv, TypeOK
  <2>3. l.total + Estimate \in Nat /\ l.total + Estimate <= limit
    BY <1>4, <2>1, <2>2 DEF Fits
  <2>4. Reserved(l, id) = Set(l, id, l.total + Estimate, Estimate)
    BY <1>1, ReservedSets
  <2>5. SetsEntry(period, id, l.total + Estimate, Estimate)
    BY <1>4, <2>4 DEF SetsEntry
  <2>6. Worth(l.entry[id]) = 0 /\ Worth(Estimate) = Estimate
    BY <2>1, <2>2 DEF Worth
  <2>7. l.total + Estimate = l.total - Worth(l.entry[id]) + Worth(Estimate)
    BY <2>1, <2>2, <2>6
  <2>8. Estimate \in Nat \cup {-1}
    BY <2>1
  <2> HIDE DEF l, id, granted
  <2>9. QED BY <1>1, <1>2, <1>4, <2>1, <2>3, <2>5, <2>7, <2>8, ChargeStep DEF l
<1>5. CASE call' = [call EXCEPT ![c].phase = "rejected"] /\ UNCHANGED ledger
  <2>1. /\ call' \in [Call -> CallState]
        /\ \A d \in Call : d # c => call'[d] = call[d]
        /\ call'[c].phase = "rejected"
    BY <1>1, <1>5 DEF CallState, Phase
  <2>2. Charged(c)' /\ ~Granted(c)'
    BY <2>1 DEF Charged, Granted
  <2>3. claims' \in [Key -> [id : Call, body : Body] \cup {NoClaim}]
    BY <1>1 DEF IInv, TypeOK
  <2>4. QED BY <1>1, <1>5, <2>1, <2>2, <2>3, QuietStep
<1>6. QED BY <1>3, <1>4, <1>5 DEF Reserve

\* Settling or releasing the entry of a call that is executing and alone with its id.
LEMMA LoneEntry ==
    ASSUME IInv, NEW c \in Call, call[c].phase = "executing", limit > 0,
           NEW p \in Period, NEW id \in Call, call[c].id = id, call[c].period = p, Alone(p, id)
    PROVE  /\ Live(p) => Holds(ledger[p], id)
           /\ Holds(ledger[p], id) => ledger[p].entry[id] = Estimate
BY DEF IInv, LoneCharged, Charged

\* The last step of a call, with what it leaves in its entry.
LEMMA CloseKeeps ==
    ASSUME IInv, NEW c \in Call, call[c].phase = "executing",
           call' \in [Call -> CallState], \A d \in Call : d # c => call'[d] = call[d],
           call'[c].id = call[c].id, call'[c].period = call[c].period,
           call'[c].phase \in {"settled", "released", "ended"},
           UNCHANGED <<backend, limit, period, claims>>,
           NEW p \in Period, p = call[c].period, NEW id \in Call, id = call[c].id,
           NEW v \in Nat \cup {-1}, v = -1 \/ (v \in Nat /\ v <= Estimate),
           \/ UNCHANGED ledger
           \/ /\ limit > 0 /\ Holds(ledger[p], id)
              /\ SetsEntry(p, id, Minus(ledger[p].total, ledger[p].entry[id]) + Worth(v), v)
           \/ /\ limit > 0 /\ ~Holds(ledger[p], id) /\ backend = "memory"
              /\ SetsEntry(p, id, ledger[p].total, v)
    PROVE  IInv'
<1>1. /\ Granted(c) /\ Granted(c)' /\ Charged(c)' /\ call'[c].phase # "executing"
      /\ call'[c].id = id /\ call'[c].period = p
  BY DEF Granted, Charged
<1>2. /\ claims' \in [Key -> [id : Call, body : Body] \cup {NoClaim}]
      /\ ledger[p].total \in Nat /\ limit \in Nat /\ Estimate \in Nat
      /\ ledger[p].entry[id] \in Nat \cup {-1}
  BY ConstantsAssumption DEF IInv, TypeOK, Ledger, Estimate
<1>3. Worth(v) \in Nat /\ Worth(v) <= Estimate
  BY <1>2 DEF Worth
<1>4. CASE UNCHANGED ledger
  BY <1>1, <1>2, <1>4, QuietStep
<1>5. CASE /\ limit > 0 /\ Holds(ledger[p], id)
           /\ SetsEntry(p, id, Minus(ledger[p].total, ledger[p].entry[id]) + Worth(v), v)
  <2> DEFINE n == ledger[p].total
             e == ledger[p].entry[id]
             m == Minus(n, e)
             w == m + Worth(v)
  <2>1. /\ m \in Nat /\ e \in Nat
        /\ (backend = "redis" \/ \A i \in Call : Alone(p, i)) => m = n - Worth(e)
    BY <1>5, MinusTotal
  <2>2. w \in Nat
    BY <1>3, <2>1
  <2>3. Worth(e) = e
    BY <2>1 DEF Worth
  <2>4. (backend = "redis" \/ \A i \in Call : Alone(p, i)) => w = n - Worth(e) + Worth(v)
    BY <2>1
  <2>5. ASSUME limit > 0, \A i \in Call : Alone(p, i)
        PROVE  w <= limit
    <3>1. e = Estimate
      BY <1>5, <2>5, LoneEntry
    <3>2. n <= limit
      BY <2>5 DEF IInv, HardBudget
    <3>3. m = n - Estimate
      BY <2>1, <2>3, <2>5, <3>1
    <3> HIDE DEF n, e, m
    <3>4. n \in Nat
      BY <1>2 DEF n
    <3>5. QED BY <1>2, <1>3, <2>1, <3>2, <3>3, <3>4
  <2>6. SetsEntry(p, id, w, v)
    BY <1>5
  <2> HIDE DEF w
  <2>7. QED BY <1>1, <2>2, <2>4, <2>5, <2>6, ChargeStep
<1>6. CASE /\ limit > 0 /\ ~Holds(ledger[p], id) /\ backend = "memory"
           /\ SetsEntry(p, id, ledger[p].total, v)
  <2>1. ~(\A i \in Call : Alone(p, i))
    <3>1. Live(p)
      BY <1>6 DEF Live
    <3>2. QED BY <1>6, <3>1, LoneEntry
  <2>2. backend # "redis"
    BY <1>6
  <2>3. QED BY <1>1, <1>2, <1>6, <2>1, <2>2, ChargeStep
<1>7. QED BY <1>4, <1>5, <1>6

\* settle_budget_usage.
LEMMA SucceedKeeps ==
    ASSUME IInv, NEW c \in Call, NEW cost \in FinalCosts, Succeed(c, cost)
    PROVE  IInv'
<1> DEFINE actual == cost + Cost * (call[c].attempts - 1)
           p == call[c].period
           id == call[c].id
           l == ledger[p]
<1>1. /\ call \in [Call -> CallState] /\ call[c].phase = "executing" /\ call[c].attempts > 0
      /\ p \in Period /\ id \in Call /\ l \in Ledger /\ backend \in {"memory", "redis"}
      /\ limit \in Nat
      /\ call' = [call EXCEPT ![c].phase = "settled", ![c].spent = actual]
      /\ ledger' = IF limit = 0 THEN ledger ELSE [ledger EXCEPT ![p] = Settled(@, id, actual)]
      /\ UNCHANGED <<backend, limit, claims, period>>
  BY DEF IInv, TypeOK, Succeed, Identified, Granted, CallState
<1>2. call[c].attempts \in 1 .. MaxAttempts
  BY <1>1, ConstantsAssumption DEF CallState
<1>3. actual \in Nat /\ actual <= Estimate
  BY <1>2, WithinEstimate
<1> HIDE DEF actual
<1>4. /\ call' \in [Call -> CallState] /\ \A d \in Call : d # c => call'[d] = call[d]
      /\ call'[c].id = call[c].id /\ call'[c].period = call[c].period
      /\ call'[c].phase = "settled"
  BY <1>1, <1>3 DEF CallState, Phase
<1> HIDE DEF p, id, l
<1>5. \/ UNCHANGED ledger
      \/ /\ limit > 0 /\ Holds(l, id)
         /\ SetsEntry(p, id, Minus(l.total, l.entry[id]) + Worth(actual), actual)
      \/ /\ limit > 0 /\ ~Holds(l, id) /\ backend = "memory"
         /\ SetsEntry(p, id, l.total, actual)
  <2>1. CASE limit = 0
    BY <1>1, <2>1
  <2>2. CASE limit > 0 /\ Holds(l, id)
    <3>1. Minus(l.total, l.entry[id]) \in Nat
      BY <1>1, <2>2, MinusTotal DEF l
    <3>2. Settled(l, id, actual) = Set(l, id, Minus(l.total, l.entry[id]) + actual, actual)
      BY <1>1, <1>3, <2>2, <3>1, SettledSets
    <3>3. Worth(actual) = actual
      BY <1>3 DEF Worth
    <3>4. ledger' = [ledger EXCEPT ![p] = Settled(@, id, actual)]
      BY <1>1, <2>2
    <3>5. QED BY <2>2, <3>2, <3>3, <3>4 DEF SetsEntry, l
  <2>3. CASE limit > 0 /\ ~Holds(l, id)
    <3>1. ledger' = [ledger EXCEPT ![p] = Settled(@, id, actual)]
      BY <1>1, <2>3
    <3>2. CASE backend = "memory"
      <4>1. Settled(l, id, actual) = Set(l, id, l.total, actual)
        BY <1>1, <1>3, <2>3, <3>2, StraySets
      <4>2. QED BY <2>3, <3>1, <3>2, <4>1 DEF SetsEntry, l
    <3>3. CASE backend = "redis"
      <4>1. Settled(l, id, actual) = l
        BY <2>3, <3>3 DEF Settled
      <4>2. ledger \in [Period -> Ledger]
        BY DEF IInv, TypeOK
      <4>3. QED BY <3>1, <4>1, <4>2 DEF l
    <3>4. QED BY <1>1, <3>2, <3>3
  <2>4. QED BY <1>1, <2>1, <2>2, <2>3
<1>6. actual \in Nat \cup {-1} /\ call'[c].phase \in {"settled", "released", "ended"}
  BY <1>3, <1>4
<1>7. QED BY <1>1, <1>3, <1>4, <1>5, <1>6, CloseKeeps DEF p, id, l

\* record_routed_failure, and the quota's refusal.
LEMMA GiveBackKeeps ==
    ASSUME IInv, NEW c \in Call, GiveBack(c)
    PROVE  IInv'
<1> DEFINE p == call[c].period
           id == call[c].id
           l == ledger[p]
<1>1. /\ call \in [Call -> CallState] /\ call[c].phase = "executing"
      /\ p \in Period /\ id \in Call /\ l \in Ledger /\ limit \in Nat
      /\ call' = [call EXCEPT ![c].phase = "released"]
      /\ ledger' = IF limit = 0 THEN ledger ELSE [ledger EXCEPT ![p] = Released(@, id)]
      /\ UNCHANGED <<backend, limit, claims, period>>
  BY DEF IInv, TypeOK, GiveBack, Identified, Granted, CallState
<1>2. /\ call' \in [Call -> CallState] /\ \A d \in Call : d # c => call'[d] = call[d]
      /\ call'[c].id = call[c].id /\ call'[c].period = call[c].period
      /\ call'[c].phase = "released"
  BY <1>1 DEF CallState, Phase
<1> HIDE DEF p, id, l
<1>3. \/ UNCHANGED ledger
      \/ /\ limit > 0 /\ Holds(l, id)
         /\ SetsEntry(p, id, Minus(l.total, l.entry[id]) + Worth(-1), -1)
  <2>1. CASE limit = 0
    BY <1>1, <2>1
  <2>2. CASE limit > 0 /\ Holds(l, id)
    <3>1. Minus(l.total, l.entry[id]) \in Nat
      BY <1>1, <2>2, MinusTotal DEF l
    <3>2. Released(l, id) = Set(l, id, Minus(l.total, l.entry[id]), -1)
      BY <1>1, <2>2, <3>1, SettledSets
    <3>3. Minus(l.total, l.entry[id]) + Worth(-1) = Minus(l.total, l.entry[id])
      BY <3>1 DEF Worth
    <3>4. ledger' = [ledger EXCEPT ![p] = Released(@, id)]
      BY <1>1, <2>2
    <3>5. QED BY <2>2, <3>2, <3>3, <3>4 DEF SetsEntry, l
  <2>3. CASE limit > 0 /\ ~Holds(l, id)
    <3>1. ledger' = [ledger EXCEPT ![p] = Released(@, id)]
      BY <1>1, <2>3
    <3>2. Released(l, id) = l
      BY <2>3 DEF Released
    <3>3. ledger \in [Period -> Ledger]
      BY DEF IInv, TypeOK
    <3>4. QED BY <3>1, <3>2, <3>3 DEF l
  <2>4. QED BY <1>1, <2>1, <2>2, <2>3
<1>4. -1 \in Nat \cup {-1} /\ call'[c].phase \in {"settled", "released", "ended"}
  BY <1>2
<1>5. QED BY <1>1, <1>2, <1>3, <1>4, CloseKeeps DEF p, id, l

\* A call ends with its reservation in place.
LEMMA EndKeeps ==
    ASSUME IInv, NEW c \in Call, End(c)
    PROVE  IInv'
<1>1. /\ call \in [Call -> CallState] /\ call[c].phase = "executing" /\ call[c].id \in Call
      /\ call' = [call EXCEPT ![c].phase = "ended"]
      /\ UNCHANGED <<backend, limit, claims, period, ledger>>
  BY DEF IInv, TypeOK, End, Identified, Granted
<1>2. /\ call' \in [Call -> CallState] /\ \A d \in Call : d # c => call'[d] = call[d]
      /\ call'[c].id = call[c].id /\ call'[c].period = call[c].period
      /\ call'[c].phase = "ended"
  BY <1>1 DEF CallState, Phase
<1>3. Granted(c) /\ Granted(c)' /\ Charged(c)'
  BY <1>1, <1>2 DEF Granted, Charged
<1>4. claims' \in [Key -> [id : Call, body : Body] \cup {NoClaim}]
  BY <1>1 DEF IInv, TypeOK
<1>5. QED BY <1>1, <1>2, <1>3, <1>4, QuietStep

\* An attempt changes neither the grant nor the entry.
LEMMA AttemptKeeps ==
    ASSUME IInv, NEW c \in Call, Attempt(c)
    PROVE  IInv'
<1>1. /\ call \in [Call -> CallState] /\ call[c].phase = "executing" /\ call[c].id \in Call
      /\ call[c].attempts < MaxAttempts
      /\ call' = [call EXCEPT ![c].attempts = @ + 1, ![c].spent = @ + Cost]
      /\ UNCHANGED <<backend, limit, claims, period, ledger>>
  BY DEF IInv, TypeOK, Attempt, Identified, Granted
<1>2. call[c].attempts + 1 \in 0 .. MaxAttempts /\ call[c].spent + Cost \in Nat
  BY <1>1, ConstantsAssumption DEF CallState
<1>3. /\ call' \in [Call -> CallState] /\ \A d \in Call : d # c => call'[d] = call[d]
      /\ call'[c].id = call[c].id /\ call'[c].period = call[c].period
      /\ call'[c].phase = call[c].phase
  BY <1>1, <1>2 DEF CallState
<1>4. Granted(c) /\ Granted(c)'
  BY <1>1, <1>3 DEF Granted
<1>5. GrantsStay /\ FewGranted'
  BY <1>1, <1>3, <1>4, CallStep
<1>6. Charged(c)'
  <2> SUFFICES ASSUME NEW q \in Period, NEW i \in Call, call[c].id = i, call[c].period = q,
                      limit > 0, Alone(q, i)'
               PROVE  /\ Live(q) => Holds(ledger[q], i)
                      /\ Holds(ledger[q], i) => ledger[q].entry[i] = Estimate
    BY <1>1, <1>3 DEF Charged, Estimate, Holds, Live
  <2>1. Alone(q, i)
    BY <1>5, HoldersGrow
  <2>2. QED BY <1>1, <2>1, LoneEntry
<1>7. claims' \in [Key -> [id : Call, body : Body] \cup {NoClaim}]
  BY <1>1 DEF IInv, TypeOK
<1>8. QED BY <1>1, <1>3, <1>4, <1>6, <1>7, QuietStep

\* resolve_request_id.
LEMMA IdentifyKeeps ==
    ASSUME IInv, NEW c \in Call, Identify(c) \/ \E k \in Key, body \in Body : Claim(c, k, body)
    PROVE  IInv'
<1>1. /\ call \in [Call -> CallState] /\ call[c].phase = "new"
      /\ claims \in [Key -> [id : Call, body : Body] \cup {NoClaim}]
      /\ UNCHANGED <<backend, limit, period, ledger>>
  BY DEF IInv, TypeOK, Identify, Claim
<1>2. /\ \/ \E id \in Call : call' = [call EXCEPT ![c].phase = "identified", ![c].id = id]
         \/ call' = [call EXCEPT ![c].phase = "rejected"]
      /\ claims' \in [Key -> [id : Call, body : Body] \cup {NoClaim}]
  <2>1. CASE Identify(c)
    BY <1>1, <2>1 DEF Identify
  <2>2. ASSUME NEW k \in Key, NEW body \in Body, Claim(c, k, body)
        PROVE  /\ \/ \E id \in Call : call' = [call EXCEPT ![c].phase = "identified", ![c].id = id]
                  \/ call' = [call EXCEPT ![c].phase = "rejected"]
               /\ claims' \in [Key -> [id : Call, body : Body] \cup {NoClaim}]
    BY <1>1, <2>2 DEF Claim
  <2>3. QED BY <2>1, <2>2
<1>3. /\ call' \in [Call -> CallState] /\ \A d \in Call : d # c => call'[d] = call[d]
      /\ \/ call'[c].phase = "identified" /\ call'[c].id \in Call
         \/ call'[c].phase = "rejected"
  BY <1>1, <1>2 DEF CallState, Phase
<1>4. ~Granted(c) /\ ~Granted(c)' /\ Charged(c)'
  BY <1>1, <1>3 DEF Granted, Charged
<1>5. QED BY <1>1, <1>2, <1>3, <1>4, QuietStep

\* A claim is forgotten.
LEMMA ForgetKeeps ==
    ASSUME IInv, NEW k \in Key, Forget(k)
    PROVE  IInv'
<1>1. /\ UNCHANGED <<backend, limit, period, ledger, call>>
      /\ claims' \in [Key -> [id : Call, body : Body] \cup {NoClaim}]
  BY DEF IInv, TypeOK, Forget
<1>2. TypeOK' /\ FewGranted' /\ Identified' /\ GrantsStay
  BY <1>1 DEF IInv, TypeOK, FewGranted, Identified, GrantsStay, Granted
<1>3. period <= period' /\ period' \in Period
  BY <1>1, ConstantsAssumption DEF IInv, TypeOK, Period
<1>4. Backed' /\ LoneCharged'
  <2>1. \A d \in Call \ {} : call'[d] = call[d]
    BY <1>1
  <2>2. \A d \in Call \cap {} : Charged(d)'
    OBVIOUS
  <2>3. QED BY <1>1, <1>2, <1>3, <2>1, <2>2, SameCharged
<1>5. FewUnits' /\ LedgerBalanced' /\ HardBudget'
  BY <1>1, <1>2, SameLedger
<1>6. QED BY <1>2, <1>4, <1>5 DEF IInv

\* The next period begins with an empty ledger of its own.
LEMMA NextPeriodKeeps ==
    ASSUME IInv, NextPeriod
    PROVE  IInv'
<1>1. /\ UNCHANGED <<backend, limit, claims, ledger, call>>
      /\ period' = period + 1 /\ period' \in Period /\ period <= period'
  BY ConstantsAssumption DEF IInv, TypeOK, NextPeriod, Period
<1>2. TypeOK' /\ FewGranted' /\ Identified' /\ GrantsStay
  BY <1>1 DEF IInv, TypeOK, FewGranted, Identified, GrantsStay, Granted
<1>3. Backed' /\ LoneCharged'
  <2>1. \A d \in Call \ {} : call'[d] = call[d]
    BY <1>1
  <2>2. \A d \in Call \cap {} : Charged(d)'
    OBVIOUS
  <2>3. QED BY <1>1, <1>2, <2>1, <2>2, SameCharged
<1>4. FewUnits' /\ LedgerBalanced' /\ HardBudget'
  BY <1>1, <1>2, SameLedger
<1>5. QED BY <1>2, <1>3, <1>4 DEF IInv

\* A period without entries is charged nothing.
LEMMA EmptyTotal ==
    /\ EmptyLedger \in Ledger /\ EmptyLedger.total = 0 /\ \A id \in Call : ~Holds(EmptyLedger, id)
    /\ IsFiniteSet(Units(EmptyLedger.entry)) /\ TotalOf(EmptyLedger.entry) = 0
<1>1. /\ EmptyLedger \in Ledger /\ EmptyLedger.total = 0
      /\ \A id \in Call : EmptyLedger.entry[id] = -1
      /\ DOMAIN EmptyLedger.entry = Call
  BY DEF EmptyLedger, Ledger
<1>2. Units(EmptyLedger.entry) = {}
  BY <1>1 DEF Units
<1>3. QED BY <1>1, <1>2, FS_EmptySet DEF Holds, TotalOf

\* Redis drops the entries and the total of a period together, when it is long over.
LEMMA ExpireKeeps ==
    ASSUME IInv, NEW p \in Period, Expire(p)
    PROVE  IInv'
<1>1. /\ UNCHANGED <<backend, limit, claims, period, call>>
      /\ ledger \in [Period -> Ledger] /\ ledger' = [ledger EXCEPT ![p] = EmptyLedger]
      /\ ~Live(p) /\ limit \in Nat
  BY ConstantsAssumption DEF IInv, TypeOK, Expire, Live, Period
<1>2. /\ ledger' \in [Period -> Ledger] /\ ledger'[p] = EmptyLedger
      /\ \A q \in Period : q # p => ledger'[q] = ledger[q]
  BY <1>1, EmptyTotal
<1>3. TypeOK' /\ FewGranted' /\ Identified'
  BY <1>1, <1>2 DEF IInv, TypeOK, FewGranted, Identified, Granted
<1>4. \A q \in Period, i \in Call : Holders(q, i)' = Holders(q, i) /\ (Alone(q, i)' <=> Alone(q, i))
  BY <1>1 DEF Holders, Granted, Alone
<1>5. FewUnits'
  BY <1>2, EmptyTotal DEF IInv, FewUnits
<1>6. Backed'
  BY <1>2, <1>4, EmptyTotal DEF IInv, Backed, Holds
<1>7. LoneCharged'
  <2> SUFFICES ASSUME NEW d \in Call, NEW q \in Period, NEW i \in Call,
                      call[d].phase = "executing", call[d].id = i, call[d].period = q,
                      limit > 0, Alone(q, i)
               PROVE  /\ Live(q) => Holds(ledger'[q], i)
                      /\ Holds(ledger'[q], i) => ledger'[q].entry[i] = Estimate
    BY <1>1, <1>4 DEF LoneCharged, Charged, Estimate, Holds, Live
  <2>1. CASE q = p
    BY <1>1, <1>2, <2>1, EmptyTotal
  <2>2. CASE q # p
    BY <1>2, <2>2, LoneEntry
  <2>3. QED BY <2>1, <2>2
<1>8. LedgerBalanced'
  <2>1. ASSUME NEW q \in Period, backend = "redis" \/ \A i \in Call : Alone(q, i)
        PROVE  ledger'[q].total = TotalOf(ledger'[q].entry)
    BY <1>2, <2>1, EmptyTotal DEF IInv, LedgerBalanced
  <2>2. QED BY <1>1, <1>4, <2>1 DEF LedgerBalanced
<1>9. HardBudget'
  <2>1. ASSUME NEW q \in Period, limit > 0, \A i \in Call : Alone(q, i)
        PROVE  ledger'[q].total <= limit
    BY <1>1, <1>2, <2>1, EmptyTotal DEF IInv, HardBudget
  <2>2. QED BY <1>1, <1>4, <2>1 DEF HardBudget
<1>10. QED BY <1>3, <1>5, <1>6, <1>7, <1>8, <1>9 DEF IInv

\* The ledgers are empty at first.
LEMMA InitInv == Init => IInv
<1> SUFFICES ASSUME Init
             PROVE  IInv
  OBVIOUS
<1>1. /\ \A p \in Period : ledger[p] = EmptyLedger
      /\ \A c \in Call : call[c].phase = "new"
      /\ limit \in Nat /\ period = 0
  BY ConstantsAssumption DEF Init
<1>2. TypeOK
  BY EmptyTotal, ConstantsAssumption DEF Init, TypeOK, CallState, Phase, Period
<1>3. {c \in Call : Granted(c)} = {}
  BY <1>1 DEF Granted
<1>4. FewGranted /\ Identified
  BY <1>1, <1>3, FS_EmptySet DEF FewGranted, Identified, Granted
<1>5. FewUnits /\ LedgerBalanced /\ Backed
  BY <1>1, EmptyTotal DEF FewUnits, LedgerBalanced, Backed
<1>6. HardBudget
  BY <1>1, EmptyTotal DEF HardBudget
<1>7. LoneCharged
  BY <1>1 DEF LoneCharged, Charged
<1>8. QED BY <1>2, <1>4, <1>5, <1>6, <1>7 DEF IInv

\* Every step keeps the invariant.
LEMMA StepKeeps ==
    ASSUME IInv, [Next]_vars
    PROVE  IInv'
<1>1. ASSUME NEW c \in Call, NEW k \in Key, NEW body \in Body, Claim(c, k, body)
      PROVE  IInv'
  BY <1>1, IdentifyKeeps
<1>2. CASE UNCHANGED vars
  BY <1>2 DEF vars, IInv, TypeOK, FewGranted, FewUnits, Identified, Backed, LoneCharged, Charged,
              LedgerBalanced, HardBudget, Granted, Holders, Alone, Holds, Live, Estimate
<1>3. QED BY <1>1, <1>2, IdentifyKeeps, ReserveKeeps, AttemptKeeps, GiveBackKeeps, EndKeeps,
             SucceedKeeps, ForgetKeeps, NextPeriodKeeps, ExpireKeeps DEF Next

\* What a call that is sent upstream is charged stays charged: as long as no other call
\* bears its request id, its entry is there, with the estimate, until it is settled or its
\* period is over (the reservation is only taken back by release, which asks for no attempt).
LoneIsCharged ==
    \A c \in Call :
        (/\ limit > 0 /\ call[c].phase = "executing"
         /\ Alone(call[c].period, call[c].id) /\ Live(call[c].period)) =>
            ledger[call[c].period].entry[call[c].id] = Estimate

-----------------------------------------------------------------------------
(* The theorems.                                                             *)

\* Every variable has its type: no settlement or release takes a total below zero, in
\* memory because it saturates (saturating_sub), on Redis because the total is the sum.
THEOREM Typed == Spec => []TypeOK
<1>1. Init => IInv
  BY InitInv
<1>2. IInv /\ [Next]_vars => IInv'
  BY StepKeeps
<1>3. IInv => TypeOK
  BY DEF IInv
<1>4. QED BY <1>1, <1>2, <1>3, PTL DEF Spec

\* The total that reserve compares with the limit is the sum of the reservations, whatever
\* calls do on Redis (RESERVE, SETTLE, RELEASE), and in memory where no id is shared.
THEOREM Balanced == Spec => []LedgerBalanced
<1>1. Init => IInv
  BY InitInv
<1>2. IInv /\ [Next]_vars => IInv'
  BY StepKeeps
<1>3. IInv => LedgerBalanced
  BY DEF IInv
<1>4. QED BY <1>1, <1>2, <1>3, PTL DEF Spec

\* No period is charged more than the limit, where no request id is shared, at any
\* interleaving of reserve, settle and release.
THEOREM NeverOverCharged == Spec => []HardBudget
<1>1. Init => IInv
  BY InitInv
<1>2. IInv /\ [Next]_vars => IInv'
  BY StepKeeps
<1>3. IInv => HardBudget
  BY DEF IInv
<1>4. QED BY <1>1, <1>2, <1>3, PTL DEF Spec

\* A call alone with its request id is charged until it is settled or given back.
THEOREM StaysCharged == Spec => []LoneIsCharged
<1>1. Init => IInv
  BY InitInv
<1>2. IInv /\ [Next]_vars => IInv'
  BY StepKeeps
<1>3. IInv => LoneIsCharged
  BY LoneEntry DEF LoneIsCharged, IInv, TypeOK, CallState, Identified, Granted
<1>4. QED BY <1>1, <1>2, <1>3, PTL DEF Spec
=============================================================================
