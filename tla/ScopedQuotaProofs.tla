--------------------------- MODULE ScopedQuotaProofs ---------------------------
(***************************************************************************)
(* The scoped quota ledger, for any gateways, counters, plans, limits and   *)
(* windows, on either repository: as long as no token was borne twice, what *)
(* a reservation reads of a counter is what its attempts were charged       *)
(* (ReadIsCharged), so that attempts are granted and refused by that alone  *)
(* (GrantedExactly); and no running total falls below zero, whatever tokens *)
(* were shared (TotalsTyped).                                               *)
(*                                                                         *)
(* The invariant keeps, in each key, the entries that have not gone stale   *)
(* and the attempts that count in it as mirror images (Mirrors), the total  *)
(* as the sum of the entries (Tallies), and Redis's keys for as long as     *)
(* something in them counts (KeysKept).                                     *)
(***************************************************************************)
EXTENDS ScopedQuota, FiniteSetTheorems, TLAPS

-----------------------------------------------------------------------------
(* Sums of entries.                                                          *)

\* The entries of f for the keys in S.
Part(f, S) == [k \in S |-> f[k]]

\* The units of an entry are those below its amount.
LEMMA UnitIn ==
    ASSUME NEW f, NEW k, NEW n
    PROVE  <<k, n>> \in Units(f) <=> k \in DOMAIN f /\ n \in 1 .. f[k]
BY DEF Units

\* An entry has as many units as it holds.
LEMMA UnitsArePairs ==
    ASSUME NEW f, NEW u \in Units(f)
    PROVE  \E k \in DOMAIN f : \E n \in 1 .. f[k] : u = <<k, n>>
BY DEF Units

\* The units of one entry.
LEMMA UnitsOfOne ==
    ASSUME NEW k, NEW n \in Int
    PROVE  /\ IsFiniteSet({k} \X (1 .. n))
           /\ n >= 0 => Cardinality({k} \X (1 .. n)) = n
           /\ n <= 0 => Cardinality({k} \X (1 .. n)) = 0
<1>1. /\ IsFiniteSet(1 .. n) /\ Cardinality(1 .. n) \in Nat
      /\ n >= 0 => Cardinality(1 .. n) = n
      /\ n <= 0 => Cardinality(1 .. n) = 0
  BY FS_Interval
<1>2. IsFiniteSet({k}) /\ Cardinality({k}) = 1
  BY FS_Singleton
<1>3. /\ IsFiniteSet({k} \X (1 .. n))
      /\ Cardinality({k} \X (1 .. n)) = 1 * Cardinality(1 .. n)
  BY <1>1, <1>2, FS_Product
<1>4. QED BY <1>1, <1>3

\* A finite ledger has finitely many units.
LEMMA UnitsFinite ==
    ASSUME NEW S, IsFiniteSet(S), NEW f \in [S -> Nat]
    PROVE  IsFiniteSet(Units(f)) /\ TotalOf(f) \in Nat
<1> DEFINE slices == {{k} \X (1 .. f[k]) : k \in S}
           g == [k \in S |-> {k} \X (1 .. f[k])]
<1>1. g \in Surjection(S, slices)
  BY DEF Surjection
<1>2. IsFiniteSet(slices)
  BY <1>1, FS_Surjection
<1>3. ASSUME NEW T \in slices
      PROVE  IsFiniteSet(T)
  <2>1. PICK k \in S : T = {k} \X (1 .. f[k])
    BY <1>3
  <2>2. f[k] \in Int
    OBVIOUS
  <2>3. QED BY <2>1, <2>2, UnitsOfOne
<1>4. IsFiniteSet(UNION slices)
  BY <1>2, <1>3, FS_UNION
<1>5. QED BY <1>4, FS_CardinalityType DEF Units, TotalOf

\* A total is that of a part and of the rest.
LEMMA TotalSplits ==
    ASSUME NEW S, IsFiniteSet(S), NEW f \in [S -> Nat], NEW A \in SUBSET S
    PROVE  TotalOf(f) = TotalOf(Part(f, A)) + TotalOf(Part(f, S \ A))
<1> DEFINE a == Part(f, A)
           b == Part(f, S \ A)
<1>1. IsFiniteSet(A) /\ IsFiniteSet(S \ A)
  BY FS_Subset
<1>2. a \in [A -> Nat] /\ b \in [S \ A -> Nat]
  BY DEF Part
<1>3. /\ IsFiniteSet(Units(a)) /\ Cardinality(Units(a)) \in Nat
      /\ IsFiniteSet(Units(b)) /\ Cardinality(Units(b)) \in Nat
  BY <1>1, <1>2, UnitsFinite DEF TotalOf
<1>4. Units(f) = Units(a) \cup Units(b)
  BY DEF Units, Part
<1>5. Units(a) \cap Units(b) = {}
  BY DEF Units, Part
<1>6. Cardinality(Units(a) \cap Units(b)) = 0
  BY <1>5, FS_EmptySet
<1>7. Cardinality(Units(a) \cup Units(b))
         = Cardinality(Units(a)) + Cardinality(Units(b)) - Cardinality(Units(a) \cap Units(b))
  BY <1>3, FS_Union
<1> HIDE DEF a, b
<1>8. Cardinality(Units(f)) = Cardinality(Units(a)) + Cardinality(Units(b))
  BY <1>3, <1>4, <1>6, <1>7
<1>9. QED BY <1>8 DEF TotalOf, a, b

\* The total of a single entry.
LEMMA TotalOfOne ==
    ASSUME NEW k, NEW n \in Nat
    PROVE  TotalOf([x \in {k} |-> n]) = n
<1> DEFINE f == [x \in {k} |-> n]
<1>1. Units(f) = {k} \X (1 .. n)
  BY DEF Units
<1>2. n \in Int /\ n >= 0
  OBVIOUS
<1> HIDE DEF f
<1>3. Cardinality({k} \X (1 .. n)) = n
  BY <1>2, UnitsOfOne, Zenon
<1>4. TotalOf(f) = n
  BY <1>1, <1>3 DEF TotalOf
<1>5. QED BY <1>4 DEF f

\* An empty ledger holds nothing.
LEMMA TotalOfNone == \A f : DOMAIN f = {} => TotalOf(f) = 0
<1>1. \A f : DOMAIN f = {} => Units(f) = {}
  BY DEF Units
<1>2. QED BY <1>1, FS_EmptySet DEF TotalOf

\* Renaming the entries one to one leaves the total as it is.
LEMMA TotalRenamed ==
    ASSUME NEW S, IsFiniteSet(S), NEW f \in [S -> Nat], NEW T, NEW g \in [T -> Nat],
           NEW b \in Bijection(S, T), \A k \in S : g[b[k]] = f[k]
    PROVE  TotalOf(g) = TotalOf(f)
<1> DEFINE h == [u \in Units(f) |-> <<b[u[1]], u[2]>>]
<1>1. b \in [S -> T] /\ (\A x, y \in S : b[x] = b[y] => x = y) /\ \A t \in T : \E s \in S : b[s] = t
  BY DEF Bijection, Injection, Surjection, IsInjective
<1>2. \A u \in Units(f) : u[1] \in S /\ u[2] \in 1 .. f[u[1]] /\ u = <<u[1], u[2]>>
  BY UnitsArePairs
<1>3. \A u \in Units(f) : h[u] \in Units(g)
  BY <1>1, <1>2, UnitIn
<1>4. \A u, v \in Units(f) : h[u] = h[v] => u = v
  BY <1>1, <1>2
<1>5. ASSUME NEW w \in Units(g)
      PROVE  \E u \in Units(f) : h[u] = w
  <2>1. PICK t \in T : \E n \in 1 .. g[t] : w = <<t, n>>
    BY UnitsArePairs
  <2>a. PICK n \in 1 .. g[t] : w = <<t, n>>
    BY <2>1
  <2>2. PICK s \in S : b[s] = t
    BY <1>1
  <2>3. <<s, n>> \in Units(f)
    BY <2>a, <2>2, UnitIn
  <2>4. QED BY <2>a, <2>2, <2>3
<1> HIDE DEF h
<1>6. h \in [Units(f) -> Units(g)]
  BY <1>3 DEF h
<1>7. h \in Bijection(Units(f), Units(g))
  BY <1>4, <1>5, <1>6 DEF Bijection, Injection, Surjection, IsInjective
<1>8. IsFiniteSet(Units(f))
  BY UnitsFinite
<1>9. QED BY <1>7, <1>8, FS_Bijection DEF TotalOf, ExistsBijection

\* Entries that are kept and entries that are dropped make up the whole.
LEMMA AmountsSplit ==
    ASSUME NEW S, IsFiniteSet(S), NEW g \in [S -> Entry], NEW D \in SUBSET S
    PROVE  /\ AmountsOf(g, S) = AmountsOf(g, D) + AmountsOf(g, S \ D)
           /\ AmountsOf(g, S) \in Nat /\ AmountsOf(g, D) \in Nat /\ AmountsOf(g, S \ D) \in Nat
<1> DEFINE f == [t \in S |-> g[t].amount]
<1>1. f \in [S -> Nat]
  BY DEF Entry
<1>2. Part(f, D) = [t \in D |-> g[t].amount] /\ Part(f, S \ D) = [t \in S \ D |-> g[t].amount]
  BY DEF Part
<1>3. Part(f, D) \in [D -> Nat] /\ Part(f, S \ D) \in [S \ D -> Nat]
  BY <1>1 DEF Part
<1>4. IsFiniteSet(D) /\ IsFiniteSet(S \ D)
  BY FS_Subset
<1>5. AmountsOf(g, S) = TotalOf(f)
  BY DEF AmountsOf
<1> HIDE DEF f
<1>6. AmountsOf(g, D) = TotalOf(Part(f, D)) /\ AmountsOf(g, S \ D) = TotalOf(Part(f, S \ D))
  BY <1>2 DEF AmountsOf
<1>7. TotalOf(f) \in Nat /\ TotalOf(Part(f, D)) \in Nat /\ TotalOf(Part(f, S \ D)) \in Nat
  BY <1>1, <1>3, <1>4, UnitsFinite
<1>8. TotalOf(f) = TotalOf(Part(f, D)) + TotalOf(Part(f, S \ D))
  BY <1>1, TotalSplits
<1>9. QED BY <1>5, <1>6, <1>7, <1>8

\* The sum over some entries depends on their amounts alone.
LEMMA AmountsSame ==
    ASSUME NEW g, NEW h, NEW D, \A t \in D : g[t].amount = h[t].amount
    PROVE  AmountsOf(g, D) = AmountsOf(h, D)
<1>1. [t \in D |-> g[t].amount] = [t \in D |-> h[t].amount]
  OBVIOUS
<1>2. QED BY <1>1 DEF AmountsOf

\* The sum over one entry is its amount.
LEMMA AmountsOfOne ==
    ASSUME NEW g, NEW t, NEW n \in Nat, g[t].amount = n
    PROVE  AmountsOf(g, {t}) = n
<1>1. [x \in {t} |-> g[x].amount] = [x \in {t} |-> n]
  OBVIOUS
<1>2. AmountsOf(g, {t}) = TotalOf([x \in {t} |-> g[x].amount])
  BY DEF AmountsOf
<1>3. AmountsOf(g, {t}) = TotalOf([x \in {t} |-> n])
  BY <1>1, <1>2, Zenon
<1>4. TotalOf([x \in {t} |-> n]) = n
  BY TotalOfOne
<1>5. QED BY <1>3, <1>4

\* An entry that is set takes the place of what was there.
LEMMA AmountsSet ==
    ASSUME NEW S, IsFiniteSet(S), NEW g \in [S -> Entry], NEW t,
           NEW h \in [S \cup {t} -> Entry], \A x \in S \ {t} : h[x].amount = g[x].amount
    PROVE  /\ AmountsOf(h, S \cup {t}) \in Nat /\ AmountsOf(g, S) \in Nat
           /\ t \notin S => AmountsOf(h, S \cup {t}) = AmountsOf(g, S) + h[t].amount
           /\ t \in S => AmountsOf(h, S \cup {t}) = AmountsOf(g, S) - g[t].amount + h[t].amount
<1> DEFINE U == S \cup {t}
           rest == S \ {t}
<1>1. IsFiniteSet(U) /\ rest = U \ {t} /\ {t} \subseteq U /\ h \in [U -> Entry]
  BY FS_AddElement
<1>2. h[t].amount \in Nat /\ AmountsOf(h, {t}) = h[t].amount
  <2>1. h[t] \in Entry
    OBVIOUS
  <2>2. QED BY <2>1, AmountsOfOne DEF Entry
<1>3. AmountsOf(h, rest) = AmountsOf(g, rest)
  BY AmountsSame
<1>4. /\ AmountsOf(h, U) = AmountsOf(h, {t}) + AmountsOf(h, rest)
      /\ AmountsOf(h, U) \in Nat /\ AmountsOf(h, rest) \in Nat
  BY <1>1, AmountsSplit
<1>5. CASE t \notin S
  <2>1. AmountsOf(h, rest) = AmountsOf(g, S)
    <3>1. rest = S
      BY <1>5
    <3>2. QED BY <1>3, <3>1, Zenon
  <2>2. AmountsOf(g, S) \in Nat
    <3>1. {} \in SUBSET S
      OBVIOUS
    <3>2. QED BY <3>1, AmountsSplit
  <2>3. AmountsOf(h, U) = AmountsOf(g, S) + h[t].amount
    <3> HIDE DEF U, rest
    <3>1. QED BY <1>2, <1>4, <2>1, <2>2
  <2>4. QED BY <1>4, <1>5, <2>2, <2>3
<1>6. CASE t \in S
  <2>1. {t} \in SUBSET S /\ g[t] \in Entry
    BY <1>6
  <2>2. /\ AmountsOf(g, S) = AmountsOf(g, {t}) + AmountsOf(g, rest)
        /\ AmountsOf(g, S) \in Nat /\ AmountsOf(g, rest) \in Nat
    BY <2>1, AmountsSplit
  <2>3. AmountsOf(g, {t}) = g[t].amount /\ g[t].amount \in Nat
    BY <2>1, AmountsOfOne DEF Entry
  <2>4. QED BY <1>2, <1>3, <1>4, <1>6, <2>2, <2>3
<1>7. QED BY <1>5, <1>6

\* A ledger of ones holds as much as it has entries.
LEMMA TotalOfOnes ==
    ASSUME NEW S, IsFiniteSet(S), NEW f \in [S -> Nat], \A t \in S : f[t] = 1
    PROVE  TotalOf(f) = Cardinality(S)
<1>1. Units(f) = S \X {1}
  <2>1. \A u \in Units(f) : u \in S \X {1}
    BY UnitsArePairs
  <2>2. \A u \in S \X {1} : u \in Units(f)
    BY UnitIn
  <2>3. QED BY <2>1, <2>2
<1>2. IsFiniteSet({1}) /\ Cardinality({1}) = 1
  BY FS_Singleton
<1>3. Cardinality(S \X {1}) = Cardinality(S) * 1 /\ Cardinality(S) \in Nat
  BY <1>2, FS_Product, FS_CardinalityType
<1>4. QED BY <1>1, <1>3 DEF TotalOf

\* Days follow one another.
LEMMA DaysPass ==
    ASSUME NEW n \in Nat
    PROVE  /\ n \div Day \in Nat
           /\ (n \div Day) * Day <= n
           /\ \A d \in Nat : d * Day <= n => d <= n \div Day
           /\ \A m \in Nat : m <= n => m \div Day <= n \div Day
<1>1. Day \in Nat /\ Day > 0
  BY ConstantsAssumption
<1>2. n \div Day \in Nat /\ (n \div Day) * Day <= n
  BY <1>1
<1>3. ASSUME NEW d \in Nat, d * Day <= n
      PROVE  d <= n \div Day
  <2> DEFINE q == n \div Day
             r == n % Day
  <2>1. q \in Nat /\ r \in 0 .. (Day - 1) /\ n = Day * q + r
    BY <1>1
  <2>2. CASE d > q
    <3>1. d >= q + 1
      BY <2>1, <2>2
    <3> HIDE DEF q, r
    <3>2. d * Day >= (q + 1) * Day
      BY <1>1, <2>1, <3>1
    <3>3. (q + 1) * Day = Day * q + Day
      BY <1>1, <2>1
    <3>4. QED BY <1>1, <1>3, <2>1, <3>2, <3>3
  <2>3. QED BY <2>1, <2>2
<1>4. ASSUME NEW m \in Nat, m <= n
      PROVE  m \div Day <= n \div Day
  <2>1. m \div Day \in Nat /\ (m \div Day) * Day <= m
    BY <1>1
  <2> DEFINE d == m \div Day
  <2>2. d * Day <= n /\ d \in Nat
    <3> HIDE DEF d
    <3>1. d \in Nat /\ d * Day <= m /\ d * Day \in Nat
      BY <1>1, <2>1 DEF d
    <3>2. QED BY <1>4, <3>1
  <2> HIDE DEF d
  <2>3. d <= n \div Day
    BY <1>3, <2>2
  <2>4. QED BY <2>3 DEF d
<1>5. QED BY <1>2, <1>3, <1>4
-----------------------------------------------------------------------------
(* The inductive invariant.                                                  *)

Typed ==
    /\ backend \in {"memory", "redis"}
    /\ now \in 0..MaxTime
    /\ restarts \in 0..MaxRestarts
    /\ ticket \in [Gateway -> Nat]
    /\ entries = [k \in Key |-> entries[k]]
    /\ \A k \in Key : /\ entries[k] \in [DOMAIN entries[k] -> Entry]
                      /\ DOMAIN entries[k] \subseteq Token
                      /\ IsFiniteSet(DOMAIN entries[k])
    /\ total \in [Key -> Int]
    /\ ttl \in [Key -> Nat]
    /\ attempt \in [Attempt -> AttemptState]
    /\ collided \in BOOLEAN

\* What an attempt says of its reservation: it was granted no later than now, and not
\* before the day it was planned for.
Consistent(s) ==
    /\ s.day \in 0..(MaxTime \div Day) /\ s.day * Day <= now
    /\ s.charged => s.at <= now /\ s.day * Day <= s.at
    /\ s.phase \in {"held", "settled"} => s.charged
    /\ s.phase \in {"new", "planned", "held", "settled"} => ~s.released
    /\ s.phase \in {"new", "planned", "refused"} => ~s.charged
    /\ backend = "memory" => s.gateway = Local

Planned == \A a \in Attempt : Consistent(attempt[a])

\* Redis keeps a key for two windows after any reservation that counts in it; memory
\* keeps all.
KeysKept ==
    \A k \in Key :
       /\ backend = "memory" => ttl[k] = 0
       /\ backend = "redis" => \A a \in Attempt :
             Counts(a, k) => ttl[k] >= attempt[a].at + 2 * Length(k[1]) \/ ~Current(k)

\* What an attempt was charged in a key.
Weight(a, k) == IF k[1] \in Tokens THEN attempt[a].spent ELSE 1

\* The entry of an attempt that counts is there, with what it was charged.
Entered(a, k) ==
    LET token == attempt[a].token
    IN  /\ token \in DOMAIN entries[k]
        /\ entries[k][token].amount = Weight(a, k)
        /\ Window[k[1]] # "day" => entries[k][token].until = attempt[a].at + Length(k[1])

\* An attempt that counts in a key, or may still change its entry there.
Bears(a, k) ==
    /\ attempt[a].charged /\ k \in PlanKeys(a)
    /\ attempt[a].phase \in {"held", "settled"} \/ Counts(a, k)

Present(k) == DOMAIN entries[k] \ Stale(k)

\* Entries that count and attempts that count are the same.
Mirrors(k) ==
    /\ \A a \in Attempt : Counts(a, k) => Entered(a, k)
    /\ \A t \in Present(k) : \E a \in Attempt : Counts(a, k) /\ attempt[a].token = t
    /\ \A a, b \in Attempt :
          Bears(a, k) /\ Bears(b, k) /\ attempt[a].token = attempt[b].token => a = b

\* The running total of a key is the sum of its entries.
Tallies(k) ==
    Window[k[1]] # "in_flight" => total[k] = AmountsOf(entries[k], DOMAIN entries[k])

Agrees == ~collided => \A k \in Key : (Current(k) => Mirrors(k)) /\ Tallies(k)

IInv == Typed /\ Planned /\ KeysKept /\ Agrees

-----------------------------------------------------------------------------
(* Types, and what an attempt says of itself.                                *)

\* Windows, leases and amounts are numbers.
LEMMA Sizes ==
    ASSUME NEW c \in Counter
    PROVE  /\ Length(c) \in Nat /\ Length(c) > 0 /\ Until(c) = IF Window[c] = "day" THEN now + 2 * Day ELSE now + Length(c)
           /\ Amount(c) \in Nat /\ Window[c] \in {"in_flight", "minute", "day"}
           /\ Window[c] = "in_flight" => Length(c) = Lease /\ c \notin Tokens
           /\ Window[c] = "minute" => Length(c) = Minute
           /\ Window[c] = "day" => Length(c) = Day
BY ConstantsAssumption DEF Length, Until, Amount

\* The counters of a plan have keys.
LEMMA PlanKeysAre ==
    ASSUME Typed, Planned, NEW a \in Attempt
    PROVE  /\ PlanKeys(a) \subseteq Key
           /\ \A k \in PlanKeys(a) : k[1] \in Counter /\ (Window[k[1]] = "day" => k[2] = attempt[a].day)
<1>1. attempt[a].plan \subseteq Counter /\ attempt[a].day \in 0..(MaxTime \div Day)
  BY DEF Typed, Planned, Consistent, AttemptState
<1>2. MaxTime \div Day \in Nat
  BY DaysPass, ConstantsAssumption
<1>3. \A c \in Counter : KeyOf(c, attempt[a].day) \in Key
  BY <1>1, <1>2 DEF KeyOf, Key
<1>4. QED BY <1>1, <1>3 DEF PlanKeys, KeyOf, Key

\* A key is a counter and a day.
LEMMA KeysAre == \A k \in Key : k[1] \in Counter /\ k[2] \in Nat
<1>1. MaxTime \div Day \in Nat
  BY DaysPass, ConstantsAssumption
<1>2. QED BY <1>1 DEF Key

\* An attempt that is as it was, but for its end.
Same(s, r) ==
    /\ r.charged = s.charged
    /\ s.charged => /\ r.plan = s.plan /\ r.day = s.day /\ r.token = s.token
                    /\ r.at = s.at /\ r.spent = s.spent /\ r.released = s.released
    /\ r.charged /\ r.phase \in {"held", "settled"} => s.phase \in {"held", "settled"}

\* What a step leaves to an attempt in a key.
Alike(a, k) ==
    /\ Counts(a, k)' <=> Counts(a, k)
    /\ Bears(a, k)' => Bears(a, k)
    /\ Bears(a, k) => /\ attempt'[a].token = attempt[a].token
                      /\ attempt'[a].at = attempt[a].at
                      /\ attempt'[a].spent = attempt[a].spent

\* An attempt that is as it was but for its end counts where it counted.
LEMMA SameAlike ==
    ASSUME NEW a \in Attempt, Same(attempt[a], attempt'[a]), now' = now, NEW k
    PROVE  Alike(a, k)
<1>1. attempt[a].charged => PlanKeys(a)' = PlanKeys(a)
  BY DEF Same, PlanKeys
<1>2. Counts(a, k)' <=> Counts(a, k)
  BY <1>1 DEF Same, Counts
<1>3. Bears(a, k)' => Bears(a, k)
  BY <1>1, <1>2 DEF Same, Bears
<1>4. QED BY <1>2, <1>3 DEF Alike, Same, Bears

\* An attempt that counts in a key has a share in it.
LEMMA CountsBears ==
    ASSUME NEW a, NEW k, Counts(a, k)
    PROVE  Bears(a, k)
BY DEF Counts, Bears

\* The entry of an attempt that counts is not stale.
LEMMA CountsPresent ==
    ASSUME Typed, NEW k \in Key, NEW a \in Attempt, Counts(a, k), Entered(a, k)
    PROVE  attempt[a].token \in Present(k)
<1>1. k[1] \in Counter
  BY KeysAre
<1>2. Window[k[1]] # "day" => attempt[a].at + Length(k[1]) > now
  BY <1>1, Sizes DEF Counts
<1>3. Window[k[1]] # "day" => ~(entries[k][attempt[a].token].until <= now)
  <2>1. attempt[a].at \in Nat /\ Length(k[1]) \in Nat /\ now \in Nat
    BY <1>1, Sizes DEF Typed, AttemptState
  <2>2. QED BY <1>2, <2>1 DEF Entered
<1>4. QED BY <1>3 DEF Entered, Present, Stale
-----------------------------------------------------------------------------
(* What pruning leaves.                                                      *)

\* What is taken from a key is stale, and the rest is as it was.
Thins(e, k) ==
    /\ e \in [DOMAIN e -> Entry] /\ IsFiniteSet(DOMAIN e)
    /\ DOMAIN e \subseteq DOMAIN entries[k] /\ DOMAIN entries[k] \ DOMAIN e \subseteq Stale(k)
    /\ \A t \in DOMAIN e : e[t] = entries[k][t]

\* A key that is left alone is pruned of nothing.
LEMMA SelfThins ==
    ASSUME Typed, NEW k \in Key
    PROVE  Thins(entries[k], k)
BY DEF Typed, Thins

\* Without what is stale, a key holds what counts, and its total is the sum of that.
LEMMA PrunedIs ==
    ASSUME Typed, NEW k \in Key
    PROVE  /\ Thins(Restrict(entries[k], DOMAIN entries[k] \ Stale(k)), k)
           /\ DOMAIN Restrict(entries[k], DOMAIN entries[k] \ Stale(k)) = Present(k)
           /\ PrunedTotal(k) \in Int
           /\ Tallies(k) /\ Window[k[1]] # "in_flight" => PrunedTotal(k) = AmountsOf(entries[k], Present(k))
<1> DEFINE e == entries[k]
           r == Restrict(e, DOMAIN e \ Stale(k))
<1>1. e \in [DOMAIN e -> Entry] /\ IsFiniteSet(DOMAIN e) /\ total[k] \in Int
  BY DEF Typed
<1>2. Stale(k) \in SUBSET DOMAIN e
  BY DEF Stale
<1>3. DOMAIN r = DOMAIN e \ Stale(k) /\ \A t \in DOMAIN r : r[t] = e[t]
  BY DEF Restrict
<1>4. r \in [DOMAIN r -> Entry] /\ IsFiniteSet(DOMAIN r)
  <2>1. IsFiniteSet(DOMAIN e \ Stale(k))
    BY <1>1, FS_Difference
  <2>2. r \in [DOMAIN e \ Stale(k) -> Entry]
    BY <1>1 DEF Restrict
  <2>3. QED BY <1>3, <2>1, <2>2
<1>5. /\ AmountsOf(e, DOMAIN e) = AmountsOf(e, Stale(k)) + AmountsOf(e, Present(k))
      /\ AmountsOf(e, DOMAIN e) \in Nat /\ AmountsOf(e, Stale(k)) \in Nat /\ AmountsOf(e, Present(k)) \in Nat
  BY <1>1, <1>2, AmountsSplit DEF Present
<1>6. Thins(r, k) /\ DOMAIN r = Present(k)
  BY <1>2, <1>3, <1>4 DEF Thins, Present
<1>7. PrunedTotal(k) \in Int
  BY <1>1, <1>5 DEF PrunedTotal
<1>8. ASSUME Tallies(k), Window[k[1]] # "in_flight"
      PROVE  PrunedTotal(k) = AmountsOf(e, Present(k))
  <2>1. total[k] = AmountsOf(e, DOMAIN e)
    BY <1>8 DEF Tallies
  <2>2. CASE Window[k[1]] = "minute"
    <3>1. PrunedTotal(k) = total[k] - AmountsOf(e, Stale(k))
      BY <2>2 DEF PrunedTotal
    <3> HIDE DEF e
    <3>2. QED BY <1>5, <2>1, <3>1
  <2>3. CASE Window[k[1]] # "minute"
    <3>1. Window[k[1]] = "day"
      BY <1>8, <2>3, KeysAre, Sizes
    <3>2. Stale(k) = {} /\ PrunedTotal(k) = total[k]
      BY <3>1 DEF Stale, PrunedTotal
    <3>3. Present(k) = DOMAIN e
      BY <3>2 DEF Present
    <3>4. QED BY <2>1, <3>2, <3>3
  <2>4. QED BY <2>2, <2>3
<1>9. QED BY <1>6, <1>7, <1>8

\* What a reservation leaves of a key it pruned, or of one it did not ask for.
LEMMA RemainingIs ==
    ASSUME Typed, Planned, NEW a \in Attempt, NEW k \in Key
    PROVE  /\ Thins(Remaining(a, k), k)
           /\ k \in PlanKeys(a) => DOMAIN Remaining(a, k) = Present(k)
           /\ RemainingTotal(a, k) \in Int
           /\ Tallies(k) /\ Window[k[1]] # "in_flight"
                 => RemainingTotal(a, k) = AmountsOf(Remaining(a, k), DOMAIN Remaining(a, k))
<1>1. CASE k \in PrunedKeys(a)
  <2> DEFINE r == Restrict(entries[k], DOMAIN entries[k] \ Stale(k))
  <2>1. Remaining(a, k) = r /\ RemainingTotal(a, k) = PrunedTotal(k)
    BY <1>1 DEF Remaining, RemainingTotal
  <2>2. Thins(r, k) /\ DOMAIN r = Present(k)
    BY PrunedIs
  <2>3. AmountsOf(r, Present(k)) = AmountsOf(entries[k], Present(k))
    BY <2>2, AmountsSame DEF Thins
  <2> HIDE DEF r
  <2>4. QED BY <2>1, <2>2, <2>3, PrunedIs
<1>2. CASE k \notin PrunedKeys(a)
  <2>1. Remaining(a, k) = entries[k] /\ RemainingTotal(a, k) = total[k]
    BY <1>2 DEF Remaining, RemainingTotal
  <2>2. k \notin PlanKeys(a)
    BY <1>2 DEF PrunedKeys
  <2>3. QED BY <2>1, <2>2, SelfThins DEF Typed, Tallies
<1>3. QED BY <1>1, <1>2

-----------------------------------------------------------------------------
(* What keeps a key in agreement with its attempts.                          *)

\* Pruning, while attempts stay as they are.
LEMMA ThinnedMirrors ==
    ASSUME Typed, NEW k \in Key, Mirrors(k), now' = now,
           Thins(entries'[k], k), \A a \in Attempt : Alike(a, k)
    PROVE  Mirrors(k)'
<1>1. Stale(k)' = Stale(k) \cap DOMAIN entries'[k]
  BY DEF Stale, Thins
<1>2. Present(k)' = Present(k)
  BY <1>1 DEF Present, Thins
<1>3. ASSUME NEW a \in Attempt, Counts(a, k)'
      PROVE  Entered(a, k)'
  <2>1. Counts(a, k) /\ Bears(a, k)
    BY <1>3, CountsBears DEF Alike
  <2>2. Entered(a, k) /\ attempt[a].token \in Present(k)
    BY <2>1, CountsPresent DEF Mirrors
  <2>3. /\ attempt'[a].token = attempt[a].token /\ attempt'[a].at = attempt[a].at
        /\ attempt'[a].spent = attempt[a].spent
    BY <2>1 DEF Alike
  <2>4. attempt[a].token \in DOMAIN entries'[k]
    BY <1>2, <2>2 DEF Present
  <2>5. entries'[k][attempt[a].token] = entries[k][attempt[a].token]
    BY <2>4 DEF Thins
  <2>6. QED BY <2>2, <2>3, <2>4, <2>5 DEF Entered, Weight
<1>4. ASSUME NEW t \in Present(k)'
      PROVE  \E a \in Attempt : Counts(a, k)' /\ attempt'[a].token = t
  <2>1. PICK a \in Attempt : Counts(a, k) /\ attempt[a].token = t
    BY <1>2, <1>4 DEF Mirrors
  <2>2. QED BY <2>1, CountsBears DEF Alike
<1>5. ASSUME NEW a \in Attempt, NEW b \in Attempt, Bears(a, k)', Bears(b, k)',
             attempt'[a].token = attempt'[b].token
      PROVE  a = b
  BY <1>5 DEF Alike, Mirrors
<1>6. QED BY <1>3, <1>4, <1>5 DEF Mirrors

\* The keys that a step leaves as they are.
LEMMA SameTallies ==
    ASSUME NEW k \in Key, Tallies(k), entries'[k] = entries[k], total'[k] = total[k]
    PROVE  Tallies(k)'
BY DEF Tallies
-----------------------------------------------------------------------------
(* The steps, for the keys they write.                                       *)

\* What Grant does to the attempt.
LEMMA GrantIs ==
    ASSUME Typed, Planned, NEW a \in Attempt, Grant(a)
    PROVE  /\ now' = now /\ attempt' \in [Attempt -> AttemptState]
           /\ \A b \in Attempt : b # a => attempt'[b] = attempt[b]
           /\ ~attempt[a].charged /\ attempt[a].phase = "planned"
           /\ attempt'[a].charged /\ attempt'[a].at = now /\ attempt'[a].spent = Estimate
           /\ attempt'[a].phase \in {"held", "ended"} /\ ~attempt'[a].released
           /\ attempt'[a].plan = attempt[a].plan /\ attempt'[a].day = attempt[a].day
           /\ attempt'[a].token = attempt[a].token /\ attempt'[a].gateway = attempt[a].gateway
           /\ PlanKeys(a)' = PlanKeys(a)
<1>1. PICK phase \in {"held", "ended"} :
          attempt' = [attempt EXCEPT ![a].phase = phase, ![a].charged = TRUE,
                                     ![a].at = now, ![a].spent = Estimate]
  BY DEF Grant
<1>2. attempt \in [Attempt -> AttemptState] /\ now \in Nat /\ Estimate \in Nat
  BY ConstantsAssumption DEF Typed
<1>3. attempt[a].phase = "planned" /\ ~attempt[a].charged /\ ~attempt[a].released /\ now' = now
  BY DEF Grant, Planned, Consistent
<1>4. /\ attempt'[a] = [attempt[a] EXCEPT !.phase = phase, !.charged = TRUE,
                                          !.at = now, !.spent = Estimate]
      /\ \A b \in Attempt : b # a => attempt'[b] = attempt[b]
  BY <1>1, <1>2
<1>5. attempt'[a] \in AttemptState
  BY <1>2, <1>4 DEF AttemptState
<1>6. attempt' \in [Attempt -> AttemptState]
  <2>1. attempt' = [b \in Attempt |-> attempt'[b]]
    BY <1>1, <1>2
  <2>2. \A b \in Attempt : attempt'[b] \in AttemptState
    BY <1>2, <1>4, <1>5
  <2>3. QED BY <2>1, <2>2
<1>7. QED BY <1>2, <1>3, <1>4, <1>6 DEF AttemptState, PlanKeys

\* The entry that a grant makes.
New(c) == [until |-> Until(c), amount |-> Amount(c)]

\* What Grant does to a key of the plan.
LEMMA GrantEnters ==
    ASSUME Typed, Planned, NEW a \in Attempt, Grant(a), NEW k \in PlanKeys(a)
    PROVE  /\ DOMAIN entries'[k] = DOMAIN Remaining(a, k) \cup {attempt[a].token}
           /\ entries'[k] \in [DOMAIN entries'[k] -> Entry] /\ IsFiniteSet(DOMAIN entries'[k])
           /\ entries'[k][attempt[a].token] = New(k[1])
           /\ \A t \in DOMAIN Remaining(a, k) \ {attempt[a].token} : entries'[k][t] = entries[k][t]
           /\ total'[k] = IF Window[k[1]] # "in_flight"
                          THEN RemainingTotal(a, k) + Amount(k[1]) ELSE RemainingTotal(a, k)
           /\ ttl'[k] = IF backend = "redis" THEN now + 2 * Length(k[1]) ELSE ttl[k]
           /\ ~collided' => attempt[a].token \notin DOMAIN Remaining(a, k) \cup HeldTokens(k)
<1>1. k \in Key /\ k[1] \in Counter
  BY PlanKeysAre
<1> DEFINE token == attempt[a].token
           r == Remaining(a, k)
<1>2. /\ entries'[k] = [t \in DOMAIN r \cup {token} |-> IF t = token THEN New(k[1]) ELSE entries[k][t]]
      /\ total'[k] = IF Window[k[1]] # "in_flight"
                     THEN RemainingTotal(a, k) + Amount(k[1]) ELSE RemainingTotal(a, k)
      /\ ttl'[k] = IF backend = "redis" THEN now + 2 * Length(k[1]) ELSE ttl[k]
      /\ ~collided' => token \notin DOMAIN r \cup HeldTokens(k)
  BY <1>1 DEF Grant, Charge, New
<1>3. Thins(r, k)
  BY <1>1, RemainingIs
<1>4. IsFiniteSet(DOMAIN r \cup {token})
  BY <1>3, FS_AddElement DEF Thins
<1>5. New(k[1]) \in Entry
  BY <1>1, Sizes, ConstantsAssumption DEF New, Entry, Typed
<1>6. \A t \in DOMAIN r : entries[k][t] \in Entry
  BY <1>1, <1>3 DEF Thins, Typed
<1> HIDE DEF r, token
<1>7. /\ DOMAIN entries'[k] = DOMAIN r \cup {token}
      /\ entries'[k] \in [DOMAIN r \cup {token} -> Entry]
      /\ entries'[k][token] = New(k[1])
      /\ \A t \in DOMAIN r \ {token} : entries'[k][t] = entries[k][t]
  BY <1>2, <1>5, <1>6
<1>8. QED BY <1>2, <1>4, <1>7 DEF r, token

\* An attempt that was granted counts in its plan's keys, and no token of theirs is its own
\* unless it collides.
LEMMA GrantMirrors ==
    ASSUME Typed, Planned, NEW a \in Attempt, Grant(a), NEW k \in PlanKeys(a),
           ~collided', Mirrors(k)
    PROVE  Mirrors(k)'
<1> DEFINE token == attempt[a].token
           r == Remaining(a, k)
<1>1. k \in Key /\ k[1] \in Counter /\ Length(k[1]) > 0 /\ Length(k[1]) \in Nat /\ now \in Nat
  BY PlanKeysAre, Sizes DEF Typed
<1>2. Thins(r, k) /\ DOMAIN r = Present(k)
  BY <1>1, RemainingIs
<1>3. /\ DOMAIN entries'[k] = DOMAIN r \cup {token} /\ token \notin DOMAIN r
      /\ entries'[k] \in [DOMAIN r \cup {token} -> Entry]
      /\ entries'[k][token] = New(k[1]) /\ token \notin HeldTokens(k)
      /\ \A t \in DOMAIN r : entries'[k][t] = entries[k][t]
  <2>1. /\ DOMAIN entries'[k] = DOMAIN r \cup {token}
        /\ entries'[k] \in [DOMAIN entries'[k] -> Entry]
        /\ entries'[k][token] = New(k[1])
        /\ \A t \in DOMAIN r \ {token} : entries'[k][t] = entries[k][t]
        /\ token \notin DOMAIN r \cup HeldTokens(k)
    BY GrantEnters
  <2> HIDE DEF token, r
  <2>2. QED BY <2>1
<1>4. \A b \in Attempt : b # a => Same(attempt[b], attempt'[b])
  BY GrantIs DEF Same
<1>5. \A b \in Attempt : b # a => Alike(b, k)
  BY <1>4, SameAlike, GrantIs
<1>6. ~Counts(a, k) /\ ~Bears(a, k)
  BY GrantIs DEF Counts, Bears
<1>7. Counts(a, k)' /\ attempt'[a].token = token
  <2>1. now + Length(k[1]) > now
    BY <1>1
  <2>2. QED BY <2>1, <1>1, Sizes, GrantIs DEF Counts
<1>8. \A b \in Attempt : Counts(b, k) => Entered(b, k) /\ attempt[b].token \in DOMAIN r
  BY <1>1, <1>2, CountsPresent DEF Mirrors
<1>9. \A b \in Attempt : Bears(b, k) => attempt[b].token # token
  <2>1. ASSUME NEW b \in Attempt, Bears(b, k)
        PROVE  attempt[b].token # token
    <3>1. CASE Counts(b, k)
      BY <3>1, <1>3, <1>8
    <3>2. CASE attempt[b].phase \in {"held", "settled"}
      <4>1. attempt[b].token \in HeldTokens(k)
        BY <2>1, <3>2 DEF HeldTokens, Bears
      <4>2. QED BY <4>1, <1>3
    <3>3. QED BY <2>1, <3>1, <3>2 DEF Bears
  <2>2. QED BY <2>1
<1> HIDE DEF token, r
<1>10. ASSUME NEW b \in Attempt, Counts(b, k)'
       PROVE  Entered(b, k)'
  <2>1. CASE b = a
    <3>1. Weight(a, k)' = Amount(k[1])
      BY GrantIs DEF Weight, Amount
    <3>2. /\ New(k[1]).amount = Amount(k[1])
          /\ Window[k[1]] # "day" => New(k[1]).until = now + Length(k[1])
      BY <1>1, Sizes DEF New
    <3>3. attempt'[a].at = now /\ attempt'[a].token = token
      BY GrantIs DEF token
    <3>4. QED BY <1>3, <2>1, <3>1, <3>2, <3>3 DEF Entered
  <2>2. CASE b # a
    <3>1. Counts(b, k) /\ Bears(b, k)
      BY <1>5, <1>10, <2>2, CountsBears DEF Alike
    <3>2. entries'[k][attempt[b].token] = entries[k][attempt[b].token] /\ attempt[b].token \in DOMAIN entries'[k]
      BY <1>3, <1>8, <3>1
    <3>3. attempt'[b] = attempt[b]
      BY <2>2, GrantIs
    <3>4. QED BY <1>8, <3>1, <3>2, <3>3 DEF Entered, Weight
  <2>3. QED BY <2>1, <2>2
<1>11. ASSUME NEW t \in Present(k)'
       PROVE  \E b \in Attempt : Counts(b, k)' /\ attempt'[b].token = t
  <2>1. CASE t = token
    BY <2>1, <1>7
  <2>2. CASE t # token
    <3>1. t \in Present(k)
      BY <1>2, <1>3, <1>11, <2>2 DEF Present
    <3>2. PICK b \in Attempt : Counts(b, k) /\ attempt[b].token = t
      BY <3>1 DEF Mirrors
    <3>3. b # a
      BY <1>6, <3>2
    <3>4. QED BY <1>5, <3>2, <3>3, CountsBears DEF Alike
  <2>3. QED BY <2>1, <2>2
<1>12. ASSUME NEW b \in Attempt, NEW c \in Attempt, Bears(b, k)', Bears(c, k)',
              attempt'[b].token = attempt'[c].token
       PROVE  b = c
  <2>1. \A d \in Attempt : d # a /\ Bears(d, k)' => Bears(d, k) /\ attempt'[d].token = attempt[d].token
                                                    /\ attempt'[d].token # token
    BY <1>5, <1>9 DEF Alike
  <2>2. QED BY <1>7, <1>12, <2>1 DEF Mirrors
<1>13. QED BY <1>10, <1>11, <1>12 DEF Mirrors

\* The charge it makes is added to the total, and to the entries.
LEMMA GrantTallies ==
    ASSUME Typed, Planned, NEW a \in Attempt, Grant(a), NEW k \in PlanKeys(a),
           ~collided', Tallies(k)
    PROVE  Tallies(k)'
<1> DEFINE token == attempt[a].token
           r == Remaining(a, k)
<1>1. k \in Key /\ k[1] \in Counter
  BY PlanKeysAre
<1>2. Thins(r, k)
  BY <1>1, RemainingIs
<1>3. /\ DOMAIN entries'[k] = DOMAIN r \cup {token} /\ token \notin DOMAIN r
      /\ entries'[k] \in [DOMAIN r \cup {token} -> Entry]
      /\ entries'[k][token] = New(k[1])
      /\ \A t \in DOMAIN r : entries'[k][t] = entries[k][t]
  <2>1. /\ DOMAIN entries'[k] = DOMAIN r \cup {token}
        /\ entries'[k] \in [DOMAIN entries'[k] -> Entry]
        /\ entries'[k][token] = New(k[1])
        /\ \A t \in DOMAIN r \ {token} : entries'[k][t] = entries[k][t]
        /\ token \notin DOMAIN r \cup HeldTokens(k)
    BY GrantEnters
  <2> HIDE DEF token, r
  <2>2. QED BY <2>1
<1> HIDE DEF token, r
<1>4. CASE Window[k[1]] # "in_flight"
  <2>1. total'[k] = RemainingTotal(a, k) + Amount(k[1]) /\ RemainingTotal(a, k) = AmountsOf(r, DOMAIN r)
    BY <1>1, <1>4, GrantEnters, RemainingIs DEF r
  <2>2. \A t \in DOMAIN r \ {token} : entries'[k][t].amount = r[t].amount
    BY <1>2, <1>3 DEF Thins
  <2>3. AmountsOf(entries'[k], DOMAIN r \cup {token}) = AmountsOf(r, DOMAIN r) + entries'[k][token].amount
    BY <1>2, <1>3, <2>2, AmountsSet DEF Thins
  <2>4. entries'[k][token].amount = Amount(k[1])
    BY <1>3 DEF New
  <2>5. QED BY <1>3, <2>1, <2>3, <2>4 DEF Tallies
<1>5. QED BY <1>4 DEF Tallies

\* An attempt with the same reservation, but for what it spent.
SameBut(s, r) ==
    /\ r.plan = s.plan /\ r.day = s.day /\ r.token = s.token /\ r.gateway = s.gateway
    /\ r.charged = s.charged /\ r.at = s.at /\ r.released = s.released
    /\ r.phase \in {"held", "settled"} => s.phase \in {"held", "settled"}

\* What Settle does to the attempt.
LEMMA SettleIs ==
    ASSUME Typed, Planned, NEW a \in Attempt, NEW actual \in Actual, Settle(a, actual)
    PROVE  /\ now' = now /\ actual \in Nat /\ attempt' \in [Attempt -> AttemptState]
           /\ \A b \in Attempt : b # a => attempt'[b] = attempt[b]
           /\ attempt[a].phase = "held" /\ attempt[a].charged
           /\ attempt'[a].phase = "settled" /\ attempt'[a].spent = actual
           /\ \A b \in Attempt : SameBut(attempt[b], attempt'[b])
           /\ \A b \in Attempt : PlanKeys(b)' = PlanKeys(b)
           /\ \A b \in Attempt, k \in Key : /\ Counts(b, k)' <=> Counts(b, k)
                                            /\ Bears(b, k)' => Bears(b, k)
<1>1. attempt' = [attempt EXCEPT ![a].phase = "settled", ![a].spent = actual]
  BY DEF Settle
<1>2. attempt \in [Attempt -> AttemptState] /\ actual \in Nat
  BY ConstantsAssumption DEF Typed
<1>3. attempt[a].phase = "held" /\ attempt[a].charged /\ now' = now
  BY DEF Settle, Planned, Consistent
<1>4. /\ attempt'[a] = [attempt[a] EXCEPT !.phase = "settled", !.spent = actual]
      /\ \A b \in Attempt : b # a => attempt'[b] = attempt[b]
  BY <1>1, <1>2
<1>5. attempt'[a] \in AttemptState
  BY <1>2, <1>4 DEF AttemptState
<1>6. attempt' \in [Attempt -> AttemptState]
  <2>1. attempt' = [b \in Attempt |-> attempt'[b]]
    BY <1>1, <1>2
  <2>2. QED BY <1>2, <1>4, <1>5, <2>1
<1>7. attempt'[a].phase = "settled" /\ attempt'[a].spent = actual /\ SameBut(attempt[a], attempt'[a])
  <2>1. attempt[a] \in AttemptState
    BY <1>2
  <2>2. QED BY <1>3, <1>4, <2>1 DEF AttemptState, SameBut
<1>12. \A b \in Attempt : SameBut(attempt[b], attempt'[b])
  BY <1>4, <1>7 DEF SameBut
<1>8. \A b \in Attempt : PlanKeys(b)' = PlanKeys(b)
  BY <1>12 DEF PlanKeys, SameBut
<1>9. \A b \in Attempt, k \in Key : Counts(b, k)' <=> Counts(b, k)
  BY <1>3, <1>8, <1>12 DEF Counts, SameBut
<1>10. \A b \in Attempt, k \in Key : Bears(b, k)' => Bears(b, k)
  BY <1>8, <1>9, <1>12 DEF Bears, SameBut
<1>11. QED BY <1>2, <1>3, <1>4, <1>6, <1>7, <1>8, <1>9, <1>10, <1>12

\* What Settle does to a key: an amount is replaced where there is one.
LEMMA SettleEnters ==
    ASSUME Typed, Planned, NEW a \in Attempt, NEW actual \in Actual, Settle(a, actual), NEW k \in Key
    PROVE  /\ DOMAIN entries'[k] = DOMAIN entries[k]
           /\ entries'[k] \in [DOMAIN entries[k] -> Entry]
           /\ \A t \in DOMAIN entries[k] : entries'[k][t].until = entries[k][t].until
           /\ \A t \in DOMAIN entries[k] : t # attempt[a].token => entries'[k][t] = entries[k][t]
           /\ k \in PlanKeys(a) /\ Adjusts(a, k) =>
                 /\ entries'[k][attempt[a].token].amount = actual
                 /\ total'[k] = total[k] - entries[k][attempt[a].token].amount + actual
           /\ ~(k \in PlanKeys(a) /\ Adjusts(a, k)) => entries'[k] = entries[k] /\ total'[k] = total[k]
<1> DEFINE token == attempt[a].token
           e == entries[k]
<1>1. e \in [DOMAIN e -> Entry] /\ actual \in Nat
  BY SettleIs DEF Typed
<1>2. CASE k \in PlanKeys(a) /\ Adjusts(a, k)
  <2>1. token \in DOMAIN e
    BY <1>2 DEF Adjusts
  <2>2. /\ entries'[k] = [e EXCEPT ![token].amount = actual]
        /\ total'[k] = total[k] - e[token].amount + actual
    BY <1>2, <2>1 DEF Settle
  <2> HIDE DEF e, token
  <2>3. e[token] \in Entry /\ [e[token] EXCEPT !.amount = actual] \in Entry
    BY <1>1, <2>1 DEF Entry
  <2>4. /\ DOMAIN entries'[k] = DOMAIN e /\ entries'[k] \in [DOMAIN e -> Entry]
        /\ entries'[k][token] = [e[token] EXCEPT !.amount = actual]
        /\ \A t \in DOMAIN e : t # token => entries'[k][t] = e[t]
    BY <1>1, <2>1, <2>2, <2>3
  <2>5. entries'[k][token].until = e[token].until /\ entries'[k][token].amount = actual
    BY <2>3, <2>4 DEF Entry
  <2>6. QED BY <1>2, <2>2, <2>4, <2>5 DEF e, token
<1>3. CASE ~(k \in PlanKeys(a) /\ Adjusts(a, k))
  <2>1. entries'[k] = entries[k] /\ total'[k] = total[k]
    BY <1>3 DEF Settle
  <2>2. QED BY <1>1, <1>3, <2>1
<1>4. QED BY <1>2, <1>3

\* A settlement finds its own entry, or none.
LEMMA SettleMirrors ==
    ASSUME Typed, Planned, NEW a \in Attempt, NEW actual \in Actual, Settle(a, actual),
           NEW k \in Key, Mirrors(k)
    PROVE  Mirrors(k)'
<1> DEFINE token == attempt[a].token
<1>1. Present(k)' = Present(k)
  <2>1. now' = now /\ DOMAIN entries'[k] = DOMAIN entries[k]
    BY SettleEnters, SettleIs
  <2>2. \A t \in DOMAIN entries[k] : entries'[k][t].until = entries[k][t].until
    BY SettleEnters
  <2>3. Stale(k)' = Stale(k)
    BY <2>1, <2>2 DEF Stale
  <2>4. QED BY <2>1, <2>3 DEF Present
<1>6. \A b \in Attempt : /\ Counts(b, k)' <=> Counts(b, k)
                         /\ Bears(b, k)' => Bears(b, k)
                         /\ attempt'[b].token = attempt[b].token /\ attempt'[b].at = attempt[b].at
  BY SettleIs DEF SameBut
<1>2. ASSUME NEW b \in Attempt, Counts(b, k)'
      PROVE  Entered(b, k)'
  <2>1. Counts(b, k) /\ Bears(b, k) /\ Entered(b, k)
    BY <1>2, <1>6, CountsBears DEF Mirrors
  <2>2. attempt[b].token \in DOMAIN entries'[k] /\ attempt'[b].token = attempt[b].token
    BY <2>1, <1>6, SettleEnters DEF Entered
  <2>3. entries'[k][attempt[b].token].until = entries[k][attempt[b].token].until /\ attempt'[b].at = attempt[b].at
    BY <2>1, <1>6, SettleEnters DEF Entered
  <2>4. CASE b = a
    <3>1. k \in PlanKeys(a)
      BY <2>1, <2>4 DEF Counts
    <3>2. CASE k[1] \in Tokens
      <4>1. Adjusts(a, k)
        BY <2>1, <2>4, <3>2 DEF Adjusts, Entered
      <4>2. entries'[k][token].amount = actual
        BY <3>1, <4>1, SettleEnters
      <4>3. Weight(a, k)' = actual
        <5>1. attempt'[a].spent = actual
          BY SettleIs
        <5>2. QED BY <3>2, <5>1 DEF Weight
      <4>4. QED BY <2>1, <2>2, <2>3, <2>4, <4>2, <4>3 DEF Entered
    <3>3. CASE k[1] \notin Tokens
      <4>1. entries'[k] = entries[k]
        BY <3>3, SettleEnters DEF Adjusts
      <4>2. Weight(a, k)' = 1 /\ Weight(a, k) = 1
        BY <3>3 DEF Weight
      <4>3. QED BY <2>1, <2>2, <2>3, <2>4, <4>1, <4>2 DEF Entered
    <3>4. QED BY <3>2, <3>3
  <2>5. CASE b # a
    <3>1. attempt'[b] = attempt[b]
      BY <2>5, SettleIs
    <3>2. CASE attempt[b].token = token
      <4>1. ~Bears(a, k)
        BY <2>1, <2>5, <3>2 DEF Mirrors
      <4>2. k \notin PlanKeys(a)
        BY <4>1, SettleIs DEF Bears
      <4>3. entries'[k] = entries[k]
        BY <4>2, SettleEnters
      <4>4. QED BY <2>1, <3>1, <4>3 DEF Entered, Weight
    <3>3. CASE attempt[b].token # token
      <4>1. entries'[k][attempt[b].token] = entries[k][attempt[b].token]
        BY <2>1, <3>3, SettleEnters DEF Entered
      <4>2. QED BY <2>1, <2>2, <3>1, <4>1 DEF Entered, Weight
    <3>4. QED BY <3>2, <3>3
  <2>6. QED BY <2>4, <2>5
<1>3. ASSUME NEW t \in Present(k)'
      PROVE  \E b \in Attempt : Counts(b, k)' /\ attempt'[b].token = t
  BY <1>1, <1>3, <1>6 DEF Mirrors
<1>4. ASSUME NEW b \in Attempt, NEW c \in Attempt, Bears(b, k)', Bears(c, k)',
             attempt'[b].token = attempt'[c].token
      PROVE  b = c
  BY <1>4, <1>6 DEF Mirrors
<1>5. QED BY <1>2, <1>3, <1>4 DEF Mirrors

\* A settlement moves the total by what it moves the entry; an entry that is gone moves neither.
LEMMA SettleTallies ==
    ASSUME Typed, Planned, NEW a \in Attempt, NEW actual \in Actual, Settle(a, actual),
           NEW k \in Key, Tallies(k)
    PROVE  Tallies(k)'
<1> DEFINE token == attempt[a].token
           e == entries[k]
           f == entries'[k]
<1>1. CASE k \in PlanKeys(a) /\ Adjusts(a, k) /\ Window[k[1]] # "in_flight"
  <2>1. /\ f[token].amount = actual /\ token \in DOMAIN e
        /\ total'[k] = total[k] - e[token].amount + actual
        /\ total[k] = AmountsOf(e, DOMAIN e)
    BY <1>1, SettleEnters DEF Adjusts, Tallies
  <2>2. /\ DOMAIN f = DOMAIN e /\ f \in [DOMAIN e \cup {token} -> Entry]
        /\ \A t \in DOMAIN e \ {token} : f[t].amount = e[t].amount
    <3>1. DOMAIN e \cup {token} = DOMAIN e
      BY <2>1
    <3>2. f \in [DOMAIN e -> Entry] /\ DOMAIN f = DOMAIN e
      BY SettleEnters
    <3>3. \A t \in DOMAIN e \ {token} : f[t] = e[t]
      BY SettleEnters
    <3>4. QED BY <3>1, <3>2, <3>3
  <2>3. e \in [DOMAIN e -> Entry] /\ IsFiniteSet(DOMAIN e) /\ DOMAIN e \cup {token} = DOMAIN e
    BY <2>1 DEF Typed
  <2>4. AmountsOf(f, DOMAIN e) = AmountsOf(e, DOMAIN e) - e[token].amount + f[token].amount
    <3> HIDE DEF e, f, token
    <3>1. AmountsOf(f, DOMAIN e \cup {token}) = AmountsOf(e, DOMAIN e) - e[token].amount + f[token].amount
      BY <2>1, <2>2, <2>3, AmountsSet
    <3>2. QED BY <2>3, <3>1
  <2>5. QED BY <2>1, <2>2, <2>4 DEF Tallies
<1>2. CASE Window[k[1]] = "in_flight"
  BY <1>2 DEF Tallies
<1>3. CASE ~(k \in PlanKeys(a) /\ Adjusts(a, k))
  BY <1>3, SettleEnters, SameTallies
<1>4. QED BY <1>1, <1>2, <1>3

\* What Release does to the attempt.
LEMMA ReleaseIs ==
    ASSUME Typed, Planned, NEW a \in Attempt, Release(a)
    PROVE  /\ now' = now /\ attempt' \in [Attempt -> AttemptState] /\ total' = total
           /\ \A b \in Attempt : b # a => attempt'[b] = attempt[b]
           /\ attempt[a].phase \in {"held", "settled"} /\ attempt[a].charged
           /\ attempt'[a].phase = "ended" /\ attempt'[a].released
           /\ attempt'[a].plan = attempt[a].plan /\ attempt'[a].day = attempt[a].day
           /\ attempt'[a].token = attempt[a].token /\ attempt'[a].charged
           /\ attempt'[a].at = attempt[a].at /\ attempt'[a].spent = attempt[a].spent
           /\ attempt'[a].gateway = attempt[a].gateway
           /\ PlanKeys(a)' = PlanKeys(a)
<1>1. attempt' = [attempt EXCEPT ![a].phase = "ended", ![a].released = TRUE]
  BY DEF Release
<1>2. attempt \in [Attempt -> AttemptState]
  BY DEF Typed
<1>3. attempt[a].phase \in {"held", "settled"} /\ attempt[a].charged /\ now' = now /\ total' = total
  BY DEF Release, Planned, Consistent
<1>4. /\ attempt'[a] = [attempt[a] EXCEPT !.phase = "ended", !.released = TRUE]
      /\ \A b \in Attempt : b # a => attempt'[b] = attempt[b]
  BY <1>1, <1>2
<1>5. attempt'[a] \in AttemptState
  BY <1>2, <1>4 DEF AttemptState
<1>6. attempt' \in [Attempt -> AttemptState]
  <2>1. attempt' = [b \in Attempt |-> attempt'[b]]
    BY <1>1, <1>2
  <2>2. QED BY <1>2, <1>4, <1>5, <2>1
<1>7. /\ attempt'[a].phase = "ended" /\ attempt'[a].released
      /\ attempt'[a].plan = attempt[a].plan /\ attempt'[a].day = attempt[a].day
      /\ attempt'[a].token = attempt[a].token /\ attempt'[a].charged
      /\ attempt'[a].at = attempt[a].at /\ attempt'[a].spent = attempt[a].spent
      /\ attempt'[a].gateway = attempt[a].gateway
  <2>1. attempt[a] \in AttemptState
    BY <1>2
  <2>2. QED BY <1>3, <1>4, <2>1 DEF AttemptState
<1>8. PlanKeys(a)' = PlanKeys(a)
  BY <1>7 DEF PlanKeys
<1>9. QED BY <1>3, <1>4, <1>6, <1>7, <1>8

\* What Release does to a key: a slot loses the token.
LEMMA ReleaseLeaves ==
    ASSUME Typed, Planned, NEW a \in Attempt, Release(a), NEW k \in Key
    PROVE  /\ entries'[k] \in [DOMAIN entries'[k] -> Entry] /\ IsFiniteSet(DOMAIN entries'[k])
           /\ \A t \in DOMAIN entries'[k] : entries'[k][t] = entries[k][t]
           /\ k \in GivenBack(a) => DOMAIN entries'[k] = DOMAIN entries[k] \ {attempt[a].token}
           /\ k \notin GivenBack(a) => entries'[k] = entries[k]
<1> DEFINE e == entries[k]
           token == attempt[a].token
<1>1. e \in [DOMAIN e -> Entry] /\ IsFiniteSet(DOMAIN e)
  BY DEF Typed
<1>2. entries'[k] = IF k \in GivenBack(a) THEN Restrict(e, DOMAIN e \ {token}) ELSE e
  BY DEF Release
<1>3. IsFiniteSet(DOMAIN e \ {token})
  BY <1>1, FS_Difference
<1> HIDE DEF e, token
<1>4. CASE k \in GivenBack(a)
  <2>1. entries'[k] = [t \in DOMAIN e \ {token} |-> e[t]]
    BY <1>2, <1>4 DEF Restrict
  <2>2. /\ DOMAIN entries'[k] = DOMAIN e \ {token} /\ entries'[k] \in [DOMAIN e \ {token} -> Entry]
        /\ \A t \in DOMAIN e \ {token} : entries'[k][t] = e[t]
    BY <1>1, <2>1
  <2>3. QED BY <1>3, <1>4, <2>2 DEF e, token
<1>5. CASE k \notin GivenBack(a)
  BY <1>1, <1>2, <1>5 DEF e
<1>6. QED BY <1>4, <1>5

\* A release gives back the slot of its own attempt.
LEMMA ReleaseMirrors ==
    ASSUME Typed, Planned, NEW a \in Attempt, Release(a), NEW k \in Key, Mirrors(k)
    PROVE  Mirrors(k)'
<1> DEFINE token == attempt[a].token
<1>1. \A b \in Attempt : b # a => Same(attempt[b], attempt'[b])
  BY ReleaseIs DEF Same
<1>2. \A b \in Attempt : b # a => Alike(b, k)
  BY <1>1, SameAlike, ReleaseIs
<1>3. CASE k \in GivenBack(a)
  <2>1. k \in PlanKeys(a) /\ Window[k[1]] = "in_flight"
    BY <1>3 DEF GivenBack
  <2>2. ~Counts(a, k)' /\ ~Bears(a, k)' /\ Bears(a, k)
    BY <2>1, ReleaseIs DEF Counts, Bears
  <2>3. DOMAIN entries'[k] = DOMAIN entries[k] \ {token}
    BY <1>3, ReleaseLeaves
  <2>4. \A t \in DOMAIN entries'[k] : entries'[k][t] = entries[k][t]
    BY ReleaseLeaves
  <2>5. Stale(k)' = Stale(k) \ {token}
    BY <2>3, <2>4, ReleaseIs DEF Stale
  <2>6. Present(k)' = Present(k) \ {token}
    BY <2>3, <2>5 DEF Present
  <2>7. ASSUME NEW b \in Attempt, Counts(b, k)'
        PROVE  Entered(b, k)'
    <3>1. b # a /\ Counts(b, k) /\ Bears(b, k)
      BY <1>2, <2>2, <2>7, CountsBears DEF Alike
    <3>2. attempt[b].token # token /\ Entered(b, k) /\ attempt'[b] = attempt[b]
      BY <2>2, <3>1, ReleaseIs DEF Mirrors
    <3>3. attempt[b].token \in DOMAIN entries'[k]
      BY <2>3, <3>2 DEF Entered
    <3>4. entries'[k][attempt[b].token] = entries[k][attempt[b].token]
      BY <2>4, <3>3
    <3>5. QED BY <3>2, <3>3, <3>4 DEF Entered, Weight
  <2>8. ASSUME NEW t \in Present(k)'
        PROVE  \E b \in Attempt : Counts(b, k)' /\ attempt'[b].token = t
    <3>1. t \in Present(k) /\ t # token
      BY <2>6, <2>8
    <3>2. PICK b \in Attempt : Counts(b, k) /\ attempt[b].token = t
      BY <3>1 DEF Mirrors
    <3>3. b # a
      BY <3>1, <3>2
    <3>4. QED BY <1>2, <3>2, <3>3, CountsBears DEF Alike
  <2>9. ASSUME NEW b \in Attempt, NEW c \in Attempt, Bears(b, k)', Bears(c, k)',
               attempt'[b].token = attempt'[c].token
        PROVE  b = c
    <3>1. b # a /\ c # a
      BY <2>2, <2>9
    <3>2. QED BY <1>2, <2>9, <3>1 DEF Alike, Mirrors
  <2>10. QED BY <2>7, <2>8, <2>9 DEF Mirrors
<1>4. CASE k \notin GivenBack(a)
  <2>1. Alike(a, k)
    <3>1. Counts(a, k)' <=> Counts(a, k)
      <4>1. CASE k \notin PlanKeys(a)
        BY <4>1, ReleaseIs DEF Counts
      <4>2. CASE k \in PlanKeys(a)
        <5>1. Window[k[1]] \in {"minute", "day"}
          BY <1>4, <4>2, KeysAre, Sizes DEF GivenBack
        <5>2. now' = now /\ PlanKeys(a)' = PlanKeys(a) /\ attempt'[a].at = attempt[a].at
              /\ attempt'[a].charged /\ attempt[a].charged
          BY ReleaseIs
        <5>3. QED BY <5>1, <5>2 DEF Counts
      <4>3. QED BY <4>1, <4>2
    <3>2. Bears(a, k)' => Bears(a, k)
      BY <3>1, ReleaseIs DEF Bears
    <3>3. QED BY <3>1, <3>2, ReleaseIs DEF Alike
  <2>2. \A b \in Attempt : Alike(b, k)
    BY <1>2, <2>1
  <2>3. Thins(entries'[k], k)
    BY <1>4, ReleaseLeaves, SelfThins
  <2>4. now' = now
    BY ReleaseIs
  <2>5. QED BY <2>2, <2>3, <2>4, ThinnedMirrors
<1>5. QED BY <1>3, <1>4

\* A release gives back slots, which have no total.
LEMMA ReleaseTallies ==
    ASSUME Typed, Planned, NEW a \in Attempt, Release(a), NEW k \in Key, Tallies(k)
    PROVE  Tallies(k)'
<1>1. CASE Window[k[1]] = "in_flight"
  BY <1>1 DEF Tallies
<1>2. CASE Window[k[1]] # "in_flight"
  <2>1. entries'[k] = entries[k] /\ total'[k] = total[k]
    BY <1>2, ReleaseLeaves, ReleaseIs DEF GivenBack
  <2>2. QED BY <2>1, SameTallies
<1>3. QED BY <1>1, <1>2

\* A later day is no earlier one's.
LEMMA StaysCurrent ==
    ASSUME Typed, Tick, NEW k \in Key, Current(k)'
    PROVE  Current(k)
<1>1. now \in Nat /\ now' = now + 1
  BY DEF Typed, Tick
<1>2. now \div Day <= (now + 1) \div Day /\ now \div Day \in Nat /\ (now + 1) \div Day \in Nat
  BY <1>1, DaysPass
<1>3. QED BY <1>1, <1>2, KeysAre DEF Current

\* What counts later counted before.
LEMMA CountsBefore ==
    ASSUME Typed, Tick, NEW k \in Key, NEW a \in Attempt
    PROVE  /\ attempt'[a] = attempt[a] /\ now' = now + 1
           /\ Counts(a, k)' => Counts(a, k)
           /\ Bears(a, k)' => Bears(a, k)
           /\ Counts(a, k)' <=> Counts(a, k) /\ (Window[k[1]] # "day" => attempt[a].at + Length(k[1]) > now + 1)
<1>1. attempt' = attempt /\ now' = now + 1 /\ now \in Nat /\ attempt[a].at \in Nat
  BY DEF Tick, Typed, AttemptState
<1>2. PlanKeys(a)' = PlanKeys(a)
  BY <1>1 DEF PlanKeys
<1>3. Counts(a, k)' <=> Counts(a, k) /\ (Window[k[1]] # "day" => attempt[a].at + Length(k[1]) > now + 1)
  <2>1. k[1] \in Counter /\ Length(k[1]) \in Nat
    BY KeysAre, Sizes
  <2>2. Lease \in Nat /\ Minute \in Nat
    BY ConstantsAssumption
  <2>3. CASE Window[k[1]] = "day"
    BY <1>1, <1>2, <2>3 DEF Counts
  <2>4. CASE Window[k[1]] = "minute"
    BY <1>1, <1>2, <2>1, <2>2, <2>4, Sizes DEF Counts
  <2>5. CASE Window[k[1]] = "in_flight"
    BY <1>1, <1>2, <2>1, <2>2, <2>5, Sizes DEF Counts
  <2>6. QED BY <2>1, <2>3, <2>4, <2>5, Sizes
<1>4. QED BY <1>1, <1>2, <1>3 DEF Bears

\* A key that Redis drops holds nothing that still counts.
LEMMA DroppedCountsNothing ==
    ASSUME Typed, Planned, KeysKept, Tick, NEW k \in Key, ttl[k] = now + 1, Current(k)',
           NEW a \in Attempt
    PROVE  ~Counts(a, k)'
<1> SUFFICES ASSUME Counts(a, k)'
             PROVE  FALSE
  OBVIOUS
<1>1. /\ now \in Nat /\ ttl[k] \in Nat /\ attempt[a].at \in Nat /\ k[1] \in Counter
      /\ Length(k[1]) \in Nat /\ Length(k[1]) > 0
  BY KeysAre, Sizes DEF Typed, AttemptState
<1>2. Counts(a, k) /\ Current(k)
  BY CountsBefore, StaysCurrent
<1>3. backend = "redis"
  BY <1>1 DEF KeysKept, Typed
<1>4. ttl[k] >= attempt[a].at + 2 * Length(k[1])
  BY <1>2, <1>3 DEF KeysKept
<1>5. Window[k[1]] = "day"
  <2>1. Window[k[1]] # "day" => attempt[a].at + Length(k[1]) > now + 1
    BY CountsBefore
  <2>2. QED BY <1>1, <1>4, <2>1
<1>6. attempt[a].charged /\ k \in PlanKeys(a)
  BY <1>2 DEF Counts
<1>7. k[2] = attempt[a].day /\ k[2] * Day <= attempt[a].at /\ k[2] \in Nat
  BY <1>5, <1>6, PlanKeysAre, KeysAre DEF Planned, Consistent
<1>8. Length(k[1]) = Day /\ Day \in Nat
  BY <1>1, <1>5, Sizes, ConstantsAssumption
<1>9. (k[2] + 2) * Day <= now + 1
  <2>1. (k[2] + 2) * Day = k[2] * Day + 2 * Day /\ k[2] * Day \in Nat
    BY <1>7, <1>8
  <2>2. QED BY <1>1, <1>4, <1>7, <1>8, <2>1
<1>10. k[2] + 2 <= (now + 1) \div Day
  BY <1>1, <1>7, <1>9, DaysPass
<1>11. k[2] + 1 >= (now + 1) \div Day
  BY <1>5 DEF Current, Tick
<1>12. (now + 1) \div Day \in Nat
  BY <1>1, DaysPass
<1>13. QED BY <1>7, <1>10, <1>11, <1>12

\* Time passes: what ages out of a key ages out of what counts.
LEMMA TickMirrors ==
    ASSUME Typed, Planned, KeysKept, Tick, NEW k \in Key, Mirrors(k), Tallies(k), Current(k)'
    PROVE  Mirrors(k)'
<1>1. CASE ttl[k] = now + 1
  <2>1. entries'[k] = EmptyEntries /\ DOMAIN EmptyEntries = {}
    BY <1>1 DEF Tick, EmptyEntries
  <2>2. \A a \in Attempt : ~Counts(a, k)'
    BY <1>1, DroppedCountsNothing
  <2>3. Present(k)' = {}
    BY <2>1 DEF Present
  <2>4. \A a, b \in Attempt :
           Bears(a, k)' /\ Bears(b, k)' /\ attempt'[a].token = attempt'[b].token => a = b
    BY CountsBefore DEF Mirrors
  <2>5. QED BY <2>2, <2>3, <2>4 DEF Mirrors
<1>2. CASE ttl[k] # now + 1
  <2>1. entries'[k] = entries[k] /\ now' = now + 1 /\ now \in Nat
    BY <1>2 DEF Tick, Typed
  <2>2. ASSUME NEW a \in Attempt, Counts(a, k)'
        PROVE  Entered(a, k)'
    BY <2>1, <2>2, CountsBefore DEF Mirrors, Entered, Weight
  <2>3. ASSUME NEW t \in Present(k)'
        PROVE  \E a \in Attempt : Counts(a, k)' /\ attempt'[a].token = t
    <3>1. t \in DOMAIN entries[k] /\ (Window[k[1]] # "day" => ~(entries[k][t].until <= now + 1))
      BY <2>1, <2>3 DEF Present, Stale
    <3>2. entries[k][t].until \in Nat
      BY <3>1 DEF Typed, Entry
    <3>3. t \in Present(k)
      BY <2>1, <3>1, <3>2 DEF Present, Stale
    <3>4. PICK a \in Attempt : Counts(a, k) /\ attempt[a].token = t
      BY <3>3 DEF Mirrors
    <3>5. Window[k[1]] # "day" => entries[k][t].until = attempt[a].at + Length(k[1])
      BY <3>4 DEF Mirrors, Entered
    <3>6. Window[k[1]] # "day" => attempt[a].at + Length(k[1]) > now + 1
      BY <2>1, <3>1, <3>2, <3>5
    <3>7. QED BY <3>4, <3>6, CountsBefore
  <2>4. ASSUME NEW a \in Attempt, NEW b \in Attempt, Bears(a, k)', Bears(b, k)',
               attempt'[a].token = attempt'[b].token
        PROVE  a = b
    BY <2>4, CountsBefore DEF Mirrors
  <2>5. QED BY <2>2, <2>3, <2>4 DEF Mirrors
<1>3. QED BY <1>1, <1>2

\* An empty key sums to nothing.
LEMMA EmptyIs ==
    /\ DOMAIN EmptyEntries = {} /\ EmptyEntries \in [{} -> Entry] /\ IsFiniteSet({})
    /\ AmountsOf(EmptyEntries, {}) = 0
<1>1. DOMAIN EmptyEntries = {} /\ EmptyEntries \in [{} -> Entry] /\ IsFiniteSet({})
  BY FS_EmptySet DEF EmptyEntries
<1>2. DOMAIN [t \in {} |-> EmptyEntries[t].amount] = {}
  OBVIOUS
<1>3. QED BY <1>1, <1>2, TotalOfNone DEF AmountsOf

\* A key that is dropped loses its total with its entries.
LEMMA TickTallies ==
    ASSUME Tick, NEW k \in Key, Tallies(k)
    PROVE  Tallies(k)'
<1>1. CASE ttl[k] = now + 1
  <2>1. entries'[k] = EmptyEntries /\ total'[k] = 0
    BY <1>1 DEF Tick
  <2>2. QED BY <2>1, EmptyIs DEF Tallies
<1>2. CASE ttl[k] # now + 1
  BY <1>2, SameTallies DEF Tick
<1>3. QED BY <1>1, <1>2

\* What Restart does: in memory to everyone, on Redis to the gateway's attempts.
LEMMA RestartIs ==
    ASSUME Typed, Planned, NEW g \in Gateway, Restart(g)
    PROVE  /\ now' = now /\ attempt' \in [Attempt -> AttemptState] /\ ttl' = ttl
           /\ \A a \in Attempt : Consistent(attempt[a])'
           /\ backend = "redis" =>
                 /\ entries' = entries /\ total' = total
                 /\ \A a \in Attempt : Same(attempt[a], attempt'[a])
           /\ backend = "memory" =>
                 /\ \A k \in Key : entries'[k] = EmptyEntries /\ total'[k] = 0
                 /\ \A a \in Attempt : ~attempt'[a].charged
<1>1. /\ attempt \in [Attempt -> AttemptState] /\ now' = now /\ backend' = backend /\ ttl' = ttl
      /\ Local \in Gateway /\ now \in Nat /\ backend \in {"memory", "redis"}
  <2>1. now' = now /\ backend' = backend /\ ttl' = ttl
    BY DEF Restart, ledger
  <2>2. QED BY <2>1, ConstantsAssumption DEF Typed
<1>2. Uncharged \in AttemptState /\ ~Uncharged.charged /\ Uncharged.phase = "ended"
      /\ Uncharged.day = 0 /\ Uncharged.gateway = Local /\ ~Uncharged.released
  BY <1>1 DEF Uncharged, NewAttempt, NoToken, AttemptState, Token
<1>3. ASSUME NEW a \in Attempt
      PROVE  /\ attempt'[a] \in AttemptState /\ Consistent(attempt[a])'
             /\ backend = "redis" => Same(attempt[a], attempt'[a])
             /\ backend = "memory" => ~attempt'[a].charged
  <2> DEFINE s == attempt[a]
             r == attempt'[a]
  <2>1. s \in AttemptState /\ Consistent(s)
    BY <1>1 DEF Planned
  <2>2. r = IF s.phase \in {"new", "refused"} \/ s.gateway # g THEN s
            ELSE IF s.charged /\ backend = "redis"
            THEN [s EXCEPT !.phase = "ended"] ELSE Uncharged
    BY DEF Restart
  <2>3. backend = "memory" => s.gateway = Local /\ g = Local
    BY <2>1 DEF Consistent, Restart
  <2> HIDE DEF s, r
  <2>5. CASE r = s /\ (s.phase \in {"new", "refused"} \/ s.gateway # g)
    <3>1. backend = "memory" => ~r.charged
      BY <2>1, <2>3, <2>5 DEF Consistent
    <3>2. Same(s, r)
      BY <2>5 DEF Same
    <3>4. Consistent(attempt[a])'
      BY <2>1, <2>5, <1>1 DEF Consistent, r
    <3>5. QED BY <2>1, <2>5, <3>1, <3>2, <3>4 DEF s, r
  <2>6. CASE r = [s EXCEPT !.phase = "ended"] /\ s.charged /\ backend = "redis"
    <3>1. /\ r \in AttemptState /\ r.phase = "ended" /\ r.charged = s.charged /\ r.plan = s.plan
          /\ r.day = s.day /\ r.token = s.token /\ r.at = s.at /\ r.spent = s.spent
          /\ r.released = s.released /\ r.gateway = s.gateway
      BY <2>1, <2>6 DEF AttemptState
    <3>2. Same(s, r)
      BY <3>1 DEF Same
    <3>3. Consistent(attempt[a])'
      BY <2>1, <2>6, <3>1, <1>1 DEF Consistent, r
    <3>4. QED BY <2>6, <3>1, <3>2, <3>3 DEF s, r
  <2>7. CASE r = Uncharged /\ (~s.charged \/ backend = "memory")
    <3>1. backend = "redis" => Same(s, r)
      <4>1. ~r.charged /\ r.phase = "ended"
        BY <1>2, <2>7
      <4>2. backend = "redis" => ~s.charged /\ s.charged \in BOOLEAN
        BY <2>1, <2>7 DEF AttemptState
      <4>3. r.charged \in BOOLEAN
        BY <1>2, <2>7 DEF AttemptState
      <4>4. QED BY <4>1, <4>2, <4>3 DEF Same
    <3>2. 0 \in 0 .. (MaxTime \div Day) /\ 0 * Day <= now
      BY <1>1, ConstantsAssumption, DaysPass
    <3>3. Consistent(attempt[a])'
      BY <1>1, <1>2, <2>7, <3>2 DEF Consistent, r
    <3>4. QED BY <1>1, <1>2, <2>7, <3>1, <3>3 DEF s, r
  <2>8. QED BY <1>1, <2>2, <2>5, <2>6, <2>7
<1>4. attempt' \in [Attempt -> AttemptState]
  <2>1. attempt' = [a \in Attempt |-> attempt'[a]]
    BY DEF Restart
  <2>2. QED BY <1>3, <2>1
<1>5. /\ backend = "redis" => entries' = entries /\ total' = total
      /\ backend = "memory" => \A k \in Key : entries'[k] = EmptyEntries /\ total'[k] = 0
  BY DEF Restart, ledger
<1>6. QED BY <1>1, <1>3, <1>4, <1>5

\* A restart leaves Redis as it is; in memory nothing is charged any more.
LEMMA RestartAgrees ==
    ASSUME Typed, Planned, NEW g \in Gateway, Restart(g), NEW k \in Key
    PROVE  /\ Mirrors(k) => Mirrors(k)'
           /\ Tallies(k) => Tallies(k)'
<1>1. CASE backend = "redis"
  <2>1. \A a \in Attempt : Alike(a, k)
    BY <1>1, RestartIs, SameAlike
  <2>2. now' = now /\ entries'[k] = entries[k] /\ total'[k] = total[k] /\ Thins(entries'[k], k)
    BY <1>1, RestartIs, SelfThins
  <2>3. QED BY <2>1, <2>2, ThinnedMirrors, SameTallies
<1>2. CASE backend = "memory"
  <2>1. entries'[k] = EmptyEntries /\ total'[k] = 0
    BY <1>2, RestartIs
  <2>2. \A a \in Attempt : ~Counts(a, k)' /\ ~Bears(a, k)'
    BY <1>2, RestartIs DEF Counts, Bears
  <2>3. Present(k)' = {}
    BY <2>1, EmptyIs DEF Present
  <2>4. QED BY <2>1, <2>2, <2>3, EmptyIs DEF Mirrors, Tallies
<1>3. QED BY <1>1, <1>2 DEF Typed
-----------------------------------------------------------------------------
(* The steps that charge nothing.                                            *)

\* One attempt gets another state.
LEMMA SetAttempt ==
    ASSUME Typed, NEW a \in Attempt, NEW r \in AttemptState, attempt' = [attempt EXCEPT ![a] = r]
    PROVE  /\ attempt' \in [Attempt -> AttemptState] /\ attempt'[a] = r
           /\ \A b \in Attempt : b # a => attempt'[b] = attempt[b]
BY DEF Typed

\* A new attempt, planned for today.
LEMMA PlanMakes ==
    ASSUME Typed, Planned, NEW a \in Attempt, NEW g \in Gateway, NEW plan \in Plans, Plan(a, g, plan)
    PROVE  \E r \in AttemptState :
              /\ attempt' = [attempt EXCEPT ![a] = r]
              /\ Same(attempt[a], r) /\ r.phase = "planned" /\ ~r.charged /\ ~r.released
              /\ r.gateway = g /\ r.day = now \div Day /\ r.plan = plan
              /\ r.token.ticket = ticket[g]
<1> DEFINE token == [ticket |-> ticket[g],
                     charges |-> IF backend = "redis" THEN Cardinality(plan) ELSE 0]
           r == [NewAttempt EXCEPT !.phase = "planned", !.gateway = g, !.plan = plan,
                                   !.day = now \div Day, !.token = token]
<1>1. attempt' = [attempt EXCEPT ![a] = r] /\ attempt[a].phase = "new"
  BY DEF Plan
<1>2. ticket[g] \in Nat /\ now \in Nat /\ Local \in Gateway /\ ~attempt[a].charged
  BY <1>1, ConstantsAssumption DEF Typed, Planned, Consistent
<1>3. IsFiniteSet(plan) /\ plan \subseteq Counter
  BY ConstantsAssumption
<1>4. Cardinality(plan) \in Nat /\ now \div Day \in Nat
  BY <1>2, <1>3, FS_CardinalityType, DaysPass
<1>5. token \in Token
  BY <1>2, <1>4 DEF Token
<1>8. token.ticket = ticket[g]
  OBVIOUS
<1> HIDE DEF token
<1>6. /\ r.phase = "planned" /\ ~r.charged /\ ~r.released /\ r.gateway = g
      /\ r.day = now \div Day /\ r.plan = plan /\ r.token = token
  BY DEF NewAttempt
<1>7. r \in AttemptState
  BY <1>2, <1>3, <1>4, <1>5 DEF NewAttempt, AttemptState
<1> HIDE DEF r
<1>9. attempt[a].charged \in BOOLEAN /\ r.charged \in BOOLEAN
  BY <1>7 DEF Typed, AttemptState
<1>10. Same(attempt[a], r)
  BY <1>2, <1>6, <1>9 DEF Same
<1>11. QED BY <1>1, <1>6, <1>7, <1>8, <1>10

\* An attempt that is refused, goes on uncharged, or whose release is lost.
LEMMA EndMakes ==
    ASSUME Typed, Planned, NEW a \in Attempt, Refuse(a) \/ FailOpen(a) \/ ReleaseLost(a)
    PROVE  \E r \in AttemptState :
              /\ attempt' = [attempt EXCEPT ![a] = r]
              /\ Same(attempt[a], r) /\ r.phase \in {"refused", "ended"}
              /\ r.phase = "refused" => ~r.charged
              /\ r.gateway \in {Local, attempt[a].gateway} /\ r.day \in {0, attempt[a].day}
              /\ r.charged => r.at = attempt[a].at /\ r.day = attempt[a].day
<1>1. /\ attempt[a] \in AttemptState /\ Consistent(attempt[a]) /\ Local \in Gateway
      /\ attempt[a].charged \in BOOLEAN
  BY ConstantsAssumption DEF Typed, Planned, AttemptState
<1>2. CASE Refuse(a)
  <2> DEFINE r == [NewAttempt EXCEPT !.phase = "refused"]
  <2>1. r \in AttemptState
    BY <1>1 DEF NewAttempt, NoToken, AttemptState, Token
  <2>2. r.phase = "refused" /\ r.charged = FALSE /\ r.gateway = Local /\ r.day = 0
    BY DEF NewAttempt
  <2>3. attempt' = [attempt EXCEPT ![a] = r] /\ attempt[a].phase = "planned"
    BY <1>2 DEF Refuse
  <2> HIDE DEF r
  <2>4. attempt[a].charged = FALSE
    BY <1>1, <2>3 DEF Consistent
  <2>5. QED BY <2>1, <2>2, <2>3, <2>4 DEF Same
<1>3. CASE FailOpen(a)
  <2>1. Uncharged \in AttemptState
    BY <1>1 DEF Uncharged, NewAttempt, NoToken, AttemptState, Token
  <2>2. /\ Uncharged.phase = "ended" /\ Uncharged.charged = FALSE
        /\ Uncharged.gateway = Local /\ Uncharged.day = 0
    BY DEF Uncharged, NewAttempt
  <2>3. attempt' = [attempt EXCEPT ![a] = Uncharged] /\ attempt[a].phase = "planned"
    BY <1>3 DEF FailOpen
  <2>4. attempt[a].charged = FALSE
    BY <1>1, <2>3 DEF Consistent
  <2>5. QED BY <2>1, <2>2, <2>3, <2>4 DEF Same
<1>4. CASE ReleaseLost(a)
  <2> DEFINE s == attempt[a]
             r == [s EXCEPT !.phase = "ended"]
  <2>1. attempt' = [attempt EXCEPT ![a] = r]
    BY <1>4 DEF ReleaseLost
  <2>2. /\ r \in AttemptState /\ r.phase = "ended" /\ r.charged = s.charged /\ r.plan = s.plan
        /\ r.day = s.day /\ r.token = s.token /\ r.at = s.at /\ r.spent = s.spent
        /\ r.released = s.released /\ r.gateway = s.gateway
    BY <1>1 DEF AttemptState
  <2> HIDE DEF r, s
  <2>3. Same(s, r)
    BY <2>2 DEF Same
  <2>4. QED BY <2>1, <2>2, <2>3 DEF s
<1>5. QED BY <1>2, <1>3, <1>4

\* What the steps that charge nothing leave as it is.
Quiet ==
    /\ now' = now /\ backend' = backend /\ restarts' = restarts /\ ttl' = ttl /\ collided' = collided
    /\ ticket' \in [Gateway -> Nat]
    /\ attempt' \in [Attempt -> AttemptState]
    /\ \A b \in Attempt : Same(attempt[b], attempt'[b]) /\ Consistent(attempt[b])'
    /\ entries' = [k \in Key |-> entries'[k]] /\ total' \in [Key -> Int]
    /\ \A k \in Key : Thins(entries'[k], k) /\ (Tallies(k) => Tallies(k)')

\* Such a step sets one attempt, and prunes at most.
LEMMA QuietSteps ==
    ASSUME Typed, Planned, NEW a \in Attempt,
           \/ \E g \in Gateway, plan \in Plans : Plan(a, g, plan)
           \/ Refuse(a) \/ FailOpen(a) \/ ReleaseLost(a)
    PROVE  Quiet
<1>1. /\ now' = now /\ backend' = backend /\ restarts' = restarts /\ ttl' = ttl /\ collided' = collided
  BY DEF Plan, Refuse, FailOpen, ReleaseLost, ledger
<1>2. /\ now \in Nat /\ now \in 0 .. MaxTime /\ MaxTime \in Nat /\ Day \in Nat
  BY ConstantsAssumption DEF Typed
<1>3. 0 \in 0 .. (MaxTime \div Day) /\ 0 * Day <= now /\ now \div Day \in 0 .. (MaxTime \div Day)
      /\ (now \div Day) * Day <= now
  <2>1. /\ now \div Day \in Nat /\ (now \div Day) * Day <= now
    BY <1>2, DaysPass
  <2>2. MaxTime \div Day \in Nat /\ now \div Day <= MaxTime \div Day
    BY <1>2, DaysPass
  <2>3. 0 * Day <= now
    BY <1>2
  <2> QED BY <2>1, <2>2, <2>3
<1>4. ticket' \in [Gateway -> Nat]
  <2>1. CASE \E g \in Gateway, plan \in Plans : Plan(a, g, plan)
    <3>1. PICK g \in Gateway : ticket' = [ticket EXCEPT ![g] = @ + 1]
      BY <2>1 DEF Plan
    <3>2. QED BY <3>1 DEF Typed
  <2>2. CASE Refuse(a) \/ FailOpen(a) \/ ReleaseLost(a)
    <3>1. ticket' = ticket
      BY <2>2 DEF Refuse, FailOpen, ReleaseLost
    <3>2. QED BY <3>1 DEF Typed
  <2>3. QED BY <2>1, <2>2
<1>5. PICK r \in AttemptState :
          /\ attempt' = [attempt EXCEPT ![a] = r] /\ Same(attempt[a], r)
          /\ r.day \in 0 .. (MaxTime \div Day) /\ r.day * Day <= now
          /\ r.charged => r.at <= now /\ r.day * Day <= r.at
          /\ r.phase \in {"planned", "refused", "ended"}
          /\ r.phase \in {"planned", "refused"} => ~r.charged
          /\ r.phase = "planned" => ~r.released
          /\ backend = "memory" => r.gateway = Local
  <2>1. CASE \E g \in Gateway, plan \in Plans : Plan(a, g, plan)
    <3>1. PICK g \in Gateway, plan \in Plans : Plan(a, g, plan)
      BY <2>1
    <3>2. PICK r \in AttemptState :
              /\ attempt' = [attempt EXCEPT ![a] = r]
              /\ Same(attempt[a], r) /\ r.phase = "planned" /\ ~r.charged /\ ~r.released
              /\ r.gateway = g /\ r.day = now \div Day
      BY <3>1, PlanMakes
    <3>3. backend = "memory" => g = Local
      BY <3>1 DEF Plan
    <3>4. r.day \in 0 .. (MaxTime \div Day) /\ r.day * Day <= now
      BY <1>3, <3>2
    <3>5. QED BY <3>2, <3>3, <3>4
  <2>2. CASE Refuse(a) \/ FailOpen(a) \/ ReleaseLost(a)
    <3>1. PICK r \in AttemptState :
              /\ attempt' = [attempt EXCEPT ![a] = r]
              /\ Same(attempt[a], r) /\ r.phase \in {"refused", "ended"}
              /\ r.phase = "refused" => ~r.charged
              /\ r.gateway \in {Local, attempt[a].gateway} /\ r.day \in {0, attempt[a].day}
              /\ r.charged => r.at = attempt[a].at /\ r.day = attempt[a].day
      BY <2>2, EndMakes
    <3>2. Consistent(attempt[a])
      BY DEF Planned
    <3>3. r.day \in 0 .. (MaxTime \div Day) /\ r.day * Day <= now
      BY <1>3, <3>1, <3>2 DEF Consistent
    <3>4. r.charged => r.at <= now /\ r.day * Day <= r.at
      BY <3>1, <3>2 DEF Same, Consistent
    <3>5. backend = "memory" => r.gateway = Local
      BY <3>1, <3>2 DEF Consistent
    <3>6. QED BY <3>1, <3>3, <3>4, <3>5
  <2>3. QED BY <2>1, <2>2
<1>6. /\ attempt' \in [Attempt -> AttemptState] /\ attempt'[a] = r
      /\ \A b \in Attempt : b # a => attempt'[b] = attempt[b]
  BY <1>5, SetAttempt
<1>7. ASSUME NEW b \in Attempt
      PROVE  Same(attempt[b], attempt'[b]) /\ Consistent(attempt[b])'
  <2>1. CASE b = a
    BY <1>1, <1>5, <1>6, <2>1 DEF Consistent
  <2>2. CASE b # a
    <3>1. attempt'[b] = attempt[b] /\ Consistent(attempt[b])
      BY <1>6, <2>2 DEF Planned
    <3>2. QED BY <1>1, <3>1 DEF Consistent, Same
  <2>3. QED BY <2>1, <2>2
<1>8. /\ entries' = [k \in Key |-> entries'[k]] /\ total' \in [Key -> Int]
      /\ \A k \in Key : Thins(entries'[k], k) /\ (Tallies(k) => Tallies(k)')
  <2>1. CASE Refuse(a)
    <3>1. /\ entries' = [k \in Key |-> Remaining(a, k)] /\ total' = [k \in Key |-> RemainingTotal(a, k)]
      BY <2>1 DEF Refuse
    <3>2. \A k \in Key : entries'[k] = Remaining(a, k) /\ total'[k] = RemainingTotal(a, k)
      BY <3>1
    <3>3. \A k \in Key : Thins(entries'[k], k) /\ (Tallies(k) => Tallies(k)') /\ total'[k] \in Int
      BY <3>2, RemainingIs DEF Tallies
    <3>4. total' \in [Key -> Int]
      BY <3>1, <3>2, <3>3
    <3>5. entries' = [k \in Key |-> entries'[k]]
      BY <3>1
    <3>6. QED BY <3>3, <3>4, <3>5
  <2>2. CASE ~Refuse(a)
    <3>1. entries' = entries /\ total' = total
      BY <2>2 DEF Plan, FailOpen, ReleaseLost, ledger
    <3>2. \A k \in Key : Thins(entries'[k], k) /\ (Tallies(k) => Tallies(k)')
      BY <3>1, SelfThins, SameTallies
    <3>3. QED BY <3>1, <3>2 DEF Typed
  <2>3. QED BY <2>1, <2>2
<1>9. QED BY <1>1, <1>4, <1>6, <1>7, <1>8 DEF Quiet
-----------------------------------------------------------------------------
(* Every step keeps the invariant.                                           *)

\* A key with the types of its entries.
LEMMA ThinsTyped ==
    ASSUME Typed, NEW k \in Key, Thins(entries'[k], k)
    PROVE  /\ entries'[k] \in [DOMAIN entries'[k] -> Entry] /\ DOMAIN entries'[k] \subseteq Token
           /\ IsFiniteSet(DOMAIN entries'[k])
BY DEF Thins, Typed

\* While no attempt comes to count and no time to live changes, keys are kept.
LEMMA KeysStayKept ==
    ASSUME KeysKept, now' = now, backend' = backend, ttl' = ttl,
           \A a \in Attempt, k \in Key : Counts(a, k)' => Counts(a, k) /\ attempt'[a].at = attempt[a].at
    PROVE  KeysKept'
<1>1. \A k \in Key : Current(k)' <=> Current(k)
  BY DEF Current
<1>2. QED BY <1>1 DEF KeysKept

\* A step that charges nothing keeps the invariant.
LEMMA QuietKeeps ==
    ASSUME IInv, Quiet
    PROVE  IInv'
<1>1. Typed /\ Planned /\ KeysKept /\ Agrees
  BY DEF IInv
<1>2. Typed'
  <2>1. \A k \in Key : /\ entries'[k] \in [DOMAIN entries'[k] -> Entry] /\ DOMAIN entries'[k] \subseteq Token
                       /\ IsFiniteSet(DOMAIN entries'[k])
    BY <1>1, ThinsTyped DEF Quiet
  <2>2. QED BY <1>1, <2>1 DEF Typed, Quiet
<1>3. Planned'
  BY DEF Quiet, Planned
<1>4. \A a \in Attempt, k \in Key : Alike(a, k)
  BY SameAlike DEF Quiet
<1>5. KeysKept'
  <2>1. \A a \in Attempt, k \in Key : Counts(a, k)' => Counts(a, k) /\ attempt'[a].at = attempt[a].at
    BY <1>4, CountsBears DEF Alike
  <2>2. now' = now /\ backend' = backend /\ ttl' = ttl
    BY DEF Quiet
  <2>3. QED BY <1>1, <2>1, <2>2, KeysStayKept
<1>6. Agrees'
  <2> SUFFICES ASSUME ~collided', NEW k \in Key
               PROVE  (Current(k)' => Mirrors(k)') /\ Tallies(k)'
    BY DEF Agrees
  <2>1. (Current(k) => Mirrors(k)) /\ Tallies(k)
    BY <1>1 DEF Agrees, Quiet
  <2>2. now' = now /\ Thins(entries'[k], k) /\ (Tallies(k) => Tallies(k)')
    BY DEF Quiet
  <2>3. Current(k)' <=> Current(k)
    BY <2>2 DEF Current
  <2>4. Mirrors(k) => Mirrors(k)'
    BY <1>1, <1>4, <2>2, ThinnedMirrors
  <2>5. QED BY <2>1, <2>2, <2>3, <2>4
<1>7. QED BY <1>2, <1>3, <1>5, <1>6 DEF IInv

\* What Grant does to a key outside the plan.
LEMMA GrantPasses ==
    ASSUME Typed, Planned, NEW a \in Attempt, Grant(a), NEW k \in Key, k \notin PlanKeys(a)
    PROVE  /\ entries'[k] = Remaining(a, k) /\ total'[k] = RemainingTotal(a, k) /\ ttl'[k] = ttl[k]
           /\ Thins(entries'[k], k)
           /\ Mirrors(k) => Mirrors(k)'
           /\ Tallies(k) => Tallies(k)'
           /\ \A b \in Attempt : Alike(b, k)
<1>1. entries'[k] = Remaining(a, k) /\ total'[k] = RemainingTotal(a, k) /\ ttl'[k] = ttl[k]
  BY DEF Grant, Charge
<1>2. Thins(entries'[k], k)
  BY <1>1, RemainingIs
<1>3. \A b \in Attempt : b # a => Alike(b, k)
  <2>1. \A b \in Attempt : b # a => Same(attempt[b], attempt'[b])
    BY GrantIs DEF Same
  <2>2. QED BY <2>1, SameAlike, GrantIs
<1>4. Alike(a, k)
  BY GrantIs DEF Alike, Counts, Bears
<1>5. \A b \in Attempt : Alike(b, k)
  BY <1>3, <1>4
<1>6. Mirrors(k) => Mirrors(k)'
  BY <1>2, <1>5, GrantIs, ThinnedMirrors
<1>7. Tallies(k) => Tallies(k)'
  BY <1>1, RemainingIs DEF Tallies
<1>8. QED BY <1>1, <1>2, <1>5, <1>6, <1>7

\* A grant enters its attempt in the keys of the plan, and prunes the others at most.
LEMMA GrantKeeps ==
    ASSUME IInv, NEW a \in Attempt, Grant(a)
    PROVE  IInv'
<1>1. Typed /\ Planned /\ KeysKept /\ Agrees
  BY DEF IInv
<1>2. /\ now' = now /\ backend' = backend /\ restarts' = restarts /\ ticket' = ticket
      /\ now \in Nat /\ attempt' \in [Attempt -> AttemptState]
  <2>1. now' = now /\ backend' = backend /\ restarts' = restarts /\ ticket' = ticket
    BY DEF Grant
  <2>2. attempt' \in [Attempt -> AttemptState]
    BY <1>1, GrantIs
  <2>3. QED BY <1>1, <2>1, <2>2 DEF Typed
<1>3. PlanKeys(a) \subseteq Key
  BY <1>1, PlanKeysAre
<1>4. Typed'
  <2>1. entries' = [k \in Key |-> entries'[k]] /\ ttl' = [k \in Key |-> ttl'[k]]
        /\ total' = [k \in Key |-> total'[k]]
    BY DEF Grant, Charge
  <2>2. ASSUME NEW k \in Key
        PROVE  /\ entries'[k] \in [DOMAIN entries'[k] -> Entry] /\ DOMAIN entries'[k] \subseteq Token
               /\ IsFiniteSet(DOMAIN entries'[k]) /\ total'[k] \in Int /\ ttl'[k] \in Nat
    <3>1. k[1] \in Counter /\ Amount(k[1]) \in Nat /\ Length(k[1]) \in Nat /\ ttl[k] \in Nat
      BY <1>1, KeysAre, Sizes DEF Typed
    <3>2. RemainingTotal(a, k) \in Int
      BY <1>1, RemainingIs
    <3>3. CASE k \in PlanKeys(a)
      <4>1. DOMAIN Remaining(a, k) \subseteq Token /\ attempt[a].token \in Token
        BY <1>1, RemainingIs DEF Thins, Typed, AttemptState
      <4>2. /\ DOMAIN entries'[k] = DOMAIN Remaining(a, k) \cup {attempt[a].token}
            /\ entries'[k] \in [DOMAIN entries'[k] -> Entry] /\ IsFiniteSet(DOMAIN entries'[k])
            /\ total'[k] = IF Window[k[1]] # "in_flight"
                           THEN RemainingTotal(a, k) + Amount(k[1]) ELSE RemainingTotal(a, k)
            /\ ttl'[k] = IF backend = "redis" THEN now + 2 * Length(k[1]) ELSE ttl[k]
        BY <1>1, <3>3, GrantEnters
      <4>3. total'[k] \in Int /\ ttl'[k] \in Nat
        BY <1>2, <3>1, <3>2, <4>2
      <4>4. QED BY <4>1, <4>2, <4>3
    <3>4. CASE k \notin PlanKeys(a)
      BY <1>1, <3>1, <3>2, <3>4, GrantPasses, ThinsTyped
    <3>5. QED BY <3>3, <3>4
  <2>3. total' \in [Key -> Int] /\ ttl' \in [Key -> Nat]
    BY <2>1, <2>2
  <2>4. collided' \in BOOLEAN
    BY <1>1 DEF Grant, Charge, Typed
  <2>5. QED BY <1>1, <1>2, <2>1, <2>2, <2>3, <2>4 DEF Typed
<1>5. Planned'
  <2>1. ASSUME NEW b \in Attempt
        PROVE  Consistent(attempt[b])'
    <3>1. Consistent(attempt[b])
      BY <1>1 DEF Planned
    <3>2. CASE b = a
      BY <1>1, <1>2, <3>1, <3>2, GrantIs DEF Consistent
    <3>3. CASE b # a
      BY <1>1, <1>2, <3>1, <3>3, GrantIs DEF Consistent
    <3>4. QED BY <3>2, <3>3
  <2>2. QED BY <2>1 DEF Planned
<1>6. \A k \in Key : Current(k)' <=> Current(k)
  BY <1>2 DEF Current
<1>7. KeysKept'
  <2> SUFFICES ASSUME NEW k \in Key
               PROVE  /\ backend' = "memory" => ttl'[k] = 0
                      /\ backend' = "redis" => \A b \in Attempt :
                            Counts(b, k)' => ttl'[k] >= attempt'[b].at + 2 * Length(k[1]) \/ ~Current(k)'
    BY DEF KeysKept, Length
  <2>1. k[1] \in Counter /\ Length(k[1]) \in Nat
    BY KeysAre, Sizes
  <2>2. CASE k \in PlanKeys(a)
    <3>1. ttl'[k] = IF backend = "redis" THEN now + 2 * Length(k[1]) ELSE ttl[k]
      BY <1>1, <2>2, GrantEnters
    <3>2. ASSUME backend = "redis", NEW b \in Attempt, Counts(b, k)'
          PROVE  ttl'[k] >= attempt'[b].at + 2 * Length(k[1])
      <4>1. attempt'[b].at <= now /\ attempt'[b].at \in Nat
        BY <1>2, <1>5, <3>2 DEF Planned, Consistent, Counts, AttemptState
      <4> HIDE DEF Length
      <4>2. QED BY <1>2, <2>1, <3>1, <3>2, <4>1
    <3>3. QED BY <1>1, <1>2, <3>1, <3>2 DEF KeysKept, Typed
  <2>3. CASE k \notin PlanKeys(a)
    <3>1. ttl'[k] = ttl[k] /\ \A b \in Attempt : Alike(b, k)
      BY <1>1, <2>3, GrantPasses
    <3>2. \A b \in Attempt : Counts(b, k)' => Counts(b, k) /\ attempt'[b].at = attempt[b].at
      BY <3>1, CountsBears DEF Alike
    <3>3. QED BY <1>1, <1>2, <1>6, <3>1, <3>2 DEF KeysKept
  <2>4. QED BY <2>2, <2>3
<1>8. Agrees'
  <2> SUFFICES ASSUME ~collided', NEW k \in Key
               PROVE  (Current(k)' => Mirrors(k)') /\ Tallies(k)'
    BY DEF Agrees
  <2>1. ~collided
    BY <1>1 DEF Grant, Charge, Typed
  <2>2. (Current(k) => Mirrors(k)) /\ Tallies(k)
    BY <1>1, <2>1 DEF Agrees
  <2>3. CASE k \in PlanKeys(a)
    <3>1. Mirrors(k) => Mirrors(k)'
      BY <1>1, <2>2, <2>3, GrantMirrors
    <3>2. Tallies(k)'
      BY <1>1, <2>2, <2>3, GrantTallies
    <3>3. QED BY <1>6, <2>2, <3>1, <3>2
  <2>4. CASE k \notin PlanKeys(a)
    BY <1>1, <1>6, <2>2, <2>4, GrantPasses
  <2>5. QED BY <2>3, <2>4
<1>9. QED BY <1>4, <1>5, <1>7, <1>8 DEF IInv

\* A settlement replaces what its attempt was charged, in its own entry.
LEMMA SettleKeeps ==
    ASSUME IInv, NEW a \in Attempt, NEW actual \in Actual, Settle(a, actual)
    PROVE  IInv'
<1>1. Typed /\ Planned /\ KeysKept /\ Agrees
  BY DEF IInv
<1>2. /\ now' = now /\ backend' = backend /\ restarts' = restarts /\ ticket' = ticket /\ ttl' = ttl
      /\ collided' = collided
  BY DEF Settle
<1>3. /\ attempt' \in [Attempt -> AttemptState]
      /\ \A b \in Attempt : SameBut(attempt[b], attempt'[b])
      /\ \A b \in Attempt, k \in Key : Counts(b, k)' => Counts(b, k) /\ attempt'[b].at = attempt[b].at
  BY <1>1, SettleIs DEF SameBut
<1>4. Typed'
  <2>1. entries' = [k \in Key |-> entries'[k]] /\ total' = [k \in Key |-> total'[k]]
    BY DEF Settle
  <2>2. ASSUME NEW k \in Key
        PROVE  /\ entries'[k] \in [DOMAIN entries'[k] -> Entry] /\ DOMAIN entries'[k] \subseteq Token
               /\ IsFiniteSet(DOMAIN entries'[k]) /\ total'[k] \in Int
    <3>1. /\ DOMAIN entries'[k] = DOMAIN entries[k]
          /\ entries'[k] \in [DOMAIN entries[k] -> Entry]
      BY <1>1, SettleEnters
    <3>2. /\ entries[k] \in [DOMAIN entries[k] -> Entry] /\ DOMAIN entries[k] \subseteq Token
          /\ IsFiniteSet(DOMAIN entries[k]) /\ total[k] \in Int
      BY <1>1 DEF Typed
    <3>3. total'[k] \in Int
      <4>1. CASE k \in PlanKeys(a) /\ Adjusts(a, k)
        <5>1. total'[k] = total[k] - entries[k][attempt[a].token].amount + actual /\ actual \in Nat
          BY <1>1, <4>1, SettleEnters, SettleIs
        <5>2. entries[k][attempt[a].token].amount \in Nat
          BY <3>2, <4>1 DEF Adjusts, Entry
        <5>3. QED BY <3>2, <5>1, <5>2
      <4>2. CASE ~(k \in PlanKeys(a) /\ Adjusts(a, k))
        BY <1>1, <3>2, <4>2, SettleEnters
      <4>3. QED BY <4>1, <4>2
    <3>4. QED BY <3>1, <3>2, <3>3
  <2>3. total' \in [Key -> Int]
    BY <2>1, <2>2
  <2>4. QED BY <1>1, <1>2, <1>3, <2>1, <2>2, <2>3 DEF Typed
<1>5. Planned'
  <2>1. ASSUME NEW b \in Attempt
        PROVE  Consistent(attempt[b])'
    <3>1. Consistent(attempt[b]) /\ SameBut(attempt[b], attempt'[b])
      BY <1>1, <1>3 DEF Planned
    <3>2. CASE b = a
      <4>1. attempt[a].phase = "held" /\ attempt'[a].phase = "settled"
        BY <1>1, SettleIs
      <4>2. QED BY <1>2, <3>1, <3>2, <4>1 DEF Consistent, SameBut
    <3>3. CASE b # a
      <4>1. attempt'[b] = attempt[b]
        BY <1>1, <3>3, SettleIs
      <4>2. QED BY <1>2, <3>1, <4>1 DEF Consistent
    <3>4. QED BY <3>2, <3>3
  <2>2. QED BY <2>1 DEF Planned
<1>6. KeysKept'
  BY <1>1, <1>2, <1>3, KeysStayKept
<1>7. Agrees'
  <2> SUFFICES ASSUME ~collided', NEW k \in Key
               PROVE  (Current(k)' => Mirrors(k)') /\ Tallies(k)'
    BY DEF Agrees
  <2>1. (Current(k) => Mirrors(k)) /\ Tallies(k)
    BY <1>1, <1>2 DEF Agrees
  <2>2. Current(k)' <=> Current(k)
    BY <1>2 DEF Current
  <2>3. Mirrors(k) => Mirrors(k)'
    BY <1>1, SettleMirrors
  <2>4. Tallies(k)'
    BY <1>1, <2>1, SettleTallies
  <2>5. QED BY <2>1, <2>2, <2>3, <2>4
<1>8. QED BY <1>4, <1>5, <1>6, <1>7 DEF IInv

\* A release takes out its own slots.
LEMMA ReleaseKeeps ==
    ASSUME IInv, NEW a \in Attempt, Release(a)
    PROVE  IInv'
<1>1. Typed /\ Planned /\ KeysKept /\ Agrees
  BY DEF IInv
<1>2. /\ now' = now /\ backend' = backend /\ restarts' = restarts /\ ticket' = ticket /\ ttl' = ttl
      /\ collided' = collided /\ total' = total
  BY DEF Release
<1>3. attempt' \in [Attempt -> AttemptState]
  BY <1>1, ReleaseIs
<1>4. Typed'
  <2>1. entries' = [k \in Key |-> entries'[k]]
    BY DEF Release
  <2>2. ASSUME NEW k \in Key
        PROVE  /\ entries'[k] \in [DOMAIN entries'[k] -> Entry] /\ DOMAIN entries'[k] \subseteq Token
               /\ IsFiniteSet(DOMAIN entries'[k])
    <3>1. DOMAIN entries[k] \subseteq Token
      BY <1>1 DEF Typed
    <3>2. /\ entries'[k] \in [DOMAIN entries'[k] -> Entry] /\ IsFiniteSet(DOMAIN entries'[k])
          /\ k \in GivenBack(a) => DOMAIN entries'[k] = DOMAIN entries[k] \ {attempt[a].token}
          /\ k \notin GivenBack(a) => entries'[k] = entries[k]
      BY <1>1, ReleaseLeaves
    <3>3. DOMAIN entries'[k] \subseteq Token
      BY <3>1, <3>2
    <3>4. QED BY <3>2, <3>3
  <2>3. QED BY <1>1, <1>2, <1>3, <2>1, <2>2 DEF Typed
<1>5. Planned'
  <2>1. ASSUME NEW b \in Attempt
        PROVE  Consistent(attempt[b])'
    <3>1. Consistent(attempt[b])
      BY <1>1 DEF Planned
    <3>2. CASE b = a
      BY <1>1, <1>2, <3>1, <3>2, ReleaseIs DEF Consistent
    <3>3. CASE b # a
      <4>1. attempt'[b] = attempt[b]
        BY <1>1, <3>3, ReleaseIs
      <4>2. QED BY <1>2, <3>1, <4>1 DEF Consistent
    <3>4. QED BY <3>2, <3>3
  <2>2. QED BY <2>1 DEF Planned
<1>6. KeysKept'
  <2>1. ASSUME NEW b \in Attempt, NEW k \in Key, Counts(b, k)'
        PROVE  Counts(b, k) /\ attempt'[b].at = attempt[b].at
    <3>1. CASE b = a
      <4>1. /\ PlanKeys(a)' = PlanKeys(a) /\ attempt'[a].at = attempt[a].at
            /\ attempt[a].charged /\ attempt[a].phase \in {"held", "settled"}
        BY <1>1, ReleaseIs
      <4>2. ~attempt[a].released
        BY <1>1, <4>1 DEF Planned, Consistent
      <4>3. Window[k[1]] \in {"in_flight", "minute", "day"}
        BY KeysAre, Sizes
      <4>4. QED BY <1>2, <2>1, <3>1, <4>1, <4>2, <4>3 DEF Counts
    <3>2. CASE b # a
      <4>1. attempt'[b] = attempt[b]
        BY <1>1, <3>2, ReleaseIs
      <4>2. PlanKeys(b)' = PlanKeys(b)
        BY <4>1 DEF PlanKeys
      <4>3. QED BY <1>2, <2>1, <4>1, <4>2 DEF Counts
    <3>3. QED BY <3>1, <3>2
  <2>2. QED BY <1>1, <1>2, <2>1, KeysStayKept
<1>7. Agrees'
  <2> SUFFICES ASSUME ~collided', NEW k \in Key
               PROVE  (Current(k)' => Mirrors(k)') /\ Tallies(k)'
    BY DEF Agrees
  <2>1. (Current(k) => Mirrors(k)) /\ Tallies(k)
    BY <1>1, <1>2 DEF Agrees
  <2>2. Current(k)' <=> Current(k)
    BY <1>2 DEF Current
  <2>3. Mirrors(k) => Mirrors(k)'
    BY <1>1, ReleaseMirrors
  <2>4. Tallies(k)'
    BY <1>1, <2>1, ReleaseTallies
  <2>5. QED BY <2>1, <2>2, <2>3, <2>4
<1>8. QED BY <1>4, <1>5, <1>6, <1>7 DEF IInv

\* A restart loses the attempts, and in memory their charges with them.
LEMMA RestartKeeps ==
    ASSUME IInv, NEW g \in Gateway, Restart(g)
    PROVE  IInv'
<1>1. Typed /\ Planned /\ KeysKept /\ Agrees
  BY DEF IInv
<1>2. now' = now /\ backend' = backend /\ collided' = collided /\ ttl' = ttl
  BY <1>1, RestartIs DEF Restart
<1>3. restarts' \in 0 .. MaxRestarts /\ ticket' \in [Gateway -> Nat]
  BY <1>1, ConstantsAssumption DEF Restart, Typed
<1>4. attempt' \in [Attempt -> AttemptState]
  BY <1>1, RestartIs
<1>5. Typed'
  <2>1. CASE backend = "redis"
    <3>1. entries' = entries /\ total' = total
      BY <1>1, <2>1, RestartIs
    <3>2. QED BY <1>1, <1>2, <1>3, <1>4, <3>1 DEF Typed
  <2>2. CASE backend = "memory"
    <3>1. entries' = [k \in Key |-> EmptyEntries] /\ total' = [k \in Key |-> 0]
      BY <2>2 DEF Restart
    <3>2. \A k \in Key : /\ entries'[k] \in [DOMAIN entries'[k] -> Entry] /\ DOMAIN entries'[k] \subseteq Token
                         /\ IsFiniteSet(DOMAIN entries'[k])
      BY <3>1, EmptyIs
    <3>3. entries' = [k \in Key |-> entries'[k]] /\ total' \in [Key -> Int]
      BY <3>1
    <3>4. QED BY <1>1, <1>2, <1>3, <1>4, <3>2, <3>3 DEF Typed
  <2>3. QED BY <1>1, <2>1, <2>2 DEF Typed
<1>6. Planned'
  BY <1>1, RestartIs DEF Planned
<1>7. KeysKept'
  <2>1. ASSUME NEW a \in Attempt, NEW k \in Key, Counts(a, k)'
        PROVE  Counts(a, k) /\ attempt'[a].at = attempt[a].at
    <3>1. attempt'[a].charged
      BY <2>1 DEF Counts
    <3>2. backend = "redis"
      BY <1>1, <3>1, RestartIs DEF Typed
    <3>3. Alike(a, k)
      BY <1>1, <1>2, <3>2, RestartIs, SameAlike
    <3>4. QED BY <2>1, <3>3, CountsBears DEF Alike
  <2>2. QED BY <1>1, <1>2, <2>1, KeysStayKept
<1>8. Agrees'
  <2> SUFFICES ASSUME ~collided', NEW k \in Key
               PROVE  (Current(k)' => Mirrors(k)') /\ Tallies(k)'
    BY DEF Agrees
  <2>1. (Current(k) => Mirrors(k)) /\ Tallies(k)
    BY <1>1, <1>2 DEF Agrees
  <2>2. Current(k)' <=> Current(k)
    BY <1>2 DEF Current
  <2>3. (Mirrors(k) => Mirrors(k)') /\ (Tallies(k) => Tallies(k)')
    BY <1>1, RestartAgrees
  <2>4. QED BY <2>1, <2>2, <2>3
<1>9. QED BY <1>5, <1>6, <1>7, <1>8 DEF IInv

\* Time passes: what ages out, or is dropped, counts no more.
LEMMA TickKeeps ==
    ASSUME IInv, Tick
    PROVE  IInv'
<1>1. Typed /\ Planned /\ KeysKept /\ Agrees
  BY DEF IInv
<1>2. /\ now' = now + 1 /\ now < MaxTime /\ attempt' = attempt /\ now \in Nat /\ MaxTime \in Nat
      /\ backend' = backend /\ restarts' = restarts /\ ticket' = ticket /\ collided' = collided
  BY <1>1, ConstantsAssumption DEF Tick, Typed
<1>3. \A k \in Key :
         /\ ttl[k] = now + 1 => entries'[k] = EmptyEntries /\ total'[k] = 0 /\ ttl'[k] = 0
         /\ ttl[k] # now + 1 => entries'[k] = entries[k] /\ total'[k] = total[k] /\ ttl'[k] = ttl[k]
  BY DEF Tick
<1>4. Typed'
  <2>1. \A k \in Key : /\ entries'[k] \in [DOMAIN entries'[k] -> Entry] /\ DOMAIN entries'[k] \subseteq Token
                       /\ IsFiniteSet(DOMAIN entries'[k]) /\ total'[k] \in Int /\ ttl'[k] \in Nat
    <3> SUFFICES ASSUME NEW k \in Key
                 PROVE  /\ entries'[k] \in [DOMAIN entries'[k] -> Entry] /\ DOMAIN entries'[k] \subseteq Token
                        /\ IsFiniteSet(DOMAIN entries'[k]) /\ total'[k] \in Int /\ ttl'[k] \in Nat
      OBVIOUS
    <3>1. CASE ttl[k] = now + 1
      <4>1. entries'[k] = EmptyEntries /\ total'[k] = 0 /\ ttl'[k] = 0
        BY <1>3, <3>1
      <4>2. /\ EmptyEntries \in [DOMAIN EmptyEntries -> Entry] /\ DOMAIN EmptyEntries \subseteq Token
            /\ IsFiniteSet(DOMAIN EmptyEntries)
        BY EmptyIs
      <4>3. QED BY <4>1, <4>2
    <3>2. CASE ttl[k] # now + 1
      <4>1. entries'[k] = entries[k] /\ total'[k] = total[k] /\ ttl'[k] = ttl[k]
        BY <1>3, <3>2
      <4>2. QED BY <1>1, <4>1 DEF Typed
    <3>3. QED BY <3>1, <3>2
  <2>2. /\ entries' = [k \in Key |-> entries'[k]] /\ total' = [k \in Key |-> total'[k]]
        /\ ttl' = [k \in Key |-> ttl'[k]]
    BY DEF Tick
  <2>3. total' \in [Key -> Int] /\ ttl' \in [Key -> Nat]
    BY <2>1, <2>2
  <2>4. now' \in 0 .. MaxTime
    BY <1>2
  <2>5. QED BY <1>1, <1>2, <2>1, <2>2, <2>3, <2>4 DEF Typed
<1>5. Planned'
  <2>1. ASSUME NEW a \in Attempt
        PROVE  Consistent(attempt[a])'
    <3> DEFINE s == attempt[a]
    <3>1. s \in AttemptState /\ Consistent(s) /\ attempt'[a] = s
      BY <1>1, <1>2 DEF Planned, Typed
    <3>2. s.day \in Nat /\ Day \in Nat /\ s.at \in Nat
      BY <3>1, ConstantsAssumption DEF AttemptState
    <3> HIDE DEF s
    <3>3. s.day * Day <= now' /\ (s.charged => s.at <= now')
      <4>1. s.day * Day \in Nat
        BY <3>2
      <4>2. s.day * Day <= now /\ (s.charged => s.at <= now)
        BY <3>1 DEF Consistent
      <4>3. QED BY <1>2, <3>2, <4>1, <4>2
    <3>4. QED BY <1>2, <3>1, <3>3 DEF Consistent
  <2>2. QED BY <2>1 DEF Planned
<1>6. KeysKept'
  <2> SUFFICES ASSUME NEW k \in Key
               PROVE  /\ backend' = "memory" => ttl'[k] = 0
                      /\ backend' = "redis" => \A a \in Attempt :
                            Counts(a, k)' => ttl'[k] >= attempt'[a].at + 2 * Length(k[1]) \/ ~Current(k)'
    BY DEF KeysKept, Length
  <2>1. backend' = "memory" => ttl'[k] = 0
    BY <1>1, <1>2, <1>3 DEF KeysKept
  <2>2. ASSUME backend = "redis", NEW a \in Attempt, Counts(a, k)', Current(k)'
        PROVE  ttl'[k] >= attempt'[a].at + 2 * Length(k[1])
    <3>1. ttl[k] # now + 1
      BY <1>1, <2>2, DroppedCountsNothing
    <3>2. ttl'[k] = ttl[k] /\ attempt'[a] = attempt[a]
      BY <1>2, <1>3, <3>1
    <3>3. Counts(a, k) /\ Current(k)
      BY <1>1, <2>2, CountsBefore, StaysCurrent
    <3>4. QED BY <1>1, <2>2, <3>2, <3>3 DEF KeysKept
  <2>3. QED BY <1>2, <2>1, <2>2
<1>7. Agrees'
  <2> SUFFICES ASSUME ~collided', NEW k \in Key
               PROVE  (Current(k)' => Mirrors(k)') /\ Tallies(k)'
    BY DEF Agrees
  <2>1. (Current(k) => Mirrors(k)) /\ Tallies(k)
    BY <1>1, <1>2 DEF Agrees
  <2>2. Tallies(k)'
    BY <2>1, TickTallies
  <2>3. ASSUME Current(k)'
        PROVE  Mirrors(k)'
    <3>1. Current(k)
      BY <1>1, <2>3, StaysCurrent
    <3>2. QED BY <1>1, <2>1, <2>3, <3>1, TickMirrors
  <2>4. QED BY <2>2, <2>3
<1>8. QED BY <1>4, <1>5, <1>6, <1>7 DEF IInv

\* Nothing is reserved at the start.
LEMMA InitHolds ==
    ASSUME Init
    PROVE  IInv
<1>1. /\ backend \in {"memory", "redis"} /\ now = 0 /\ restarts = 0 /\ collided = FALSE
      /\ ticket = [g \in Gateway |-> 0] /\ entries = [k \in Key |-> EmptyEntries]
      /\ total = [k \in Key |-> 0] /\ ttl = [k \in Key |-> 0]
      /\ attempt = [a \in Attempt |-> NewAttempt]
  BY ConstantsAssumption DEF Init
<1>2. /\ NewAttempt \in AttemptState /\ NewAttempt.charged = FALSE /\ NewAttempt.released = FALSE
      /\ NewAttempt.phase = "new" /\ NewAttempt.day = 0 /\ NewAttempt.gateway = Local
  <2>1. Local \in Gateway
    BY ConstantsAssumption
  <2>2. QED BY <2>1 DEF NewAttempt, NoToken, AttemptState, Token
<1>3. \A k \in Key : entries[k] = EmptyEntries /\ total[k] = 0 /\ ttl[k] = 0
  BY <1>1
<1>4. Typed
  <2>1. \A k \in Key : /\ entries[k] \in [DOMAIN entries[k] -> Entry] /\ DOMAIN entries[k] \subseteq Token
                       /\ IsFiniteSet(DOMAIN entries[k])
    BY <1>3, EmptyIs
  <2>2. attempt \in [Attempt -> AttemptState]
    BY <1>1, <1>2
  <2>3. now \in 0 .. MaxTime /\ restarts \in 0 .. MaxRestarts
    BY <1>1, ConstantsAssumption
  <2>4. entries = [k \in Key |-> entries[k]] /\ total \in [Key -> Int] /\ ttl \in [Key -> Nat]
        /\ ticket \in [Gateway -> Nat]
    BY <1>1
  <2>5. QED BY <1>1, <2>1, <2>2, <2>3, <2>4 DEF Typed
<1>5. \A a \in Attempt : attempt[a] = NewAttempt
  BY <1>1
<1>6. Planned
  <2>1. 0 \in 0 .. (MaxTime \div Day) /\ 0 * Day <= now
    <3>1. MaxTime \div Day \in Nat /\ Day \in Nat
      BY DaysPass, ConstantsAssumption
    <3>2. QED BY <1>1, <3>1
  <2>2. QED BY <1>2, <1>5, <2>1 DEF Planned, Consistent
<1>7. \A a \in Attempt, k \in Key : ~Counts(a, k) /\ ~Bears(a, k)
  BY <1>2, <1>5 DEF Counts, Bears
<1>8. KeysKept
  BY <1>3, <1>7 DEF KeysKept
<1>9. Agrees
  <2>1. \A k \in Key : Present(k) = {}
    BY <1>3, EmptyIs DEF Present
  <2>2. \A k \in Key : Tallies(k)
    BY <1>3, EmptyIs DEF Tallies
  <2>3. QED BY <1>7, <2>1, <2>2 DEF Agrees, Mirrors
<1>10. QED BY <1>4, <1>6, <1>8, <1>9 DEF IInv

\* Every step keeps the invariant.
LEMMA NextKeeps ==
    ASSUME IInv, [Next]_vars
    PROVE  IInv'
<1>1. Typed /\ Planned
  BY DEF IInv
<1>2. ASSUME NEW a \in Attempt, NEW g \in Gateway, NEW plan \in Plans, Plan(a, g, plan)
      PROVE  IInv'
  BY <1>1, <1>2, QuietSteps, QuietKeeps
<1>3. ASSUME NEW a \in Attempt, Refuse(a) \/ FailOpen(a) \/ ReleaseLost(a)
      PROVE  IInv'
  BY <1>1, <1>3, QuietSteps, QuietKeeps
<1>4. CASE UNCHANGED vars
  <2>1. /\ backend' = backend /\ now' = now /\ restarts' = restarts /\ ticket' = ticket
        /\ entries' = entries /\ total' = total /\ ttl' = ttl /\ attempt' = attempt
        /\ collided' = collided
    BY <1>4 DEF vars
  <2>2. Quiet
    <3>1. \A b \in Attempt : Same(attempt[b], attempt'[b]) /\ Consistent(attempt[b])'
      BY <1>1, <2>1 DEF Same, Planned, Consistent
    <3>2. \A k \in Key : Thins(entries'[k], k) /\ (Tallies(k) => Tallies(k)')
      BY <1>1, <2>1, SelfThins, SameTallies
    <3>3. QED BY <1>1, <2>1, <3>1, <3>2 DEF Quiet, Typed
  <2>3. QED BY <2>2, QuietKeeps
<1>5. QED BY <1>2, <1>3, <1>4, GrantKeeps, SettleKeeps, ReleaseKeeps, RestartKeeps, TickKeeps DEF Next

\* The invariant holds always.
LEMMA Inductive == Spec => []IInv
<1>1. Init => IInv
  BY InitHolds
<1>2. IInv /\ [Next]_vars => IInv'
  BY NextKeeps
<1>3. QED BY <1>1, <1>2, PTL DEF Spec

-----------------------------------------------------------------------------
(* What the invariant says of the counters.                                  *)

\* Finitely many attempts count in a key, one for each entry that does, with its amount.
LEMMA CountingIs ==
    ASSUME Typed, NEW k \in Key, Mirrors(k)
    PROVE  LET counting == {a \in Attempt : Counts(a, k)}
           IN  /\ IsFiniteSet(counting) /\ IsFiniteSet(Present(k))
               /\ [a \in counting |-> attempt[a].token] \in Bijection(counting, Present(k))
<1> DEFINE counting == {a \in Attempt : Counts(a, k)}
           f == [a \in counting |-> attempt[a].token]
<1>1. IsFiniteSet(Present(k))
  BY FS_Difference DEF Present, Typed
<1>2. \A a \in counting : f[a] \in Present(k) /\ Bears(a, k) /\ f[a] = attempt[a].token
  BY CountsPresent, CountsBears DEF Mirrors
<1>3. \A a, b \in counting : f[a] = f[b] => a = b
  BY <1>2 DEF Mirrors
<1>4. \A t \in Present(k) : \E a \in counting : f[a] = t
  BY DEF Mirrors
<1> HIDE DEF counting
<1>5. f \in [counting -> Present(k)]
  BY <1>2
<1> HIDE DEF f
<1>6. f \in Bijection(counting, Present(k)) /\ f \in Injection(counting, Present(k))
  BY <1>3, <1>4, <1>5 DEF Bijection, Injection, Surjection, IsInjective
<1>7. IsFiniteSet(counting)
  BY <1>1, <1>6, FS_Injection
<1>8. QED BY <1>1, <1>6, <1>7 DEF f, counting

\* What is read of a counter is the sum of its entries, and they are its attempts'.
LEMMA UsedIs ==
    ASSUME IInv, ~collided, NEW k \in Key, Current(k)
    PROVE  Used(k) = Charged(k)
<1>1. Typed /\ Mirrors(k) /\ Tallies(k)
  BY DEF IInv, Agrees
<1> DEFINE counting == {a \in Attempt : Counts(a, k)}
           token == [a \in counting |-> attempt[a].token]
           weights == [a \in counting |-> Weight(a, k)]
           amounts == [t \in Present(k) |-> entries[k][t].amount]
<1>2. IsFiniteSet(counting) /\ IsFiniteSet(Present(k)) /\ token \in Bijection(counting, Present(k))
  BY <1>1, CountingIs
<1>3. \A a \in counting : Weight(a, k) \in Nat
  BY <1>1 DEF Weight, Typed, AttemptState
<1>4. weights \in [counting -> Nat]
  BY <1>3
<1>5. Charged(k) = TotalOf(weights)
  BY DEF Charged, Weight
<1>6. CASE Window[k[1]] = "in_flight"
  <2>1. k[1] \notin Tokens
    BY <1>6, KeysAre, Sizes
  <2>2. \A a \in counting : weights[a] = 1
    BY <2>1 DEF Weight
  <2> HIDE DEF counting, token, weights
  <2>3. TotalOf(weights) = Cardinality(counting)
    BY <1>2, <1>4, <2>2, TotalOfOnes
  <2>4. Cardinality(counting) = Cardinality(Present(k))
    BY <1>2, FS_Bijection DEF ExistsBijection
  <2>5. Used(k) = Cardinality(Present(k))
    BY <1>6 DEF Used, Present
  <2>6. QED BY <1>5, <2>3, <2>4, <2>5
<1>7. CASE Window[k[1]] # "in_flight"
  <2>1. Used(k) = AmountsOf(entries[k], Present(k))
    BY <1>1, <1>7, PrunedIs DEF Used
  <2>2. AmountsOf(entries[k], Present(k)) = TotalOf(amounts)
    BY DEF AmountsOf
  <2>3. \A t \in Present(k) : entries[k][t] \in Entry
    BY <1>1 DEF Present, Typed
  <2>4. amounts \in [Present(k) -> Nat]
    BY <2>3 DEF Entry
  <2>5. \A a \in counting : amounts[token[a]] = weights[a]
    BY <1>1, CountsPresent DEF Mirrors, Entered
  <2> HIDE DEF counting, token, weights, amounts
  <2>6. TotalOf(amounts) = TotalOf(weights)
    BY <1>2, <1>4, <2>4, <2>5, TotalRenamed
  <2>7. QED BY <1>5, <2>1, <2>2, <2>6
<1>8. QED BY <1>6, <1>7

\* What a reservation reads of a counter is exactly what the attempts of its window were
\* charged, unless tokens collided.
THEOREM ReadIsCharged == Spec => []UsedIsCharged
<1>1. IInv => UsedIsCharged
  BY UsedIs DEF UsedIsCharged
<1>2. QED BY <1>1, Inductive, PTL

-----------------------------------------------------------------------------
(* What it says of a grant and of a refusal.                                 *)

\* Whether every counter of a plan has room, by what was really charged.
Room(a) == \A k \in PlanKeys(a) : Charged(k) + Amount(k[1]) <= Limit[k[1]]

\* What the ledger compares with the limits is what was really charged.
LEMMA FitsIsRoom ==
    ASSUME IInv, ~collided, NEW a \in Attempt, \A k \in PlanKeys(a) : Current(k)
    PROVE  Fits(a) <=> Room(a)
<1>1. PlanKeys(a) \subseteq Key
  BY PlanKeysAre DEF IInv
<1>2. \A k \in PlanKeys(a) : Used(k) = Charged(k)
  BY <1>1, UsedIs
<1>3. QED BY <1>2 DEF Fits, Room

\* A planned attempt is charged by its own grant, and refused by its own refusal.
LEMMA PlannedSteps ==
    ASSUME Typed, Planned, NEW a \in Attempt, attempt[a].phase = "planned", Next
    PROVE  /\ attempt'[a].charged => Grant(a)
           /\ attempt'[a].phase = "refused" => Refuse(a)
<1>1. ~attempt[a].charged /\ attempt[a].charged \in BOOLEAN
  BY DEF Planned, Consistent, Typed, AttemptState
<1>2. CASE attempt'[a] = attempt[a]
  BY <1>1, <1>2
<1>3. CASE attempt'[a].charged = FALSE /\ attempt'[a].phase = "ended"
  BY <1>3
<1>4. Uncharged.charged = FALSE /\ Uncharged.phase = "ended"
  BY DEF Uncharged, NewAttempt
<1>5. ASSUME NEW b \in Attempt, NEW g \in Gateway, NEW plan \in Plans, Plan(b, g, plan)
      PROVE  attempt'[a] = attempt[a]
  <2>1. b # a
    BY <1>5 DEF Plan
  <2>2. QED BY <1>5, <2>1, PlanMakes, SetAttempt
<1>6. ASSUME NEW b \in Attempt, Refuse(b) \/ FailOpen(b) \/ ReleaseLost(b)
      PROVE  \/ attempt'[a] = attempt[a]
             \/ b = a /\ Refuse(a) /\ attempt'[a].charged = FALSE
             \/ attempt'[a].charged = FALSE /\ attempt'[a].phase = "ended"
  <2>1. CASE b # a
    BY <1>6, <2>1, EndMakes, SetAttempt
  <2>2. CASE b = a /\ Refuse(a)
    <3>1. attempt'[a] = [NewAttempt EXCEPT !.phase = "refused"]
      BY <2>2 DEF Refuse, Typed
    <3>2. attempt'[a].charged = FALSE
      BY <3>1 DEF NewAttempt
    <3>3. QED BY <2>2, <3>2
  <2>3. CASE b = a /\ FailOpen(a)
    <3>1. attempt'[a] = Uncharged
      BY <2>3 DEF FailOpen, Typed
    <3>2. QED BY <1>4, <3>1
  <2>4. ~(b = a /\ ReleaseLost(b))
    BY DEF ReleaseLost
  <2>5. QED BY <1>6, <2>1, <2>2, <2>3, <2>4
<1>7. ASSUME NEW b \in Attempt, Grant(b)
      PROVE  IF b = a THEN attempt'[a].phase # "refused" ELSE attempt'[a] = attempt[a]
  BY <1>7, GrantIs
<1>8. ASSUME NEW b \in Attempt, Release(b)
      PROVE  attempt'[a] = attempt[a]
  <2>1. b # a
    BY <1>8 DEF Release
  <2>2. QED BY <1>8, <2>1, ReleaseIs
<1>9. ASSUME NEW b \in Attempt, NEW actual \in Actual, Settle(b, actual)
      PROVE  attempt'[a] = attempt[a]
  <2>1. b # a
    BY <1>9 DEF Settle
  <2>2. QED BY <1>9, <2>1, SettleIs
<1>10. ASSUME NEW g \in Gateway, Restart(g)
       PROVE  attempt'[a] \in {attempt[a], Uncharged}
  BY <1>1, <1>10 DEF Restart
<1>11. CASE Tick
  BY <1>2, <1>11 DEF Tick
<1>12. QED BY <1>1, <1>2, <1>3, <1>4, <1>5, <1>6, <1>7, <1>8, <1>9, <1>10, <1>11 DEF Next

\* An attempt is granted its reservation only if every counter of its plan has room for it by
\* what was really charged, and refused only if one has not.
THEOREM GrantedExactly == Spec => GrantsExactly
<1>1. ASSUME IInv, [Next]_vars
      PROVE  [\A a \in Attempt :
                (~collided /\ attempt[a].phase = "planned" /\ \A k \in PlanKeys(a) : Current(k)) =>
                LET room == \A k \in PlanKeys(a) : Charged(k) + Amount(k[1]) <= Limit[k[1]]
                IN  /\ attempt'[a].charged => room
                    /\ attempt'[a].phase = "refused" => ~room]_vars
  <2>1. CASE Next
    <3> SUFFICES ASSUME NEW a \in Attempt, ~collided, attempt[a].phase = "planned",
                        \A k \in PlanKeys(a) : Current(k)
                 PROVE  /\ attempt'[a].charged => Room(a)
                        /\ attempt'[a].phase = "refused" => ~Room(a)
      BY DEF Room
    <3>1. /\ attempt'[a].charged => Grant(a)
          /\ attempt'[a].phase = "refused" => Refuse(a)
      BY <1>1, <2>1, PlannedSteps DEF IInv
    <3>2. Fits(a) <=> Room(a)
      BY <1>1, FitsIsRoom
    <3>3. (Grant(a) => Fits(a)) /\ (Refuse(a) => ~Fits(a))
      BY DEF Grant, Refuse
    <3>4. QED BY <3>1, <3>2, <3>3
  <2>2. QED BY <1>1, <2>1
<1>2. QED BY <1>1, Inductive, PTL DEF Spec, GrantsExactly

-----------------------------------------------------------------------------
(* No total is below what it stands for, tokens shared or not.               *)

\* A total that is at least the sum of the entries; slots have none.
Covered(k, n, e) ==
    IF Window[k[1]] = "in_flight" THEN n = 0 ELSE n >= AmountsOf(e, DOMAIN e)

Covers == \A k \in Key : Covered(k, total[k], entries[k])

\* Pruning takes from the total what it takes from the entries.
LEMMA PrunedCovered ==
    ASSUME Typed, NEW k \in Key, Covered(k, total[k], entries[k])
    PROVE  Covered(k, PrunedTotal(k), Restrict(entries[k], DOMAIN entries[k] \ Stale(k)))
<1> DEFINE e == entries[k]
           r == Restrict(e, DOMAIN e \ Stale(k))
<1>1. e \in [DOMAIN e -> Entry] /\ IsFiniteSet(DOMAIN e) /\ total[k] \in Int
  BY DEF Typed
<1>2. Stale(k) \in SUBSET DOMAIN e
  BY DEF Stale
<1>3. /\ AmountsOf(e, DOMAIN e) = AmountsOf(e, Stale(k)) + AmountsOf(e, Present(k))
      /\ AmountsOf(e, DOMAIN e) \in Nat /\ AmountsOf(e, Stale(k)) \in Nat /\ AmountsOf(e, Present(k)) \in Nat
  BY <1>1, <1>2, AmountsSplit DEF Present
<1>4. DOMAIN r = Present(k) /\ AmountsOf(r, Present(k)) = AmountsOf(e, Present(k))
  <2>1. Thins(r, k) /\ DOMAIN r = Present(k)
    BY PrunedIs
  <2>2. QED BY <2>1, AmountsSame DEF Thins
<1> HIDE DEF r, e
<1>9. ASSUME Window[k[1]] # "in_flight", PrunedTotal(k) >= AmountsOf(e, Present(k))
      PROVE  Covered(k, PrunedTotal(k), r)
  <2>1. AmountsOf(r, DOMAIN r) = AmountsOf(e, Present(k))
    BY <1>4, Zenon
  <2>2. PrunedTotal(k) >= AmountsOf(r, DOMAIN r)
    BY <1>9, <2>1
  <2>3. QED BY <1>9, <2>2 DEF Covered
<1>5. CASE Window[k[1]] = "in_flight"
  BY <1>5 DEF Covered, PrunedTotal
<1>6. CASE Window[k[1]] = "minute"
  <2>1. PrunedTotal(k) = total[k] - AmountsOf(e, Stale(k)) /\ total[k] >= AmountsOf(e, DOMAIN e)
    BY <1>6 DEF PrunedTotal, Covered, e
  <2>2. PrunedTotal(k) >= AmountsOf(e, Present(k))
    BY <1>1, <1>3, <2>1
  <2>3. QED BY <1>6, <1>9, <2>2 DEF r, e
<1>7. CASE Window[k[1]] = "day"
  <2>1. Stale(k) = {} /\ PrunedTotal(k) = total[k] /\ total[k] >= AmountsOf(e, DOMAIN e)
    BY <1>7 DEF Stale, PrunedTotal, Covered, e
  <2>2. Present(k) = DOMAIN e
    BY <2>1 DEF Present, e
  <2>3. PrunedTotal(k) >= AmountsOf(e, Present(k))
    BY <2>1, <2>2
  <2>4. QED BY <1>7, <1>9, <2>3 DEF r, e
<1>8. QED BY <1>5, <1>6, <1>7, KeysAre, Sizes DEF r, e

\* What a reservation leaves of a key is still covered by its total.
LEMMA RemainingCovered ==
    ASSUME Typed, NEW a \in Attempt, NEW k \in Key, Covered(k, total[k], entries[k])
    PROVE  Covered(k, RemainingTotal(a, k), Remaining(a, k))
BY PrunedCovered DEF RemainingTotal, Remaining

\* A grant adds its amount to the total, though it may overwrite an entry.
LEMMA GrantCovered ==
    ASSUME Typed, Planned, NEW a \in Attempt, Grant(a), NEW k \in Key, Covered(k, total[k], entries[k])
    PROVE  Covered(k, total'[k], entries'[k])
<1>1. Covered(k, RemainingTotal(a, k), Remaining(a, k)) /\ k[1] \in Counter /\ Amount(k[1]) \in Nat
  BY RemainingCovered, KeysAre, Sizes
<1>2. CASE k \notin PlanKeys(a)
  BY <1>1, <1>2, GrantPasses
<1>3. CASE k \in PlanKeys(a) /\ Window[k[1]] = "in_flight"
  <2>1. total'[k] = RemainingTotal(a, k)
    BY <1>3, GrantEnters
  <2>2. QED BY <1>1, <1>3, <2>1 DEF Covered
<1>4. CASE k \in PlanKeys(a) /\ Window[k[1]] # "in_flight"
  <2> DEFINE token == attempt[a].token
             r == Remaining(a, k)
             e == entries'[k]
             n == RemainingTotal(a, k)
  <2>1. /\ DOMAIN e = DOMAIN r \cup {token} /\ e \in [DOMAIN e -> Entry]
        /\ e[token] = New(k[1]) /\ total'[k] = n + Amount(k[1])
        /\ \A t \in DOMAIN r \ {token} : e[t] = entries[k][t]
    BY <1>4, GrantEnters
  <2>2. Thins(r, k) /\ n \in Int
    BY RemainingIs
  <2>3. n >= AmountsOf(r, DOMAIN r)
    BY <1>1, <1>4 DEF Covered
  <2>4. r \in [DOMAIN r -> Entry] /\ IsFiniteSet(DOMAIN r) /\ \A t \in DOMAIN r : r[t] = entries[k][t]
    BY <2>2 DEF Thins
  <2>5. e[token].amount = Amount(k[1])
    BY <2>1 DEF New
  <2> HIDE DEF token, r, e, n
  <2>6. \A t \in DOMAIN r \ {token} : e[t].amount = r[t].amount
    BY <2>1, <2>4
  <2>7. e \in [DOMAIN r \cup {token} -> Entry]
    BY <2>1
  <2>8. /\ AmountsOf(e, DOMAIN r \cup {token}) \in Nat /\ AmountsOf(r, DOMAIN r) \in Nat
        /\ token \notin DOMAIN r => AmountsOf(e, DOMAIN r \cup {token}) = AmountsOf(r, DOMAIN r) + e[token].amount
        /\ token \in DOMAIN r => AmountsOf(e, DOMAIN r \cup {token})
                                    = AmountsOf(r, DOMAIN r) - r[token].amount + e[token].amount
    BY <2>4, <2>6, <2>7, AmountsSet
  <2>9. token \in DOMAIN r => r[token].amount \in Nat
    BY <2>4 DEF Entry
  <2>10. n + Amount(k[1]) >= AmountsOf(e, DOMAIN r \cup {token})
    BY <1>1, <2>2, <2>3, <2>5, <2>8, <2>9
  <2>11. total'[k] >= AmountsOf(e, DOMAIN e)
    BY <2>1, <2>10
  <2>12. QED BY <1>4, <2>11 DEF Covered, e
<1>5. QED BY <1>2, <1>3, <1>4

\* A settlement takes from the total what the entry held, no more.
LEMMA SettleCovered ==
    ASSUME Typed, Planned, NEW a \in Attempt, NEW actual \in Actual, Settle(a, actual),
           NEW k \in Key, Covered(k, total[k], entries[k])
    PROVE  Covered(k, total'[k], entries'[k])
<1> DEFINE token == attempt[a].token
           e == entries[k]
           f == entries'[k]
<1>1. CASE ~(k \in PlanKeys(a) /\ Adjusts(a, k))
  BY <1>1, SettleEnters
<1>2. CASE k \in PlanKeys(a) /\ Adjusts(a, k)
  <2>1. /\ f[token].amount = actual /\ token \in DOMAIN e
        /\ total'[k] = total[k] - e[token].amount + actual
    BY <1>2, SettleEnters DEF Adjusts
  <2>2. Window[k[1]] # "in_flight"
    BY <1>2, KeysAre, Sizes DEF Adjusts
  <2>3. total[k] >= AmountsOf(e, DOMAIN e)
    BY <2>2 DEF Covered
  <2>4. e \in [DOMAIN e -> Entry] /\ IsFiniteSet(DOMAIN e) /\ total[k] \in Int /\ actual \in Nat
    BY ConstantsAssumption DEF Typed
  <2>5. /\ DOMAIN f = DOMAIN e /\ f \in [DOMAIN e -> Entry]
        /\ \A t \in DOMAIN e : t # token => f[t] = e[t]
    BY SettleEnters
  <2> HIDE DEF e, f, token
  <2>6. DOMAIN e \cup {token} = DOMAIN e /\ \A t \in DOMAIN e \ {token} : f[t].amount = e[t].amount
    BY <2>1, <2>5
  <2>7. f \in [DOMAIN e \cup {token} -> Entry]
    BY <2>5, <2>6
  <2>8. /\ AmountsOf(e, DOMAIN e) \in Nat /\ AmountsOf(f, DOMAIN e \cup {token}) \in Nat
        /\ AmountsOf(f, DOMAIN e \cup {token}) = AmountsOf(e, DOMAIN e) - e[token].amount + f[token].amount
    BY <2>1, <2>4, <2>6, <2>7, AmountsSet
  <2>9. e[token].amount \in Nat
    BY <2>1, <2>4 DEF Entry
  <2>10. AmountsOf(f, DOMAIN f) = AmountsOf(f, DOMAIN e \cup {token})
    BY <2>5, <2>6
  <2>11. total'[k] >= AmountsOf(f, DOMAIN f)
    BY <2>1, <2>3, <2>4, <2>8, <2>9, <2>10
  <2>12. QED BY <2>2, <2>11 DEF Covered, f
<1>3. QED BY <1>1, <1>2

\* The other steps empty a key, prune it, or leave its total alone.
LEMMA CoversStep ==
    ASSUME Typed, Planned, Covers, [Next]_vars, NEW k \in Key
    PROVE  Covered(k, total'[k], entries'[k])
<1>1. Covered(k, total[k], entries[k])
  BY DEF Covers
<1>2. Covered(k, 0, EmptyEntries)
  BY EmptyIs DEF Covered
<1>3. CASE entries'[k] = entries[k] /\ total'[k] = total[k]
  BY <1>1, <1>3
<1>4. ASSUME NEW a \in Attempt, Refuse(a)
      PROVE  Covered(k, total'[k], entries'[k])
  BY <1>1, <1>4, RemainingCovered DEF Refuse
<1>5. ASSUME NEW a \in Attempt, Release(a)
      PROVE  Covered(k, total'[k], entries'[k])
  <2>1. total'[k] = total[k]
    BY <1>5 DEF Release
  <2>2. CASE Window[k[1]] = "in_flight"
    BY <1>1, <2>1, <2>2 DEF Covered
  <2>3. CASE Window[k[1]] # "in_flight"
    BY <1>1, <1>5, <2>1, <2>3, ReleaseLeaves DEF GivenBack
  <2>4. QED BY <2>2, <2>3
<1>6. ASSUME NEW g \in Gateway, Restart(g)
      PROVE  Covered(k, total'[k], entries'[k])
  <2>1. backend \in {"memory", "redis"}
    BY DEF Typed
  <2>2. \/ entries'[k] = EmptyEntries /\ total'[k] = 0
        \/ entries'[k] = entries[k] /\ total'[k] = total[k]
    BY <1>6, <2>1, RestartIs
  <2>3. QED BY <1>1, <1>2, <2>2
<1>7. CASE Tick
  BY <1>1, <1>2, <1>7 DEF Tick
<1>8. ASSUME NEW a \in Attempt, FailOpen(a) \/ ReleaseLost(a) \/ \E g \in Gateway, plan \in Plans : Plan(a, g, plan)
      PROVE  Covered(k, total'[k], entries'[k])
  <2>1. entries' = entries /\ total' = total
    BY <1>8 DEF FailOpen, ReleaseLost, Plan, ledger
  <2>2. QED BY <1>3, <2>1
<1>9. CASE UNCHANGED vars
  BY <1>3, <1>9 DEF vars
<1>10. QED BY <1>1, <1>4, <1>5, <1>6, <1>7, <1>8, <1>9, GrantCovered, SettleCovered DEF Next

\* Every variable has its type, shared tokens or not; no running total ever falls below
\* zero, as the settlement and the pruning that subtract from it might have it.
THEOREM TotalsTyped == Spec => []TypeOK
<1>1. Init => Covers
  <2> SUFFICES ASSUME Init, NEW k \in Key
               PROVE  Covered(k, total[k], entries[k])
    BY DEF Covers
  <2>1. total[k] = 0 /\ entries[k] = EmptyEntries
    BY DEF Init
  <2>2. QED BY <2>1, EmptyIs DEF Covered
<1>2. IInv /\ Covers /\ [Next]_vars => Covers'
  <2> SUFFICES ASSUME IInv, Covers, [Next]_vars, NEW k \in Key
               PROVE  Covered(k, total[k], entries[k])'
    BY DEF Covers
  <2>1. Covered(k, total'[k], entries'[k])
    BY CoversStep DEF IInv
  <2>2. QED BY <2>1 DEF Covered, AmountsOf
<1>3. IInv /\ Covers => TypeOK
  <2> SUFFICES ASSUME IInv, Covers
               PROVE  TypeOK
    OBVIOUS
  <2>1. Typed
    BY DEF IInv
  <2>2. ASSUME NEW k \in Key
        PROVE  total[k] \in Nat
    <3>1. Covered(k, total[k], entries[k]) /\ total[k] \in Int
      BY <2>1 DEF Covers, Typed
    <3>2. entries[k] \in [DOMAIN entries[k] -> Entry] /\ IsFiniteSet(DOMAIN entries[k])
      BY <2>1 DEF Typed
    <3>3. AmountsOf(entries[k], DOMAIN entries[k]) \in Nat
      <4>1. {} \in SUBSET DOMAIN entries[k]
        OBVIOUS
      <4>2. QED BY <3>2, <4>1, AmountsSplit
    <3>4. QED BY <3>1, <3>3 DEF Covered
  <2>3. total \in [Key -> Nat]
    BY <2>1, <2>2 DEF Typed
  <2>4. \A k \in Key : \A t \in DOMAIN entries[k] : entries[k][t] \in Entry
    BY <2>1 DEF Typed
  <2>5. QED BY <2>1, <2>3, <2>4 DEF Typed, TypeOK
<1>4. QED BY <1>1, <1>2, <1>3, Inductive, PTL DEF Spec
=============================================================================
