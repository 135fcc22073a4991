------------------------------- MODULE KeyProofs -------------------------------
(***************************************************************************)
(* Theorems about the upstream keys: about KeySelection, for any number of *)
(* keys and of requests, any modes, headers, status codes and orders of    *)
(* affinity, and about KeyTable, for any keys, requests, operations and    *)
(* length of the list.                                                     *)
(***************************************************************************)
EXTENDS KeySelection, KeyTable, SequenceTheorems, FunctionTheorems, FiniteSetTheorems,
        WellFoundedInduction, TLAPS

-----------------------------------------------------------------------------
(* Numbers and recursion                                                     *)

\* A set of natural numbers has a smallest element.
LEMMA SmallestExists ==
    ASSUME NEW T, T \subseteq Nat, T # {}
    PROVE  \E k \in T : \A j \in T : k <= j
<1> DEFINE R == OpToRel(<, Nat)
<1>1. IsWellFoundedOn(R, Nat)
  BY NatLessThanWellFounded
<1> HIDE DEF R
<1>2. PICK k \in T : \A j \in T : ~ (<<j, k>> \in R)
  BY <1>1, WFMin
<1>3. \A j \in T : ~ (j < k)
  BY <1>2 DEF R, OpToRel
<1>4. QED
  BY <1>3

\* Induction up to n, for a set in the place of a predicate.
LEMMA UpTo ==
    ASSUME NEW n \in Nat, NEW T, 0 \in T, \A i \in 1..n : i - 1 \in T => i \in T
    PROVE  0..n \subseteq T
<1> DEFINE Bad == {i \in 0..n : i \notin T}
<1>1. CASE Bad # {}
  <2> Bad \subseteq Nat
    OBVIOUS
  <2>1. PICK i \in Bad : \A j \in Bad : i <= j
    <3> HIDE DEF Bad
    <3>1. QED
      BY <1>1, SmallestExists
  <2>2. i \in 1..n /\ i - 1 \in 0..n
    BY <2>1
  <2>3. i - 1 \notin Bad
    BY <2>1, <2>2
  <2>4. QED
    BY <2>1, <2>2, <2>3
<1>2. CASE Bad = {}
  BY <1>2
<1>3. QED
  BY <1>1, <1>2

\* k[i] is what the steps 1 to i of g make of first.
Iterates(k, n, first, g) == k[0] = first /\ \A i \in 1..n : k[i] = g[i][k[i - 1]]

\* A recursion over 0..n whose steps stay in a set is defined.
LEMMA Recursion ==
    ASSUME NEW n \in Nat, NEW S, NEW first \in S, NEW g \in [1..n -> [S -> S]]
    PROVE  \E k \in [0..n -> S] : Iterates(k, n, first, g)
<1> DEFINE T == {m \in 0..n : \E k \in [0..n -> S] : Iterates(k, m, first, g)}
<1>1. 0 \in T
  <2>1. [i \in 0..n |-> first] \in [0..n -> S] /\ Iterates([i \in 0..n |-> first], 0, first, g)
    BY DEF Iterates
  <2>2. QED
    BY <2>1
<1>2. ASSUME NEW m \in 1..n, m - 1 \in T
      PROVE  m \in T
  <2>1. PICK k \in [0..n -> S] : Iterates(k, m - 1, first, g)
    BY <1>2
  <2> DEFINE l == [k EXCEPT ![m] = g[m][k[m - 1]]]
  <2>2. l \in [0..n -> S]
    OBVIOUS
  <2>3. l[m] = g[m][k[m - 1]] /\ \A i \in 0..n : i # m => l[i] = k[i]
    OBVIOUS
  <2> HIDE DEF l
  <2>4. Iterates(l, m, first, g)
    <3>1. l[0] = first
      BY <2>1, <2>3 DEF Iterates
    <3>2. ASSUME NEW i \in 1..m
          PROVE  l[i] = g[i][l[i - 1]]
      BY <2>1, <2>3 DEF Iterates
    <3>3. QED
      BY <3>1, <3>2 DEF Iterates
  <2>5. QED
    BY <2>2, <2>4
<1>3. 0..n \subseteq T
  <2> HIDE DEF T
  <2>1. QED
    BY <1>1, <1>2, UpTo
<1>4. n \in T
  BY <1>3
<1>5. QED
  BY <1>4

LEMMA MinIsIn ==
    ASSUME NEW S, S \subseteq Nat, S # {}
    PROVE  Min(S) \in S
  BY SmallestExists DEF Min

\* A finite set of numbers has an element at each place.
LEMMA NthIsIn ==
    ASSUME NEW ks, IsFiniteSet(ks), ks \subseteq Nat, NEW i \in Nat, i < Cardinality(ks)
    PROVE  Nth(ks, i) \in ks
<1> DEFINE n == Cardinality(ks)
           below(k) == {j \in ks : j < k}
           rank == [k \in ks |-> Cardinality(below(k))]
           T == {rank[k] : k \in ks}
<1>1. n \in Nat
  BY FS_CardinalityType
<1>2. ASSUME NEW k \in ks
      PROVE  /\ IsFiniteSet(below(k)) /\ rank[k] = Cardinality(below(k))
             /\ rank[k] \in Nat /\ rank[k] < n
  <2>1. below(k) \subseteq ks /\ k \notin below(k)
    OBVIOUS
  <2>2. IsFiniteSet(below(k)) /\ Cardinality(below(k)) <= n /\ (Cardinality(below(k)) = n => below(k) = ks)
    BY <2>1, FS_Subset
  <2>3. Cardinality(below(k)) \in Nat
    BY <2>2, FS_CardinalityType
  <2>4. QED
    BY <1>1, <2>1, <2>2, <2>3
<1>3. ASSUME NEW k \in ks, NEW l \in ks, k < l
      PROVE  rank[k] # rank[l]
  <2>1. below(k) \subseteq below(l)
    <3>1. \A j \in ks : j \in Nat
      OBVIOUS
    <3>2. \A j \in ks : j < k => j < l
      BY <1>3, <3>1
    <3>3. QED
      BY <3>2
  <2>2. k \in below(l) /\ k \notin below(k)
    BY <1>3
  <2>3. Cardinality(below(k)) # Cardinality(below(l))
    BY <1>2, <2>1, <2>2, FS_Subset
  <2>4. QED
    BY <1>2, <2>3
<1>4. rank \in Bijection(ks, T)
  <2>1. \A k, l \in ks : rank[k] = rank[l] => k = l
    <3>1. \A k, l \in ks : k < l \/ l < k \/ k = l
      OBVIOUS
    <3>2. QED
      BY <1>3, <3>1
  <2>2. rank \in [ks -> T]
    OBVIOUS
  <2>3. \A t \in T : \E k \in ks : rank[k] = t
    OBVIOUS
  <2> HIDE DEF rank, T
  <2>4. QED
    BY <2>1, <2>2, <2>3 DEF Bijection, Injection, Surjection, IsInjective
<1>5. IsFiniteSet(T) /\ Cardinality(T) = n
  <2> HIDE DEF rank, T
  <2>1. ExistsBijection(ks, T)
    BY <1>4 DEF ExistsBijection
  <2>2. QED
    BY <2>1, FS_Bijection
<1>6. T \subseteq 0..(n - 1)
  <2>1. \A k \in ks : rank[k] \in 0..(n - 1)
    BY <1>1, <1>2
  <2>2. QED
    BY <2>1
<1>7. IsFiniteSet(0..(n - 1)) /\ Cardinality(0..(n - 1)) = n
  <2> HIDE DEF n
  <2>1. 0 \in Int /\ n - 1 \in Int /\ (0 > n - 1 <=> n = 0)
    BY <1>1
  <2>2. IsFiniteSet(0..(n - 1)) /\ Cardinality(0..(n - 1)) = IF 0 > n - 1 THEN 0 ELSE n - 1 - 0 + 1
    BY <2>1, FS_Interval
  <2>3. QED
    BY <1>1, <2>1, <2>2
<1>8. T = 0..(n - 1)
  <2> HIDE DEF T
  <2>1. QED
    BY <1>5, <1>6, <1>7, FS_Subset
<1>9. i \in T
  BY <1>1, <1>8
<1>10. \E k \in ks : Cardinality(below(k)) = i
  BY <1>2, <1>9
<1>11. QED
  BY <1>10 DEF Nth

LEMMA CycleType == Cycle \in Nat \ {0}
<1> DEFINE S == Nat \ {0}
           step(i, m) == i * m
           Def(k) == k = [i \in 0..N |-> IF i = 0 THEN 1 ELSE step(i, k[i - 1])]
           fac == CHOOSE k : Def(k)
           g == [i \in 1..N |-> [m \in S |-> step(i, m)]]
<1>1. Cycle = fac[N]
  BY DEF Cycle
<1>2. N \in Nat /\ 1 \in S
  BY SelectionAssumption
<1>3. \A i \in 1..N, m \in S : step(i, m) \in S
  OBVIOUS
<1> HIDE DEF S, step
<1>4. g \in [1..N -> [S -> S]] /\ \A i \in 1..N, m \in S : g[i][m] = step(i, m)
  BY <1>3
<1> HIDE DEF g
<1>5. PICK k \in [0..N -> S] : Iterates(k, N, 1, g)
  BY <1>2, <1>4, Recursion
<1>6. Def(k)
  <2>1. ASSUME NEW i \in 0..N
        PROVE  k[i] = IF i = 0 THEN 1 ELSE step(i, k[i - 1])
    <3>1. CASE i = 0
      BY <1>5, <3>1 DEF Iterates
    <3>2. CASE i # 0
      <4>1. i \in 1..N /\ i - 1 \in 0..N
        BY <1>2, <3>2
      <4>2. QED
        BY <1>4, <1>5, <3>2, <4>1 DEF Iterates
    <3>3. QED
      BY <3>1, <3>2
  <2>2. QED
    BY <2>1
<1>7. Def(fac)
  <2> HIDE DEF Def
  <2>1. QED
    BY <1>6
<1> HIDE DEF fac
<1>8. fac[0] = 1 /\ \A i \in 1..N : fac[i] = step(i, fac[i - 1])
  <2>1. \A i \in 0..N : fac[i] = IF i = 0 THEN 1 ELSE step(i, fac[i - 1])
    BY <1>7
  <2>2. 0 \in 0..N /\ \A i \in 1..N : i \in 0..N /\ i # 0
    BY <1>2
  <2>3. QED
    BY <2>1, <2>2
<1> DEFINE T == {i \in 0..N : fac[i] \in S}
<1>9. 0 \in T
  BY <1>2, <1>8
<1>10. \A i \in 1..N : i - 1 \in T => i \in T
  BY <1>2, <1>3, <1>8
<1>11. 0..N \subseteq T
  <2> HIDE DEF T
  <2>1. QED
    BY <1>2, <1>9, <1>10, UpTo
<1>12. N \in T
  BY <1>2, <1>11
<1>13. QED
  BY <1>1, <1>12 DEF S

LEMMA MinOfTwo ==
    ASSUME NEW a \in Nat, NEW b \in Nat
    PROVE  Min({a, b}) \in Nat /\ Min({a, b}) <= a /\ Min({a, b}) <= b /\ Min({a, b}) \in {a, b}
<1>1. \E x \in {a, b} : \A y \in {a, b} : x <= y
  OBVIOUS
<1>2. QED
  BY <1>1 DEF Min

-----------------------------------------------------------------------------
(* Ages of failures and rate limits                                          *)

Ages == UNION {[D -> 0..Timeout] : D \in SUBSET Keys}
Limited == [limit : Nat, remaining : Nat, reset : Nat \cup {Missing}]
Limits == UNION {[D -> Limited] : D \in SUBSET Keys}

LEMMA KeysType ==
    /\ Keys \subseteq Nat /\ NoKey \notin Keys /\ IsFiniteSet(Keys) /\ Cardinality(Keys) = N
    /\ N \in Nat \ {0} /\ Timeout \in Nat \ {0} /\ Long \in Nat /\ Timeout < Long
<1>1. N \in Nat \ {0} /\ Timeout \in Nat \ {0}
  BY SelectionAssumption
<1>2. Keys \subseteq Nat /\ NoKey \notin Keys
  BY <1>1 DEF Keys, NoKey
<1>3. 0 \in Int /\ N - 1 \in Int /\ ~ (0 > N - 1)
  BY <1>1
<1>4. IsFiniteSet(0..(N - 1)) /\ Cardinality(0..(N - 1)) = IF 0 > N - 1 THEN 0 ELSE N - 1 - 0 + 1
  BY <1>3, FS_Interval
<1>5. QED
  BY <1>1, <1>2, <1>3, <1>4 DEF Keys, Long

LEMMA AgesElements ==
    ASSUME NEW a \in Ages
    PROVE  /\ DOMAIN a \subseteq Keys /\ a \in [DOMAIN a -> 0..Timeout]
           /\ \A k \in DOMAIN a : a[k] \in Nat /\ a[k] <= Timeout
<1>1. PICK D \in SUBSET Keys : a \in [D -> 0..Timeout]
  BY DEF Ages
<1>2. QED
  BY <1>1, KeysType

LEMMA AgesOf ==
    ASSUME NEW D, D \subseteq Keys, NEW a \in [D -> 0..Timeout]
    PROVE  a \in Ages /\ DOMAIN a = D
  BY DEF Ages

LEMMA CleanKeeps == \A a \in Ages : Clean(a) = a
<1> SUFFICES ASSUME NEW a \in Ages PROVE Clean(a) = a
  OBVIOUS
<1>1. {k \in DOMAIN a : a[k] <= Timeout} = DOMAIN a /\ a = [k \in DOMAIN a |-> a[k]]
  BY AgesElements
<1>2. QED
  BY <1>1 DEF Clean, Restrict

LEMMA OlderAges ==
    ASSUME NEW a \in Ages
    PROVE  /\ Older(a) \in Ages
           /\ DOMAIN Older(a) = {k \in DOMAIN a : a[k] + 1 <= Timeout}
           /\ \A k \in DOMAIN Older(a) : Older(a)[k] = a[k] + 1
<1> DEFINE D == {k \in DOMAIN a : a[k] + 1 <= Timeout}
           b == [k \in DOMAIN a |-> a[k] + 1]
<1>1. Older(a) = [k \in D |-> b[k]]
  <2>1. {k \in DOMAIN b : b[k] <= Timeout} = D
    OBVIOUS
  <2>2. QED
    BY <2>1 DEF Older, Clean, Restrict
<1>2. D \subseteq DOMAIN a /\ \A k \in D : b[k] = a[k] + 1 /\ b[k] \in 0..Timeout
  BY AgesElements, KeysType
<1> HIDE DEF D, b
<1>3. D \subseteq Keys /\ [k \in D |-> b[k]] \in [D -> 0..Timeout]
  BY <1>2, AgesElements
<1>4. Older(a) \in Ages /\ DOMAIN Older(a) = D
  BY <1>1, <1>3, AgesOf
<1>5. \A k \in D : Older(a)[k] = a[k] + 1
  BY <1>1, <1>2
<1>6. QED
  BY <1>4, <1>5 DEF D

LEMMA WithAges ==
    ASSUME NEW a \in Ages, NEW k \in Keys
    PROVE  /\ With(a, k, 0) \in Ages
           /\ DOMAIN With(a, k, 0) = DOMAIN a \cup {k}
           /\ \A j \in DOMAIN a \cup {k} : With(a, k, 0)[j] = IF j = k THEN 0 ELSE a[j]
<1>1. DOMAIN a \cup {k} \subseteq Keys
  BY AgesElements
<1>2. With(a, k, 0) \in [DOMAIN a \cup {k} -> 0..Timeout]
  BY AgesElements, KeysType DEF With
<1>3. QED
  BY <1>1, <1>2, AgesOf DEF With

LEMMA SyncedAges ==
    ASSUME NEW a \in Ages, NEW known \in Ages
    PROVE  /\ Synced(a, known) \in Ages
           /\ DOMAIN Synced(a, known) = DOMAIN known \cup DOMAIN a
           /\ \A k \in DOMAIN known \cup DOMAIN a :
                 Synced(a, known)[k] = IF k \in DOMAIN known THEN known[k] ELSE 0
<1>1. Synced(a, known) = [k \in DOMAIN known \cup DOMAIN a |->
                             IF k \in DOMAIN known THEN known[k] ELSE 0]
  BY CleanKeeps DEF Synced
<1>2. DOMAIN known \cup DOMAIN a \subseteq Keys
  BY AgesElements
<1>3. Synced(a, known) \in [DOMAIN known \cup DOMAIN a -> 0..Timeout]
  BY <1>1, AgesElements, KeysType
<1>4. QED
  BY <1>1, <1>2, <1>3, AgesOf

LEMMA LimitsElements ==
    ASSUME NEW lim \in Limits
    PROVE  DOMAIN lim \subseteq Keys /\ lim \in [DOMAIN lim -> Limited]
  BY DEF Limits

LEMMA LimitsOf ==
    ASSUME NEW D, D \subseteq Keys, NEW lim \in [D -> Limited]
    PROVE  lim \in Limits /\ DOMAIN lim = D
  BY DEF Limits

LEMMA AfterResetLimits ==
    ASSUME NEW lim \in Limits
    PROVE  AfterReset(lim) \in Limits
<1>1. ASSUME NEW info \in Limited PROVE Freed(info) \in Limited
  BY DEF Limited, Freed
<1>2. AfterReset(lim) \in [DOMAIN lim -> Limited]
  BY <1>1, LimitsElements DEF AfterReset
<1>3. QED
  BY <1>2, LimitsElements, LimitsOf

LEMMA ReportedLimits ==
    ASSUME NEW lim \in Limits, NEW k \in Keys, NEW h \in Reports
    PROVE  Reported(lim, k, h) \in Limits
<1>1. h \in [limit : Nat \cup {Missing}, remaining : Nat \cup {Missing}, reset : Nat \cup {Missing}]
  BY SelectionAssumption
<1>2. [limit |-> Counted(h.limit), remaining |-> Counted(h.remaining), reset |-> h.reset] \in Limited
  BY <1>1 DEF Limited, Counted, Missing
<1>3. ASSUME NEW x \in Limited
      PROVE  With(lim, k, x) \in Limits
  <2>1. With(lim, k, x) \in [DOMAIN lim \cup {k} -> Limited]
    BY LimitsElements DEF With
  <2>2. DOMAIN lim \cup {k} \subseteq Keys
    BY LimitsElements
  <2>3. QED
    BY <2>1, <2>2, LimitsOf
<1>4. QED
  BY <1>2, <1>3 DEF Reported

-----------------------------------------------------------------------------
(* One turn of the selection                                                 *)

Options == [rr : 0..Cycle - 1, calls : [Keys -> 0..CallsPerRotation + 1], failed : Ages,
            counter : 0..Cycle - 1, key : Keys \cup {NoKey}, passed : SUBSET Keys, ended : BOOLEAN]

\* d differs from c only in the key, the counts of calls and the counters.
Beside(c, d) == d \in Options /\ d.failed = c.failed /\ d.passed = c.passed /\ d.ended = c.ended

LEMMA NextTurn ==
    ASSUME NEW n \in 0..Cycle - 1
    PROVE  (n + 1) % Cycle \in 0..Cycle - 1
<1>1. n + 1 \in Int /\ Cycle \in Nat \ {0}
  BY CycleType
<1> HIDE DEF Cycle
<1>2. \A m \in Int, c \in Nat \ {0} : m % c \in 0..c - 1
  OBVIOUS
<1>3. QED
  BY <1>1, <1>2

LEMMA InTurn ==
    ASSUME NEW ks, ks \subseteq Keys, ks # {}, NEW n \in Nat
    PROVE  Nth(ks, n % Cardinality(ks)) \in ks
<1>1. IsFiniteSet(ks) /\ ks \subseteq Nat
  BY KeysType, FS_Subset
<1>2. Cardinality(ks) \in Nat \ {0}
  BY <1>1, FS_CardinalityType, FS_EmptySet
<1>3. \A c \in Nat \ {0} : n % c \in Nat /\ n % c < c
  OBVIOUS
<1>4. QED
  BY <1>1, <1>2, <1>3, NthIsIn

LEMMA PickedChoices ==
    ASSUME mode \in Modes, NEW c \in Options, NEW available, available \subseteq Keys, available # {},
           NEW d \in Picked(c, available)
    PROVE  Beside(c, d) /\ d.key \in available
<1> DEFINE picks == CASE mode = "random" -> available
                      [] mode = "fill_first" -> {Min(available)}
                      [] mode = "round_robin" -> {Nth(available, c.rr % Cardinality(available))}
<1>1. picks \subseteq available
  <2>1. CASE mode = "random"
    BY <2>1
  <2>2. CASE mode = "fill_first"
    <3>1. Min(available) \in available
      BY KeysType, MinIsIn
    <3>2. QED
      BY <2>2, <3>1
  <2>3. CASE mode = "round_robin"
    <3>1. c.rr \in Nat
      BY CycleType DEF Options
    <3>2. Nth(available, c.rr % Cardinality(available)) \in available
      BY <3>1, InTurn
    <3>3. QED
      BY <2>3, <3>2
  <2>4. QED
    BY <2>1, <2>2, <2>3, SelectionAssumption
<1>2. PICK k \in picks :
        d = [c EXCEPT !.key = k, !.calls[k] = Min({@ + 1, CallsPerRotation + 1}),
                      !.rr = IF mode = "round_robin" THEN (@ + 1) % Cycle ELSE @]
  BY DEF Picked
<1>3. k \in available /\ k \in Keys
  BY <1>1
<1> HIDE DEF picks
<1>4. c.calls \in [Keys -> 0..CallsPerRotation + 1] /\ c.rr \in 0..Cycle - 1
  BY DEF Options
<1>5. Min({c.calls[k] + 1, CallsPerRotation + 1}) \in 0..CallsPerRotation + 1
  <2>1. c.calls[k] + 1 \in Nat /\ CallsPerRotation + 1 \in Nat
    BY <1>3, <1>4, SelectionAssumption
  <2>2. QED
    BY <2>1, MinOfTwo
<1>6. (IF mode = "round_robin" THEN (c.rr + 1) % Cycle ELSE c.rr) \in 0..Cycle - 1
  BY <1>4, NextTurn
<1>7. d.key = k /\ d.failed = c.failed /\ d.passed = c.passed /\ d.ended = c.ended
  BY <1>2 DEF Options
<1>8. d \in Options
  BY <1>2, <1>3, <1>4, <1>5, <1>6 DEF Options
<1>9. QED
  BY <1>3, <1>7, <1>8 DEF Beside

LEMMA SelectedChoices ==
    ASSUME mode \in Modes, NEW c \in Options, NEW lim, NEW available, available \subseteq Keys,
           available # {},
           NEW d \in Selected(c, lim, available)
    PROVE  Beside(c, d) /\ d.key \in available
<1>1. PICK first \in Picked(c, available) :
        d \in IF ShouldRotate(first, lim)
              THEN Picked([first EXCEPT !.calls[first.key] = 0], available) ELSE {first}
  BY DEF Selected
<1>2. Beside(c, first) /\ first.key \in available
  BY PickedChoices
<1> DEFINE again == [first EXCEPT !.calls[first.key] = 0]
<1>3. /\ again \in Options /\ again.failed = first.failed
      /\ again.passed = first.passed /\ again.ended = first.ended
  <2>1. first \in Options /\ first.key \in Keys
    BY <1>2 DEF Beside
  <2>2. 0 \in 0..CallsPerRotation + 1
    BY SelectionAssumption
  <2>3. [first.calls EXCEPT ![first.key] = 0] \in [Keys -> 0..CallsPerRotation + 1]
    BY <2>1, <2>2 DEF Options
  <2>4. again = [first EXCEPT !.calls = [first.calls EXCEPT ![first.key] = 0]]
    BY <2>1 DEF Options
  <2>5. QED
    BY <2>1, <2>3, <2>4 DEF Options
<1> HIDE DEF again
<1>4. CASE ShouldRotate(first, lim)
  <2>1. d \in Picked(again, available)
    BY <1>1, <1>4 DEF again
  <2>2. Beside(again, d) /\ d.key \in available
    BY <1>3, <2>1, PickedChoices
  <2>3. QED
    BY <1>2, <1>3, <2>2 DEF Beside
<1>5. CASE ~ ShouldRotate(first, lim)
  BY <1>1, <1>2, <1>5
<1>6. QED
  BY <1>4, <1>5

LEMMA NextAvailableKeys ==
    ASSUME NEW lim, NEW ks, ks \subseteq Keys
    PROVE  NextAvailable(lim, ks) \subseteq ks
<1> DEFINE free == {k \in ks : ~ Exhausted(lim, k)}
<1>1. CASE free # {}
  <2>1. Min(free) \in free
    BY <1>1, KeysType, MinIsIn
  <2>2. QED
    BY <1>1, <2>1 DEF NextAvailable
<1>2. CASE free = {}
  BY <1>2 DEF NextAvailable, Earliest
<1>3. QED
  BY <1>1, <1>2

LEMMA LastResortChoices ==
    ASSUME NEW c \in Options, NEW lim, NEW ages, NEW ks, ks \subseteq Keys, ks # {},
           NEW d \in LastResort(c, lim, ages, ks)
    PROVE  Beside(c, d) /\ d.key \in ks
<1> DEFINE next == NextAvailable(lim, ks)
           known == ks \cap DOMAIN ages
           turn == Nth(ks, c.counter % Cardinality(ks))
<1>1. ASSUME NEW k \in ks, d = [c EXCEPT !.key = k]
      PROVE  Beside(c, d) /\ d.key \in ks
  BY <1>1 DEF Beside, Options
<1>2. CASE next # {}
  BY <1>1, <1>2, NextAvailableKeys DEF LastResort
<1>3. CASE next = {} /\ known # {}
  BY <1>1, <1>3 DEF LastResort, Oldest
<1>4. CASE next = {} /\ known = {}
  <2>1. turn \in ks
    BY CycleType, InTurn DEF Options
  <2>2. d = [c EXCEPT !.key = turn, !.counter = (@ + 1) % Cycle]
    BY <1>4 DEF LastResort
  <2> HIDE DEF turn
  <2>3. (c.counter + 1) % Cycle \in 0..Cycle - 1
    BY NextTurn DEF Options
  <2>4. QED
    BY <2>1, <2>2, <2>3 DEF Beside, Options
<1>5. QED
  BY <1>2, <1>3, <1>4

\* Keys that are neither exhausted nor in a record of failures.
Good(lim, failures, k) == ~ Exhausted(lim, k) /\ k \notin failures

\* A turn ends with a key that is left, if there is one, and with one that is
\* neither exhausted nor failed in the client's record if one of them is in no
\* record; the selector learns of the client's failures.
LEMMA NextKeyChoices ==
    ASSUME mode \in Modes, enabled \subseteq Keys, NEW c \in Options, NEW lim, NEW ages \in Ages,
           NEW d \in NextKey(c, lim, ages)
    PROVE  /\ d \in Options /\ d.passed = c.passed /\ d.ended = c.ended
           /\ IF enabled \ c.passed = {} THEN d.key = NoKey ELSE d.key \in enabled \ c.passed
           /\ DOMAIN d.failed \subseteq DOMAIN c.failed \cup DOMAIN ages
           /\ \A k \in DOMAIN d.failed :
                 \/ k \in DOMAIN c.failed /\ d.failed[k] = c.failed[k]
                 \/ k \in DOMAIN ages
           /\ (\E k \in enabled \ c.passed : Good(lim, DOMAIN c.failed \cup DOMAIN ages, k))
              => Good(lim, DOMAIN ages, d.key)
<1> DEFINE known == IF ages = <<>> THEN c.failed ELSE Synced(ages, c.failed)
           left == enabled \ c.passed
           cleaned == [c EXCEPT !.failed = Clean(known)]
           available == {k \in left : ~ Exhausted(lim, k) /\ k \notin DOMAIN cleaned.failed}
<1>1. c.failed \in Ages
  BY DEF Options
<1>2. /\ known \in Ages /\ DOMAIN known = DOMAIN c.failed \cup DOMAIN ages
      /\ \A k \in DOMAIN known : (k \in DOMAIN c.failed /\ known[k] = c.failed[k]) \/ k \in DOMAIN ages
  <2>1. CASE ages = <<>>
    BY <1>1, <2>1
  <2>2. CASE ages # <<>>
    <3>1. known = Synced(ages, c.failed)
      BY <2>2
    <3> HIDE DEF known
    <3>2. known \in Ages /\ DOMAIN known = DOMAIN c.failed \cup DOMAIN ages
      BY <1>1, <3>1, SyncedAges
    <3>3. \A k \in DOMAIN c.failed \cup DOMAIN ages :
            known[k] = IF k \in DOMAIN c.failed THEN c.failed[k] ELSE 0
      BY <1>1, <3>1, SyncedAges
    <3>4. QED
      BY <3>2, <3>3
  <2>3. QED
    BY <2>1, <2>2
<1> HIDE DEF known
<1>3. Clean(known) = known
  BY <1>2, CleanKeeps
<1>4. /\ cleaned = [c EXCEPT !.failed = known] /\ cleaned \in Options /\ cleaned.failed = known
      /\ cleaned.passed = c.passed /\ cleaned.ended = c.ended
  BY <1>2, <1>3 DEF Options
<1>5. d \in IF left = {} THEN {[c EXCEPT !.failed = known, !.key = NoKey]}
            ELSE IF available # {} THEN Selected(cleaned, lim, available)
            ELSE LastResort(cleaned, lim, ages, left)
  BY DEF NextKey, known
<1>6. left \subseteq Keys /\ available \subseteq left
  OBVIOUS
<1>7. ASSUME Beside(cleaned, d)
      PROVE  /\ d \in Options /\ d.passed = c.passed /\ d.ended = c.ended
             /\ DOMAIN d.failed \subseteq DOMAIN c.failed \cup DOMAIN ages
             /\ \A k \in DOMAIN d.failed :
                   \/ k \in DOMAIN c.failed /\ d.failed[k] = c.failed[k]
                   \/ k \in DOMAIN ages
  BY <1>2, <1>4, <1>7 DEF Beside
<1>8. CASE left = {}
  <2>1. d = [c EXCEPT !.failed = known, !.key = NoKey]
    BY <1>5, <1>8
  <2>2. Beside(cleaned, d) /\ d.key = NoKey
    BY <1>2, <1>4, <2>1 DEF Options, Beside
  <2>3. QED
    BY <1>7, <1>8, <2>2
<1>9. CASE left # {} /\ available # {}
  <2>1. Beside(cleaned, d) /\ d.key \in available
    BY <1>4, <1>5, <1>6, <1>9, SelectedChoices
  <2>2. Good(lim, DOMAIN ages, d.key)
    BY <1>2, <1>4, <2>1 DEF Good
  <2>3. QED
    BY <1>6, <1>7, <1>9, <2>1, <2>2
<1>10. CASE left # {} /\ available = {}
  <2>1. Beside(cleaned, d) /\ d.key \in left
    BY <1>4, <1>5, <1>6, <1>10, LastResortChoices
  <2>2. ~ \E k \in left : Good(lim, DOMAIN c.failed \cup DOMAIN ages, k)
    BY <1>2, <1>4, <1>10 DEF Good
  <2>3. QED
    BY <1>7, <1>10, <2>1, <2>2
<1>11. QED
  BY <1>8, <1>9, <1>10

-----------------------------------------------------------------------------
(* All turns                                                                 *)

\* Where a choice is after n turns, when f is what the selector knew at first:
\* made, and well if it can be; over, with no key left; or still open after n
\* keys without quota.
Tried(c, n, f, lim, ages, full) ==
    /\ c \in Options /\ c.passed \subseteq enabled \cap full
    /\ DOMAIN c.failed \subseteq DOMAIN f \cup DOMAIN ages
    /\ \A k \in DOMAIN c.failed : (k \in DOMAIN f /\ c.failed[k] = f[k]) \/ k \in DOMAIN ages
    /\ \/ /\ ~ Undecided(c, full)
          /\ c.key \in enabled \ full
          /\ (\E k \in enabled \ full : Good(lim, DOMAIN f \cup DOMAIN ages, k))
             => Good(lim, DOMAIN ages, c.key)
       \/ Undecided(c, full) /\ c.ended /\ enabled \subseteq c.passed
       \/ Undecided(c, full) /\ ~ c.ended /\ Cardinality(c.passed) >= n

\* What a turn makes of a choice.
Turned(e, full) ==
    IF e.key = NoKey THEN [e EXCEPT !.ended = TRUE]
    ELSE IF e.key \in full THEN [e EXCEPT !.passed = @ \cup {e.key}]
    ELSE e

LEMMA TryElements ==
    ASSUME NEW cs, NEW lim, NEW ages, NEW full, NEW d \in Try(cs, lim, ages, full)
    PROVE  \E c \in cs :
              \/ (c.ended \/ ~ Undecided(c, full)) /\ d = c
              \/ /\ ~ c.ended /\ Undecided(c, full)
                 /\ \E e \in NextKey(c, lim, ages) : d = Turned(e, full)
<1>1. PICK c \in cs :
        d \in IF c.ended \/ ~ Undecided(c, full) THEN {c}
              ELSE {Turned(e, full) : e \in NextKey(c, lim, ages)}
  BY DEF Try, Turned
<1>2. QED
  BY <1>1

LEMMA TurnedOptions ==
    ASSUME NEW e \in Options, NEW full
    PROVE  Turned(e, full) \in Options
<1>1. [e EXCEPT !.ended = TRUE] \in Options
  BY DEF Options
<1>2. CASE e.key # NoKey
  <2>1. e.key \in Keys /\ e.passed \cup {e.key} \subseteq Keys
    BY <1>2 DEF Options
  <2>2. [e EXCEPT !.passed = @ \cup {e.key}] \in Options
    BY <2>1 DEF Options
  <2>3. QED
    BY <1>2, <2>2 DEF Turned
<1>3. QED
  BY <1>1, <1>2 DEF Turned

LEMMA TryOptions ==
    ASSUME mode \in Modes, enabled \subseteq Keys, NEW cs \in SUBSET Options, NEW lim, NEW ages \in Ages,
           NEW full
    PROVE  Try(cs, lim, ages, full) \in SUBSET Options
<1> SUFFICES ASSUME NEW d \in Try(cs, lim, ages, full) PROVE d \in Options
  OBVIOUS
<1>1. PICK c \in cs :
        \/ d = c
        \/ \E e \in NextKey(c, lim, ages) : d = Turned(e, full)
  BY TryElements
<1>2. c \in Options
  OBVIOUS
<1>3. ASSUME NEW e \in NextKey(c, lim, ages) PROVE e \in Options
  BY <1>2, NextKeyChoices
<1>4. QED
  BY <1>1, <1>2, <1>3, TurnedOptions

LEMMA TryOnce ==
    ASSUME mode \in Modes, enabled \subseteq Keys, NEW n \in Nat, NEW f \in Ages, NEW lim,
           NEW ages \in Ages, NEW full, NEW c, Tried(c, n, f, lim, ages, full),
           ~ c.ended, Undecided(c, full), NEW e \in NextKey(c, lim, ages)
    PROVE  Tried(Turned(e, full), n + 1, f, lim, ages, full)
<1> DEFINE d == Turned(e, full)
           left == enabled \ c.passed
<1>1. /\ c \in Options /\ c.passed \subseteq enabled \cap full /\ Cardinality(c.passed) >= n
      /\ DOMAIN c.failed \subseteq DOMAIN f \cup DOMAIN ages
      /\ \A k \in DOMAIN c.failed : (k \in DOMAIN f /\ c.failed[k] = f[k]) \/ k \in DOMAIN ages
  BY DEF Tried
<1>2. /\ e \in Options /\ e.passed = c.passed /\ e.ended = c.ended
      /\ IF left = {} THEN e.key = NoKey ELSE e.key \in left
      /\ DOMAIN e.failed \subseteq DOMAIN c.failed \cup DOMAIN ages
      /\ \A k \in DOMAIN e.failed :
            \/ k \in DOMAIN c.failed /\ e.failed[k] = c.failed[k]
            \/ k \in DOMAIN ages
      /\ (\E k \in left : Good(lim, DOMAIN c.failed \cup DOMAIN ages, k)) => Good(lim, DOMAIN ages, e.key)
  BY <1>1, NextKeyChoices
<1>3. d \in Options /\ d.failed = e.failed /\ d.key = e.key
  <2>1. d \in Options
    BY <1>2, TurnedOptions
  <2>2. d.failed = e.failed /\ d.key = e.key
    BY <1>2 DEF Turned, Options
  <2>3. QED
    BY <2>1, <2>2
<1>4. /\ DOMAIN d.failed \subseteq DOMAIN f \cup DOMAIN ages
      /\ \A k \in DOMAIN d.failed : (k \in DOMAIN f /\ d.failed[k] = f[k]) \/ k \in DOMAIN ages
  <2> HIDE DEF d, left
  <2>1. DOMAIN d.failed \subseteq DOMAIN f \cup DOMAIN ages
    BY <1>1, <1>2, <1>3
  <2>2. ASSUME NEW k \in DOMAIN d.failed
        PROVE  (k \in DOMAIN f /\ d.failed[k] = f[k]) \/ k \in DOMAIN ages
    BY <1>1, <1>2, <1>3
  <2>3. QED
    BY <2>1, <2>2
<1>5. CASE e.key = NoKey
  <2>1. left = {}
    BY <1>2, <1>5, KeysType
  <2>2. d = [e EXCEPT !.ended = TRUE]
    BY <1>5 DEF Turned
  <2>3. d.ended /\ d.passed = c.passed
    BY <1>2, <2>2 DEF Options
  <2>4. Undecided(d, full) /\ enabled \subseteq d.passed
    BY <1>3, <1>5, <2>1, <2>3 DEF Undecided
  <2>5. QED
    BY <1>1, <1>3, <1>4, <2>3, <2>4 DEF Tried
<1>6. CASE e.key # NoKey /\ e.key \in full
  <2>1. e.key \in enabled /\ e.key \notin c.passed /\ e.key \in full
    BY <1>2, <1>6
  <2>2. d = [e EXCEPT !.passed = @ \cup {e.key}]
    BY <1>6 DEF Turned
  <2>3. d.passed = c.passed \cup {e.key} /\ d.ended = c.ended
    BY <1>2, <2>2 DEF Options
  <2>4. Undecided(d, full) /\ ~ d.ended
    BY <1>3, <2>1, <2>3 DEF Undecided
  <2>5. IsFiniteSet(c.passed)
    BY <1>1, KeysType, FS_Subset DEF Options
  <2>6. Cardinality(d.passed) = Cardinality(c.passed) + 1 /\ Cardinality(c.passed) \in Nat
    BY <2>1, <2>3, <2>5, FS_AddElement, FS_CardinalityType
  <2>7. Cardinality(d.passed) >= n + 1
    BY <1>1, <2>6
  <2>8. d.passed \subseteq enabled \cap full
    BY <1>1, <2>1, <2>3
  <2>9. QED
    BY <1>3, <1>4, <2>4, <2>7, <2>8 DEF Tried
<1>7. CASE e.key # NoKey /\ e.key \notin full
  <2>1. d = e /\ e.key \in left /\ ~ Undecided(d, full)
    BY <1>2, <1>7 DEF Turned, Undecided
  <2>2. ASSUME NEW k \in enabled \ full, Good(lim, DOMAIN f \cup DOMAIN ages, k)
        PROVE  Good(lim, DOMAIN ages, e.key)
    <3>1. k \in left
      BY <1>1
    <3>2. Good(lim, DOMAIN c.failed \cup DOMAIN ages, k)
      BY <1>1, <2>2 DEF Good
    <3>3. QED
      BY <1>2, <3>1, <3>2
  <2>3. d.passed \subseteq enabled \cap full /\ d.key \in enabled \ full
    BY <1>1, <1>2, <1>7, <2>1
  <2>4. QED
    BY <1>3, <1>4, <2>1, <2>2, <2>3 DEF Tried
<1>8. QED
  BY <1>5, <1>6, <1>7

LEMMA TryTried ==
    ASSUME mode \in Modes, enabled \subseteq Keys, NEW n \in Nat, NEW f \in Ages, NEW lim,
           NEW ages \in Ages, NEW full, NEW cs, \A c \in cs : Tried(c, n, f, lim, ages, full),
           NEW d \in Try(cs, lim, ages, full)
    PROVE  Tried(d, n + 1, f, lim, ages, full)
<1>1. PICK c \in cs :
        \/ (c.ended \/ ~ Undecided(c, full)) /\ d = c
        \/ /\ ~ c.ended /\ Undecided(c, full)
           /\ \E e \in NextKey(c, lim, ages) : d = Turned(e, full)
  BY TryElements
<1>2. CASE (c.ended \/ ~ Undecided(c, full)) /\ d = c
  BY <1>2 DEF Tried
<1>3. CASE /\ ~ c.ended /\ Undecided(c, full)
           /\ \E e \in NextKey(c, lim, ages) : d = Turned(e, full)
  <2>1. PICK e \in NextKey(c, lim, ages) : d = Turned(e, full)
    BY <1>3
  <2>2. Tried(Turned(e, full), n + 1, f, lim, ages, full)
    BY <1>3, TryOnce
  <2>3. QED
    BY <2>1, <2>2
<1>4. QED
  BY <1>1, <1>2, <1>3

LEMMA TriesTried ==
    ASSUME mode \in Modes, enabled \subseteq Keys, NEW f \in Ages, NEW lim,
           NEW ages \in Ages, NEW full, NEW first, Tried(first, 0, f, lim, ages, full),
           NEW d \in Tries(first, lim, ages, full)
    PROVE  Tried(d, N, f, lim, ages, full)
<1> DEFINE S == SUBSET Options
           step(cs) == Try(cs, lim, ages, full)
           Def(k) == k = [i \in 0..N |-> IF i = 0 THEN {first} ELSE step(k[i - 1])]
           all == CHOOSE k : Def(k)
           g == [i \in 1..N |-> [cs \in S |-> step(cs)]]
<1>1. Tries(first, lim, ages, full) = all[N]
  BY DEF Tries
<1>2. N \in Nat /\ {first} \in S
  BY KeysType DEF Tried
<1>3. \A cs \in S : step(cs) \in S
  BY TryOptions
<1> HIDE DEF S, step
<1>4. g \in [1..N -> [S -> S]] /\ \A i \in 1..N, cs \in S : g[i][cs] = step(cs)
  BY <1>3
<1> HIDE DEF g
<1>5. PICK k \in [0..N -> S] : Iterates(k, N, {first}, g)
  BY <1>2, <1>4, Recursion
<1>6. Def(k)
  <2>1. ASSUME NEW i \in 0..N
        PROVE  k[i] = IF i = 0 THEN {first} ELSE step(k[i - 1])
    <3>1. CASE i = 0
      BY <1>5, <3>1 DEF Iterates
    <3>2. CASE i # 0
      <4>1. i \in 1..N /\ i - 1 \in 0..N
        BY <1>2, <3>2
      <4>2. QED
        BY <1>4, <1>5, <3>2, <4>1 DEF Iterates
    <3>3. QED
      BY <3>1, <3>2
  <2>2. QED
    BY <2>1
<1>7. Def(all)
  <2> HIDE DEF Def
  <2>1. QED
    BY <1>6
<1> HIDE DEF all
<1>8. all[0] = {first} /\ \A i \in 1..N : all[i] = step(all[i - 1])
  <2>1. \A i \in 0..N : all[i] = IF i = 0 THEN {first} ELSE step(all[i - 1])
    BY <1>7
  <2>2. 0 \in 0..N /\ \A i \in 1..N : i \in 0..N /\ i # 0
    BY <1>2
  <2>3. QED
    BY <2>1, <2>2
<1> DEFINE T == {i \in 0..N : \A c \in all[i] : Tried(c, i, f, lim, ages, full)}
<1>9. 0 \in T
  BY <1>2, <1>8
<1>10. ASSUME NEW i \in 1..N, i - 1 \in T
       PROVE  i \in T
  <2>1. i - 1 \in Nat /\ i \in 0..N /\ (i - 1) + 1 = i
    BY <1>2
  <2>2. \A c \in all[i - 1] : Tried(c, i - 1, f, lim, ages, full)
    BY <1>10
  <2>3. all[i] = Try(all[i - 1], lim, ages, full)
    BY <1>8 DEF step
  <2>4. \A c \in all[i] : Tried(c, (i - 1) + 1, f, lim, ages, full)
    BY <2>1, <2>2, <2>3, TryTried
  <2>5. QED
    BY <2>1, <2>4
<1>11. 0..N \subseteq T
  <2> HIDE DEF T
  <2>1. QED
    BY <1>2, <1>9, <1>10, UpTo
<1>12. N \in T
  BY <1>2, <1>11
<1>13. QED
  BY <1>1, <1>12

-----------------------------------------------------------------------------
(* The choice of a request                                                   *)

\* A choice is of a key with quota, and of a good one if some key is good; or
\* every enabled key was passed over for its quota.
LEMMA OutcomesChoices ==
    ASSUME mode \in Modes, enabled \subseteq Keys, NEW order \in Affinities, NEW lim,
           NEW ages \in Ages, NEW full \in SUBSET Keys, Opening \in Options,
           NEW c \in Outcomes(order, lim, ages, full)
    PROVE  /\ c \in Options
           /\ \A k \in DOMAIN c.failed :
                 \/ k \in DOMAIN selector.failed /\ c.failed[k] = selector.failed[k]
                 \/ k \in DOMAIN ages
           /\ IF Undecided(c, full) THEN c.passed \subseteq full /\ c.passed = enabled
              ELSE /\ c.key \in enabled \ full
                   /\ (\E k \in enabled \ full :
                          Good(lim, DOMAIN selector.failed \cup DOMAIN ages, k))
                      => Good(lim, DOMAIN ages, c.key)
<1> DEFINE ranked == Ranked(order, lim, ages)
           open == {i \in ranked : order[i] \notin full}
           first == [Opening EXCEPT !.passed = {order[i] : i \in ranked}]
<1>1. ranked \subseteq Nat
  BY SelectionAssumption DEF Ranked
<1>2. \A i \in ranked : order[i] \in enabled /\ Good(lim, DOMAIN ages, order[i])
  BY DEF Ranked, Good
<1>3. c \in IF open # {} THEN {[Opening EXCEPT !.key = order[Min(open)]]}
            ELSE Tries(first, lim, ages, full)
  BY DEF Outcomes
<1>4. CASE open # {}
  <2>1. Min(open) \in open
    BY <1>1, <1>4, MinIsIn
  <2>2. c = [Opening EXCEPT !.key = order[Min(open)]]
    BY <1>3, <1>4
  <2>3. /\ order[Min(open)] \in enabled \ full /\ order[Min(open)] \in Keys
        /\ Good(lim, DOMAIN ages, order[Min(open)])
    BY <1>2, <2>1
  <2> HIDE DEF open, ranked
  <2>4. c \in Options /\ c.key = order[Min(open)] /\ c.failed = selector.failed
    BY <2>2, <2>3 DEF Opening, Options
  <2>5. ~ Undecided(c, full)
    BY <2>3, <2>4, KeysType DEF Undecided
  <2>6. QED
    BY <2>3, <2>4, <2>5
<1>5. CASE open = {}
  <2>1. {order[i] : i \in ranked} \subseteq enabled \cap full
    BY <1>2, <1>5
  <2> HIDE DEF open, ranked
  <2>2. first.passed \subseteq Keys
    BY <2>1 DEF Opening
  <2>3. first \in Options
    BY <2>2 DEF Opening, Options
  <2>4. /\ first.failed = selector.failed /\ first.key = NoKey /\ ~ first.ended
        /\ first.passed \subseteq enabled \cap full
    BY <2>1 DEF Opening
  <2>5. Cardinality(first.passed) \in Nat
    BY <2>2, KeysType, FS_Subset, FS_CardinalityType
  <2>6. selector.failed \in Ages
    BY DEF Opening, Options
  <2> HIDE DEF first
  <2>7. Tried(first, 0, selector.failed, lim, ages, full)
    BY <2>3, <2>4, <2>5 DEF Tried, Undecided
  <2>8. Tried(c, N, selector.failed, lim, ages, full)
    BY <1>3, <1>5, <2>6, <2>7, TriesTried
  <2>9. ASSUME Undecided(c, full), Cardinality(c.passed) >= N
        PROVE  c.passed = Keys
    <3>1. c.passed \subseteq Keys
      BY <2>8 DEF Tried
    <3>2. Cardinality(c.passed) <= N /\ Cardinality(c.passed) \in Nat
          /\ (Cardinality(c.passed) = N => c.passed = Keys)
      BY <3>1, KeysType, FS_Subset, FS_CardinalityType
    <3>3. QED
      BY <2>9, <3>2, KeysType
  <2>10. Undecided(c, full) => c.passed \subseteq full /\ c.passed = enabled
    BY <2>8, <2>9 DEF Tried
  <2>11. QED
    BY <2>8, <2>10 DEF Tried
<1>6. QED
  BY <1>4, <1>5

-----------------------------------------------------------------------------
(* The invariant                                                             *)

Phases == {"select", "sent", "quota_exhausted", "no_available_keys"}

\* What the two records of failures remember of each key: the client's, the
\* age of its last failure, for the timeout; the selector's, an age that may
\* be behind by another timeout.
Remember ==
    \A k \in Keys :
       /\ k \in DOMAIN failed <=> quiet[k] <= Timeout
       /\ k \in DOMAIN failed => failed[k] = quiet[k]
       /\ k \in DOMAIN selector.failed => quiet[k] <= selector.failed[k] + Timeout

SelectionInv ==
    /\ mode \in Modes
    /\ selector \in [rr : 0 .. Cycle - 1, calls : [Keys -> 0 .. CallsPerRotation + 1], failed : Ages]
    /\ failed \in Ages
    /\ counter \in 0 .. Cycle - 1
    /\ limits \in Limits
    /\ enabled \subseteq Keys
    /\ request \in [Requests -> [phase : Phases, key : Keys \cup {NoKey}, full : SUBSET Keys]]
    /\ \A r \in Requests : request[r].phase = "sent" => request[r].key \in Keys
    /\ quiet \in [Keys -> 0 .. Long]
    /\ Remember

LEMMA InitHolds == Init => SelectionInv
<1> SUFFICES ASSUME Init PROVE SelectionInv
  OBVIOUS
<1>1. <<>> \in Ages /\ <<>> \in Limits /\ DOMAIN <<>> = {}
  <2>1. <<>> \in Seq({}) /\ Len(<<>>) = 0
    OBVIOUS
  <2>2. DOMAIN <<>> = 1..0
    BY <2>1
  <2>3. 1..0 = {}
    OBVIOUS
  <2>4. \A S : <<>> \in [{} -> S]
    BY <2>2, <2>3
  <2>5. <<>> \in [{} -> 0..Timeout] /\ <<>> \in [{} -> Limited] /\ {} \in SUBSET Keys
    BY <2>4
  <2>6. QED
    BY <2>2, <2>3, <2>5 DEF Ages, Limits
<1>2. 0 \in 0..Cycle - 1
  BY CycleType
<1>3. [k \in Keys |-> 0] \in [Keys -> 0..CallsPerRotation + 1]
  BY SelectionAssumption
<1>4. selector \in [rr : 0..Cycle - 1, calls : [Keys -> 0..CallsPerRotation + 1], failed : Ages]
  BY <1>1, <1>2, <1>3 DEF Init
<1>5. /\ request \in [Requests -> [phase : Phases, key : Keys \cup {NoKey}, full : SUBSET Keys]]
      /\ \A r \in Requests : request[r].phase = "sent" => request[r].key \in Keys
  BY DEF Init, Waiting, Phases
<1>6. quiet \in [Keys -> 0..Long]
  BY KeysType DEF Init
<1>7. Remember
  BY <1>1, KeysType DEF Init, Remember
<1>8. QED
  BY <1>1, <1>2, <1>4, <1>5, <1>6, <1>7 DEF Init, SelectionInv

\* What a selection does, when the invariant holds.
LEMMA SelectEffect ==
    ASSUME SelectionInv, NEW r \in Requests, Select(r)
    PROVE  \E c \in Options, full \in SUBSET Keys :
              /\ request[r].phase = "select"
              /\ selector' = [rr |-> c.rr, calls |-> c.calls, failed |-> c.failed]
              /\ counter' = c.counter
              /\ failed' = failed
              /\ limits' = AfterReset(limits)
              /\ request' = [request EXCEPT ![r] =
                   IF Undecided(c, full)
                   THEN [@ EXCEPT !.phase = Refusal(c), !.key = NoKey, !.full = full]
                   ELSE [@ EXCEPT !.phase = "sent", !.key = c.key, !.full = full]]
              /\ UNCHANGED <<mode, enabled, quiet>>
              /\ \A k \in DOMAIN c.failed :
                    \/ k \in DOMAIN selector.failed /\ c.failed[k] = selector.failed[k]
                    \/ k \in DOMAIN failed
              /\ IF Undecided(c, full) THEN c.passed \subseteq full /\ c.passed = enabled
                 ELSE /\ c.key \in enabled \ full
                      /\ (\E k \in enabled \ full :
                             Good(AfterReset(limits), DOMAIN selector.failed \cup DOMAIN failed, k))
                         => Good(AfterReset(limits), DOMAIN failed, c.key)
<1>1. Clean(failed) = failed
  BY CleanKeeps DEF SelectionInv
<1>2. PICK order \in Affinities, full \in SUBSET Keys :
        \E c \in Outcomes(order, AfterReset(limits), failed, full) :
              /\ selector' = [rr |-> c.rr, calls |-> c.calls, failed |-> c.failed]
              /\ counter' = c.counter
              /\ failed' = failed
              /\ limits' = AfterReset(limits)
              /\ request' = [request EXCEPT ![r] =
                   IF Undecided(c, full)
                   THEN [@ EXCEPT !.phase = Refusal(c), !.key = NoKey, !.full = full]
                   ELSE [@ EXCEPT !.phase = "sent", !.key = c.key, !.full = full]]
  BY <1>1 DEF Select
<1>3. PICK c \in Outcomes(order, AfterReset(limits), failed, full) :
              /\ selector' = [rr |-> c.rr, calls |-> c.calls, failed |-> c.failed]
              /\ counter' = c.counter
              /\ failed' = failed
              /\ limits' = AfterReset(limits)
              /\ request' = [request EXCEPT ![r] =
                   IF Undecided(c, full)
                   THEN [@ EXCEPT !.phase = Refusal(c), !.key = NoKey, !.full = full]
                   ELSE [@ EXCEPT !.phase = "sent", !.key = c.key, !.full = full]]
  BY <1>2
<1>4. Opening \in Options
  BY DEF SelectionInv, Opening, Options
<1>5. /\ c \in Options
      /\ \A k \in DOMAIN c.failed :
            \/ k \in DOMAIN selector.failed /\ c.failed[k] = selector.failed[k]
            \/ k \in DOMAIN failed
      /\ IF Undecided(c, full) THEN c.passed \subseteq full /\ c.passed = enabled
         ELSE /\ c.key \in enabled \ full
              /\ (\E k \in enabled \ full :
                     Good(AfterReset(limits), DOMAIN selector.failed \cup DOMAIN failed, k))
                 => Good(AfterReset(limits), DOMAIN failed, c.key)
  <2>1. mode \in Modes /\ enabled \subseteq Keys /\ failed \in Ages
    BY DEF SelectionInv
  <2>2. QED
    BY <1>4, <2>1, OutcomesChoices
<1>6. request[r].phase = "select" /\ UNCHANGED <<mode, enabled, quiet>>
  BY DEF Select
<1>7. QED
  BY <1>3, <1>5, <1>6

LEMMA SelectKeeps ==
    ASSUME SelectionInv, NEW r \in Requests, Select(r)
    PROVE  SelectionInv'
<1>1. PICK c \in Options, full \in SUBSET Keys :
              /\ request[r].phase = "select"
              /\ selector' = [rr |-> c.rr, calls |-> c.calls, failed |-> c.failed]
              /\ counter' = c.counter
              /\ failed' = failed
              /\ limits' = AfterReset(limits)
              /\ request' = [request EXCEPT ![r] =
                   IF Undecided(c, full)
                   THEN [@ EXCEPT !.phase = Refusal(c), !.key = NoKey, !.full = full]
                   ELSE [@ EXCEPT !.phase = "sent", !.key = c.key, !.full = full]]
              /\ UNCHANGED <<mode, enabled, quiet>>
              /\ \A k \in DOMAIN c.failed :
                    \/ k \in DOMAIN selector.failed /\ c.failed[k] = selector.failed[k]
                    \/ k \in DOMAIN failed
              /\ Undecided(c, full) \/ c.key \in enabled \ full
  BY SelectEffect
<1>2. selector' \in [rr : 0..Cycle - 1, calls : [Keys -> 0..CallsPerRotation + 1], failed : Ages]
      /\ counter' \in 0..Cycle - 1
  BY <1>1 DEF Options
<1>3. limits' \in Limits
  BY <1>1, AfterResetLimits DEF SelectionInv
<1>4. /\ request' \in [Requests -> [phase : Phases, key : Keys \cup {NoKey}, full : SUBSET Keys]]
      /\ \A q \in Requests : request'[q].phase = "sent" => request'[q].key \in Keys
  <2>1. Refusal(c) \in Phases /\ Refusal(c) # "sent"
    BY DEF Refusal, Phases
  <2>2. "sent" \in Phases
    BY DEF Phases
  <2>3. c.key \in Keys \/ Undecided(c, full)
    BY <1>1 DEF SelectionInv
  <2>4. request \in [Requests -> [phase : Phases, key : Keys \cup {NoKey}, full : SUBSET Keys]]
        /\ \A q \in Requests : request[q].phase = "sent" => request[q].key \in Keys
    BY DEF SelectionInv
  <2> HIDE DEF Phases, Refusal, Undecided, NoKey, Keys
  <2>5. CASE Undecided(c, full)
    BY <1>1, <2>1, <2>4, <2>5
  <2>6. CASE ~ Undecided(c, full)
    BY <1>1, <2>2, <2>3, <2>4, <2>6
  <2>7. QED
    BY <2>5, <2>6
<1>5. Remember'
  <2>1. Remember /\ quiet \in [Keys -> 0..Long]
    BY DEF SelectionInv
  <2>2. ASSUME NEW k \in Keys, k \in DOMAIN c.failed
        PROVE  quiet[k] <= c.failed[k] + Timeout
    <3>1. CASE k \in DOMAIN failed
      <4>1. quiet[k] <= Timeout /\ quiet[k] \in Nat
        BY <2>1, <3>1, KeysType DEF Remember
      <4>2. c.failed[k] \in Nat
        BY <2>2, AgesElements DEF Options
      <4>3. QED
        BY <4>1, <4>2, KeysType
    <3>2. CASE k \notin DOMAIN failed
      BY <1>1, <2>1, <2>2, <3>2 DEF Remember
    <3>3. QED
      BY <3>1, <3>2
  <2>3. selector'.failed = c.failed
    BY <1>1
  <2>4. QED
    BY <1>1, <2>1, <2>2, <2>3 DEF Remember
<1>6. QED
  BY <1>1, <1>2, <1>3, <1>4, <1>5 DEF SelectionInv

LEMMA AnswerKeeps ==
    ASSUME SelectionInv, NEW r \in Requests, NEW status \in Statuses, NEW h \in Reports,
           Answer(r, status, h)
    PROVE  SelectionInv'
<1> DEFINE k == request[r].key
           failing == Banned(status) \/ RateLimited(status, h)
<1>1. k \in Keys
  BY DEF Answer, SelectionInv
<1>2. limits' \in Limits
  <2>1. limits \in Limits /\ limits' = Reported(limits, k, h)
    BY DEF SelectionInv, Answer
  <2> HIDE DEF k
  <2>2. QED
    BY <1>1, <2>1, ReportedLimits
<1>3. enabled' \subseteq Keys
  BY DEF Answer, SelectionInv
<1>4. UNCHANGED <<mode, selector, counter>> /\ request' = [request EXCEPT ![r] = Waiting]
  BY DEF Answer
<1>5. /\ request' \in [Requests -> [phase : Phases, key : Keys \cup {NoKey}, full : SUBSET Keys]]
      /\ \A q \in Requests : request'[q].phase = "sent" => request'[q].key \in Keys
  BY <1>4 DEF SelectionInv, Waiting, Phases
<1>6. failed' \in Ages /\ quiet' \in [Keys -> 0..Long] /\ Remember'
  <2>1. /\ failed' = IF failing THEN With(failed, k, 0) ELSE failed
        /\ quiet' = IF failing THEN [quiet EXCEPT ![k] = 0] ELSE quiet
    BY DEF Answer
  <2>2. failed \in Ages /\ quiet \in [Keys -> 0..Long] /\ Remember /\ selector.failed \in Ages
    BY DEF SelectionInv
  <2> HIDE DEF k, failing
  <2>3. CASE ~ failing
    BY <1>4, <2>1, <2>2, <2>3 DEF Remember
  <2>4. CASE failing
    <3>1. quiet' = [quiet EXCEPT ![k] = 0] /\ failed' = With(failed, k, 0)
      BY <2>1, <2>4
    <3>2. /\ failed' \in Ages /\ DOMAIN failed' = DOMAIN failed \cup {k}
          /\ \A j \in DOMAIN failed \cup {k} : failed'[j] = IF j = k THEN 0 ELSE failed[j]
      BY <1>1, <2>2, <3>1, WithAges
    <3>3. 0 \in 0..Long /\ 0 <= Timeout
      BY KeysType
    <3>4. quiet' \in [Keys -> 0..Long]
      BY <1>1, <2>2, <3>1, <3>3
    <3>5. ASSUME NEW j \in Keys
          PROVE  /\ j \in DOMAIN failed' <=> quiet'[j] <= Timeout
                 /\ j \in DOMAIN failed' => failed'[j] = quiet'[j]
                 /\ j \in DOMAIN selector'.failed => quiet'[j] <= selector'.failed[j] + Timeout
      <4>1. CASE j = k
        <5>1. quiet'[j] = 0 /\ j \in DOMAIN failed' /\ failed'[j] = 0
          BY <1>1, <2>2, <3>1, <3>2, <4>1
        <5>2. j \in DOMAIN selector.failed => selector.failed[j] \in Nat
          BY <2>2, AgesElements
        <5>3. QED
          BY <1>4, <5>1, <5>2, KeysType
      <4>2. CASE j # k
        <5>1. quiet'[j] = quiet[j]
          BY <2>2, <3>1, <4>2
        <5>2. /\ j \in DOMAIN failed' <=> j \in DOMAIN failed
              /\ j \in DOMAIN failed => failed'[j] = failed[j]
          BY <3>2, <4>2
        <5>3. QED
          BY <1>4, <2>2, <5>1, <5>2 DEF Remember
      <4>3. QED
        BY <4>1, <4>2
    <3>6. QED
      BY <3>2, <3>4, <3>5 DEF Remember
  <2>5. QED
    BY <2>3, <2>4
<1>7. QED
  BY <1>2, <1>3, <1>4, <1>5, <1>6 DEF SelectionInv

LEMMA TickKeeps == SelectionInv /\ Tick => SelectionInv'
<1> SUFFICES ASSUME SelectionInv, Tick PROVE SelectionInv'
  OBVIOUS
<1>1. /\ failed \in Ages /\ selector.failed \in Ages /\ limits \in Limits
      /\ quiet \in [Keys -> 0..Long] /\ Remember
  BY DEF SelectionInv
<1>2. /\ failed' = Older(failed) /\ UNCHANGED <<mode, counter, enabled, request>>
      /\ selector' = [selector EXCEPT !.failed = Older(@)]
      /\ quiet' = [k \in Keys |-> Min({quiet[k] + 1, Long})]
  BY DEF Tick
<1>3. /\ failed' \in Ages
      /\ selector' \in [rr : 0..Cycle - 1, calls : [Keys -> 0..CallsPerRotation + 1], failed : Ages]
      /\ selector'.failed = Older(selector.failed)
  BY <1>1, <1>2, OlderAges DEF SelectionInv
<1>4. limits' \in Limits
  <2>1. limits' = [k \in DOMAIN limits |-> [limits[k] EXCEPT !.reset =
                       IF @ = Missing \/ @ = 0 THEN @ ELSE @ - 1]]
    BY DEF Tick
  <2>2. ASSUME NEW x \in Limited
        PROVE  [x EXCEPT !.reset = IF @ = Missing \/ @ = 0 THEN @ ELSE @ - 1] \in Limited
    BY DEF Limited, Missing
  <2>3. limits' \in [DOMAIN limits -> Limited]
    BY <1>1, <2>1, <2>2, LimitsElements
  <2>4. QED
    BY <1>1, <2>3, LimitsElements, LimitsOf
<1>5. ASSUME NEW k \in Keys
      PROVE  /\ quiet'[k] \in 0..Long
             /\ quiet'[k] <= quiet[k] + 1
             /\ quiet[k] + 1 <= Long => quiet'[k] = quiet[k] + 1
             /\ quiet[k] + 1 > Long => quiet'[k] = Long
  <2>1. quiet[k] \in Nat /\ quiet[k] <= Long /\ Long \in Nat
    BY <1>1, KeysType
  <2>2. quiet'[k] = Min({quiet[k] + 1, Long})
    BY <1>2
  <2>3. /\ quiet'[k] \in Nat /\ quiet'[k] <= quiet[k] + 1 /\ quiet'[k] <= Long
        /\ quiet'[k] \in {quiet[k] + 1, Long}
    BY <2>1, <2>2, MinOfTwo
  <2>4. QED
    BY <2>1, <2>3
<1>6. quiet' \in [Keys -> 0..Long]
  BY <1>2, <1>5
<1>7. Remember'
  <2>1. ASSUME NEW k \in Keys
        PROVE  /\ k \in DOMAIN failed' <=> quiet'[k] <= Timeout
               /\ k \in DOMAIN failed' => failed'[k] = quiet'[k]
    <3>1. quiet[k] \in Nat /\ Timeout \in Nat /\ Long \in Nat /\ Timeout < Long /\ quiet'[k] \in Nat
      BY <1>1, <1>5, KeysType
    <3>2. CASE k \in DOMAIN failed
      <4>1. failed[k] = quiet[k] /\ quiet[k] <= Timeout
        BY <1>1, <3>2 DEF Remember
      <4>2. quiet'[k] = quiet[k] + 1
        BY <1>5, <3>1, <4>1
      <4>3. k \in DOMAIN failed' <=> failed[k] + 1 <= Timeout
        BY <1>1, <1>2, <3>2, OlderAges
      <4>4. k \in DOMAIN failed' => failed'[k] = failed[k] + 1
        BY <1>1, <1>2, OlderAges
      <4>5. QED
        BY <4>1, <4>2, <4>3, <4>4
    <3>3. CASE k \notin DOMAIN failed
      <4>1. ~ (quiet[k] <= Timeout)
        BY <1>1, <3>3 DEF Remember
      <4>2. ~ (quiet'[k] <= Timeout)
        BY <1>5, <3>1, <4>1
      <4>3. k \notin DOMAIN failed'
        BY <1>1, <1>2, <3>3, OlderAges
      <4>4. QED
        BY <4>2, <4>3
    <3>4. QED
      BY <3>2, <3>3
  <2>2. ASSUME NEW k \in Keys, k \in DOMAIN selector'.failed
        PROVE  quiet'[k] <= selector'.failed[k] + Timeout
    <3>1. k \in DOMAIN selector.failed /\ selector'.failed[k] = selector.failed[k] + 1
      BY <1>1, <1>3, <2>2, OlderAges
    <3>2. quiet[k] <= selector.failed[k] + Timeout
      BY <1>1, <3>1 DEF Remember
    <3>3. quiet[k] \in Nat /\ selector.failed[k] \in Nat /\ quiet'[k] \in Nat
      BY <1>1, <1>5, <3>1, AgesElements
    <3>4. QED
      BY <1>5, <3>1, <3>2, <3>3, KeysType
  <2>3. QED
    BY <2>1, <2>2 DEF Remember
<1>8. QED
  BY <1>2, <1>3, <1>4, <1>6, <1>7 DEF SelectionInv

LEMMA NextKeeps == SelectionInv /\ [Next]_vars => SelectionInv'
<1> SUFFICES ASSUME SelectionInv, [Next]_vars PROVE SelectionInv'
  OBVIOUS
<1>1. ASSUME NEW r \in Requests, Select(r) PROVE SelectionInv'
  BY <1>1, SelectKeeps
<1>2. ASSUME NEW r \in Requests, Arrive(r) PROVE SelectionInv'
  <2>1. /\ request' = [request EXCEPT ![r] = Waiting]
        /\ UNCHANGED <<mode, selector, failed, counter, limits, enabled, quiet>>
    BY <1>2 DEF Arrive
  <2>2. /\ request' \in [Requests -> [phase : Phases, key : Keys \cup {NoKey}, full : SUBSET Keys]]
        /\ \A q \in Requests : request'[q].phase = "sent" => request'[q].key \in Keys
    BY <2>1 DEF SelectionInv, Waiting, Phases
  <2>3. QED
    BY <2>1, <2>2 DEF SelectionInv, Remember
<1>3. ASSUME NEW r \in Requests, NEW status \in Statuses, NEW h \in Reports, Answer(r, status, h)
      PROVE  SelectionInv'
  BY <1>3, AnswerKeeps
<1>4. CASE Tick
  BY <1>4, TickKeeps
<1>5. ASSUME NEW k \in Keys, SetEnabled(k) PROVE SelectionInv'
  BY <1>5 DEF SetEnabled, SelectionInv, Remember
<1>6. CASE UNCHANGED vars
  BY <1>6 DEF SelectionInv, Remember, vars
<1>7. QED
  BY <1>1, <1>2, <1>3, <1>4, <1>5, <1>6 DEF Next, RequestStep

LEMMA SelectionInvariant == Spec => []SelectionInv
<1>1. Init => SelectionInv
  BY InitHolds
<1>2. SelectionInv /\ [Next]_vars => SelectionInv'
  BY NextKeeps
<1>3. QED
  BY <1>1, <1>2, PTL DEF Spec

-----------------------------------------------------------------------------
(* Theorems                                                                  *)

\* The counters, the records of failures and the limits keep their types, and
\* a request that is sent has one of the keys.
THEOREM SelectionTypeCorrect == Spec => []TypeOK
<1>1. SelectionInv => TypeOK
  <2> SUFFICES ASSUME SelectionInv PROVE TypeOK
    OBVIOUS
  <2>1. \A ages \in Ages : DOMAIN ages \subseteq Keys /\ Range(ages) \subseteq 0..Timeout
    BY AgesElements DEF Range
  <2>2. failed \in Ages /\ selector.failed \in Ages
    BY DEF SelectionInv
  <2>3. \A k \in DOMAIN limits :
          k \in Keys /\ limits[k] \in [limit : Nat, remaining : Nat, reset : Nat \cup {Missing}]
    BY LimitsElements DEF SelectionInv, Limited
  <2>4. selector.rr \in 0..Cycle - 1 /\ selector.calls \in [Keys -> 0..CallsPerRotation + 1]
    BY DEF SelectionInv
  <2>5. QED
    BY <2>1, <2>2, <2>3, <2>4 DEF SelectionInv, TypeOK
<1>2. QED
  BY <1>1, SelectionInvariant, PTL

\* As long as a key is fit, no request is sent with one that has failed of
\* late or is exhausted, for any keys, modes, orders and quotas.
THEOREM FitIsPreferred == Spec => FitBeforeTired
<1> DEFINE Fits(r) ==
      request[r].phase = "select" /\ request'[r].phase = "sent"
      => /\ request'[r].key \in enabled \ request'[r].full
         /\ (\E k \in Keys : Fit(k, request'[r].full)) => ~ Tired(request'[r].key)
<1>1. ASSUME SelectionInv, [Next]_vars, NEW r \in Requests
      PROVE  Fits(r)
  <2> SUFFICES ASSUME request[r].phase = "select", request'[r].phase = "sent"
               PROVE  /\ request'[r].key \in enabled \ request'[r].full
                      /\ (\E k \in Keys : Fit(k, request'[r].full)) => ~ Tired(request'[r].key)
    OBVIOUS
  <2>1. request \in [Requests -> [phase : Phases, key : Keys \cup {NoKey}, full : SUBSET Keys]]
    BY <1>1 DEF SelectionInv
  <2>2. Select(r)
    <3>1. ASSUME NEW q \in Requests, Arrive(q) PROVE FALSE
      BY <2>1, <3>1 DEF Arrive, Waiting
    <3>2. ASSUME NEW q \in Requests, NEW status \in Statuses, NEW h \in Reports, Answer(q, status, h)
          PROVE  FALSE
      BY <2>1, <3>2 DEF Answer, Waiting
    <3>3. ASSUME NEW q \in Requests, q # r, Select(q) PROVE FALSE
      BY <2>1, <3>3 DEF Select
    <3>4. ~ UNCHANGED request
      OBVIOUS
    <3>5. QED
      BY <1>1, <3>1, <3>2, <3>3, <3>4 DEF Next, RequestStep, Tick, SetEnabled, vars
  <2>3. PICK c \in Options, full \in SUBSET Keys :
              /\ request' = [request EXCEPT ![r] =
                   IF Undecided(c, full)
                   THEN [@ EXCEPT !.phase = Refusal(c), !.key = NoKey, !.full = full]
                   ELSE [@ EXCEPT !.phase = "sent", !.key = c.key, !.full = full]]
              /\ ~ Undecided(c, full) =>
                      /\ c.key \in enabled \ full
                      /\ (\E k \in enabled \ full :
                             Good(AfterReset(limits), DOMAIN selector.failed \cup DOMAIN failed, k))
                         => Good(AfterReset(limits), DOMAIN failed, c.key)
    BY <1>1, <2>2, SelectEffect
  <2>4. ~ Undecided(c, full)
    <3>1. Refusal(c) # "sent"
      BY DEF Refusal
    <3>2. QED
      BY <2>1, <2>3, <3>1
  <2>5. request'[r].key = c.key /\ request'[r].full = full
    BY <2>1, <2>3, <2>4
  <2>6. c.key \in enabled \ full
    BY <2>3, <2>4
  <2>7. ASSUME NEW k \in Keys, Fit(k, full)
        PROVE  ~ Tired(c.key)
    <3>1. /\ Remember /\ quiet \in [Keys -> 0..Long] /\ c.key \in Keys
          /\ selector.failed \in Ages
      BY <1>1, <2>6 DEF SelectionInv
    <3>2. k \notin DOMAIN failed
      BY <2>7, <3>1, KeysType DEF Remember, Fit
    <3>3. k \notin DOMAIN selector.failed
      <4>1. k \in DOMAIN selector.failed => selector.failed[k] \in Nat /\ selector.failed[k] <= Timeout
        BY <3>1, AgesElements
      <4>2. k \in DOMAIN selector.failed => quiet[k] <= selector.failed[k] + Timeout
        BY <3>1 DEF Remember
      <4>3. quiet[k] = 2 * Timeout + 1
        BY <2>7 DEF Fit, Long
      <4>4. QED
        BY <4>1, <4>2, <4>3, KeysType
    <3>4. Good(AfterReset(limits), DOMAIN selector.failed \cup DOMAIN failed, k) /\ k \in enabled \ full
      BY <2>7, <3>2, <3>3 DEF Good, Fit
    <3>5. Good(AfterReset(limits), DOMAIN failed, c.key)
      BY <2>3, <2>4, <3>4
    <3>6. QED
      BY <3>1, <3>5 DEF Good, Tired, Remember
  <2>8. QED
    BY <2>5, <2>6, <2>7
<1>2. SelectionInv /\ [Next]_vars => \A r \in Requests : Fits(r)
  BY <1>1
<1>3. QED
  BY <1>2, SelectionInvariant, PTL DEF Spec, FitBeforeTired

\* No request is refused while an enabled key has quota left, and none for
\* want of keys while one is enabled: the turns reach every key.
THEOREM RefusesLast == Spec => RefusesOnlyWithoutKey
<1> DEFINE Reaches(r) ==
      request[r].phase = "select"
      => /\ request'[r].phase = "no_available_keys" => enabled = {}
         /\ request'[r].phase = "quota_exhausted" => enabled # {} /\ enabled \subseteq request'[r].full
<1>1. ASSUME SelectionInv, [Next]_vars, NEW r \in Requests
      PROVE  Reaches(r)
  <2> SUFFICES ASSUME request[r].phase = "select",
                      request'[r].phase \in {"no_available_keys", "quota_exhausted"}
               PROVE  /\ request'[r].phase = "no_available_keys" => enabled = {}
                      /\ request'[r].phase = "quota_exhausted"
                         => enabled # {} /\ enabled \subseteq request'[r].full
    OBVIOUS
  <2>1. request \in [Requests -> [phase : Phases, key : Keys \cup {NoKey}, full : SUBSET Keys]]
    BY <1>1 DEF SelectionInv
  <2>2. Select(r)
    <3>1. ASSUME NEW q \in Requests, Arrive(q) PROVE FALSE
      BY <2>1, <3>1 DEF Arrive, Waiting
    <3>2. ASSUME NEW q \in Requests, NEW status \in Statuses, NEW h \in Reports, Answer(q, status, h)
          PROVE  FALSE
      BY <2>1, <3>2 DEF Answer, Waiting
    <3>3. ASSUME NEW q \in Requests, q # r, Select(q) PROVE FALSE
      BY <2>1, <3>3 DEF Select
    <3>4. ~ UNCHANGED request
      OBVIOUS
    <3>5. QED
      BY <1>1, <3>1, <3>2, <3>3, <3>4 DEF Next, RequestStep, Tick, SetEnabled, vars
  <2>3. PICK c \in Options, full \in SUBSET Keys :
              /\ request' = [request EXCEPT ![r] =
                   IF Undecided(c, full)
                   THEN [@ EXCEPT !.phase = Refusal(c), !.key = NoKey, !.full = full]
                   ELSE [@ EXCEPT !.phase = "sent", !.key = c.key, !.full = full]]
              /\ Undecided(c, full) => c.passed \subseteq full /\ c.passed = enabled
    BY <1>1, <2>2, SelectEffect
  <2>4. Undecided(c, full)
    BY <2>1, <2>3
  <2>5. request'[r].phase = Refusal(c) /\ request'[r].full = full
    BY <2>1, <2>3, <2>4
  <2>6. QED
    BY <2>3, <2>4, <2>5 DEF Refusal
<1>2. SelectionInv /\ [Next]_vars => \A r \in Requests : Reaches(r)
  BY <1>1
<1>3. QED
  BY <1>2, SelectionInvariant, PTL DEF Spec, RefusesOnlyWithoutKey

-----------------------------------------------------------------------------
(* The table of keys                                                         *)

LEMMA SublistType ==
    ASSUME NEW ks \in Seq(ApiKeys), NEW set
    PROVE  Sublist(ks, set) \in Seq(ApiKeys)
<1> DEFINE n == Len(ks)
           S == Seq(ApiKeys)
           step(i, l) == IF ks[i] \in set THEN Append(l, ks[i]) ELSE l
           Def(k) == k = [i \in 0..n |-> IF i = 0 THEN <<>> ELSE step(i, k[i - 1])]
           sub == CHOOSE k : Def(k)
           g == [i \in 1..n |-> [l \in S |-> step(i, l)]]
<1>1. Sublist(ks, set) = sub[n]
  BY DEF Sublist
<1>2. n \in Nat /\ <<>> \in S /\ \A i \in 1..n, l \in S : step(i, l) \in S
  OBVIOUS
<1> HIDE DEF n, S, step
<1>3. g \in [1..n -> [S -> S]] /\ \A i \in 1..n, l \in S : g[i][l] = step(i, l)
  BY <1>2
<1> HIDE DEF g
<1>4. PICK k \in [0..n -> S] : Iterates(k, n, <<>>, g)
  BY <1>2, <1>3, Recursion
<1>5. Def(k)
  <2>1. ASSUME NEW i \in 0..n
        PROVE  k[i] = IF i = 0 THEN <<>> ELSE step(i, k[i - 1])
    <3>1. CASE i = 0
      BY <1>4, <3>1 DEF Iterates
    <3>2. CASE i # 0
      <4>1. i \in 1..n /\ i - 1 \in 0..n
        BY <1>2, <3>2
      <4>2. QED
        BY <1>3, <1>4, <3>2, <4>1 DEF Iterates
    <3>3. QED
      BY <3>1, <3>2
  <2>2. QED
    BY <2>1
<1>6. Def(sub)
  <2> HIDE DEF Def
  <2>1. QED
    BY <1>5
<1> HIDE DEF sub
<1>7. sub[0] = <<>> /\ \A i \in 1..n : sub[i] = step(i, sub[i - 1])
  <2>1. \A i \in 0..n : sub[i] = IF i = 0 THEN <<>> ELSE step(i, sub[i - 1])
    BY <1>6
  <2>2. 0 \in 0..n /\ \A i \in 1..n : i \in 0..n /\ i # 0
    BY <1>2
  <2>3. QED
    BY <2>1, <2>2
<1> DEFINE T == {i \in 0..n : sub[i] \in S}
<1>8. 0 \in T
  BY <1>2, <1>7
<1>9. \A i \in 1..n : i - 1 \in T => i \in T
  BY <1>2, <1>7
<1>10. 0..n \subseteq T
  <2> HIDE DEF T
  <2>1. QED
    BY <1>2, <1>8, <1>9, UpTo
<1>11. n \in T
  BY <1>2, <1>10
<1>12. QED
  BY <1>1, <1>11 DEF S

-----------------------------------------------------------------------------
(* Types of the table                                                        *)

LEMMA ListsAreSequences ==
    /\ \A ks : ks \in {<<>>} \cup Lists <=> ks \in Seq(ApiKeys) /\ Len(ks) <= MaxKeys
    /\ \A ks \in Lists : Len(ks) \in Places
<1> USE KeyTableAssumption
<1>1. ASSUME NEW ks \in Lists
      PROVE  ks \in Seq(ApiKeys) /\ Len(ks) \in Places
  <2>1. PICK n \in Places : ks \in [1..n -> ApiKeys]
    BY DEF Lists
  <2>2. n \in Nat
    BY DEF Places
  <2>3. ks \in Seq(ApiKeys) /\ Len(ks) = n
    BY <2>1, <2>2
  <2>4. QED
    BY <2>3
<1>2. ASSUME NEW ks \in Seq(ApiKeys), Len(ks) <= MaxKeys, ks # <<>>
      PROVE  ks \in Lists
  <2>1. Len(ks) \in Places /\ ks \in [1..Len(ks) -> ApiKeys]
    BY <1>2 DEF Places
  <2>2. QED
    BY <2>1 DEF Lists
<1>3. <<>> \in Seq(ApiKeys) /\ Len(<<>>) <= MaxKeys
  OBVIOUS
<1>4. ASSUME NEW ks, ks \in {<<>>} \cup Lists
      PROVE  ks \in Seq(ApiKeys) /\ Len(ks) <= MaxKeys
  <2>1. CASE ks \in Lists
    BY <1>1, <2>1 DEF Places
  <2>2. QED
    BY <1>3, <1>4, <2>1
<1>5. QED
  BY <1>1, <1>2, <1>4

LEMMA InitTypes == TableInit => TableTypeOK
<1> SUFFICES ASSUME TableInit PROVE TableTypeOK
  OBVIOUS
<1>1. keys \in Seq(ApiKeys) /\ Len(keys) <= MaxKeys
  BY ListsAreSequences DEF TableInit
<1>2. Positions \subseteq Places
  BY <1>1, KeyTableAssumption DEF Positions, Places
<1>3. 0 \in 0..MaxKeys
  BY KeyTableAssumption
<1>4. QED
  BY <1>2, <1>3 DEF TableInit, TableTypeOK, Entries

\* A list as the model has it.
Listed(ks) == ks \in Seq(ApiKeys) /\ Len(ks) <= MaxKeys

LEMMA Listing == \A ks : Listed(ks) <=> ks \in {<<>>} \cup Lists
  BY ListsAreSequences DEF Listed

\* What the table and the import may be.
Tabled ==
    /\ Listed(keys)
    /\ active \subseteq Positions
    /\ disabled \subseteq Places
    /\ states \in [Places -> Entries]
    /\ importing \in [off : SUBSET Places, states : [Places -> Entries]] \cup {NoImport}

\* What the requests may be.
Served ==
    /\ pc \in [Callers -> {"idle", "ready", "calling"}]
    /\ list \in [Callers -> {<<>>} \cup Lists]
    /\ at \in [Callers -> 0..MaxKeys]
    /\ \A r \in Callers : pc[r] = "calling" => at[r] \in 1..Len(list[r])

LEMMA Types == TableTypeOK <=> Tabled /\ Served
  BY Listing DEF TableTypeOK, Tabled, Served

LEMMA Room ==
    ASSUME NEW ks, Listed(ks)
    PROVE  1..Len(ks) \subseteq Places /\ Len(ks) \in Nat
  BY KeyTableAssumption DEF Listed, Places

LEMMA StateOfType ==
    ASSUME Tabled, NEW k
    PROVE  StateOf(k) \in Entries
<1> DEFINE kept == {j \in Positions : keys[j] = k /\ states[j] # "none"}
<1>1. CASE kept = {}
  BY <1>1 DEF StateOf, Entries
<1>2. CASE kept # {}
  <2>1. kept \subseteq 1..Len(keys) /\ Len(keys) \in Nat /\ kept \subseteq Places
    BY Room DEF Tabled, Positions
  <2>2. \E j \in kept : \A i \in kept : i <= j
    <3> DEFINE n == Len(keys)
               T == {n - j : j \in kept}
    <3>1. T \subseteq Nat /\ T # {}
      BY <1>2, <2>1
    <3>2. PICK m \in T : \A j \in T : m <= j
      <4> HIDE DEF T
      <4>1. QED
        BY <3>1, SmallestExists
    <3>3. PICK j \in kept : m = n - j
      BY <3>2
    <3>4. \A i \in kept : n - i \in T /\ n - j <= n - i
      BY <3>2, <3>3
    <3>5. \A i \in kept : i \in Int /\ j \in Int
      BY <2>1
    <3>6. \A i \in kept : i <= j
      BY <2>1, <3>4, <3>5
    <3>7. QED
      BY <3>6
  <2> DEFINE top == CHOOSE j \in kept : \A i \in kept : i <= j
  <2>3. top \in kept
    BY <2>2
  <2>4. StateOf(k) = states[top]
    BY <1>2 DEF StateOf
  <2>5. QED
    BY <2>1, <2>3, <2>4 DEF Tabled
<1>3. QED
  BY <1>1, <1>2

LEMMA ReplaceTypes ==
    ASSUME Tabled, NEW ks \in Lists, Replace(ks)
    PROVE  /\ Listed(keys') /\ active' \subseteq Positions' /\ disabled' \subseteq Places
           /\ states' \in [Places -> Entries]
<1>1. Listed(ks) /\ 1..Len(ks) \subseteq Places
  BY Listing, Room
<1>2. Listed(keys') /\ active' \subseteq Positions' /\ disabled' \subseteq Places
  BY <1>1 DEF Replace, Positions
<1>3. states' \in [Places -> Entries]
  BY StateOfType DEF Replace, Entries
<1>4. QED
  BY <1>2, <1>3

LEMMA AddKeysTypes ==
    ASSUME Tabled, NEW ks \in Lists, AddKeys(ks)
    PROVE  Tabled'
<1> DEFINE new == Sublist(ks, {k \in ApiKeys : \A i \in Positions : keys[i] # k})
<1>1. new \in Seq(ApiKeys)
  BY Listing, SublistType DEF Listed
<1> HIDE DEF new
<1>2. /\ keys' = keys \o new /\ Len(keys) + Len(new) <= MaxKeys
      /\ active' = active \cup (Len(keys) + 1)..(Len(keys) + Len(new))
      /\ UNCHANGED <<disabled, states, importing>>
  BY DEF AddKeys, new
<1>3. Listed(keys') /\ Len(keys') = Len(keys) + Len(new) /\ Len(keys) \in Nat /\ Len(new) \in Nat
  BY <1>1, <1>2 DEF Tabled, Listed
<1>4. active' \subseteq Positions'
  <2>1. active \subseteq 1..Len(keys)
    BY DEF Tabled, Positions
  <2>2. ASSUME NEW j \in active'
        PROVE  j \in 1..(Len(keys) + Len(new))
    <3>1. j \in 1..Len(keys) \/ j \in (Len(keys) + 1)..(Len(keys) + Len(new))
      BY <1>2, <2>1
    <3>2. QED
      BY <1>3, <3>1
  <2>3. QED
    BY <1>3, <2>2 DEF Positions
<1>5. QED
  BY <1>2, <1>3, <1>4 DEF Tabled

LEMMA ShiftElements ==
    ASSUME NEW S, S \subseteq Int, NEW i \in Int
    PROVE  /\ Shift(S, i) \subseteq Int
           /\ \A j \in Int : j \in Shift(S, i) <=> (j \in S /\ j < i) \/ (j + 1 \in S /\ j + 1 > i)
<1>1. \A j : j \in Shift(S, i) <=> (j \in S /\ j < i) \/ \E h \in S : h > i /\ j = h - 1
  BY DEF Shift
<1>2. Shift(S, i) \subseteq Int
  <2>1. \A h \in S : h \in Int /\ h - 1 \in Int
    OBVIOUS
  <2>2. \A j \in Shift(S, i) : j \in Int
    BY <1>1, <2>1
  <2>3. QED
    BY <2>2
<1>3. ASSUME NEW j \in Int
      PROVE  (\E h \in S : h > i /\ j = h - 1) <=> (j + 1 \in S /\ j + 1 > i)
  <2>1. \A h \in S : j = h - 1 => h = j + 1
    OBVIOUS
  <2>2. j = (j + 1) - 1
    OBVIOUS
  <2>3. QED
    BY <2>1, <2>2
<1>4. QED
  BY <1>1, <1>2, <1>3

LEMMA DeleteTypes ==
    ASSUME Tabled, NEW i \in Places, Delete(i)
    PROVE  Tabled'
<1>1. Len(keys) \in Nat /\ i \in 1..Len(keys) /\ keys \in Seq(ApiKeys) /\ Len(keys) <= MaxKeys
  BY Room DEF Tabled, Listed, Delete, Positions
<1>2. keys' = [j \in 1..(Len(keys) - 1) |-> IF j < i THEN keys[j] ELSE keys[j + 1]]
  BY DEF Delete
<1>3. \A j \in 1..(Len(keys) - 1) : (IF j < i THEN keys[j] ELSE keys[j + 1]) \in ApiKeys
  BY <1>1
<1>4. keys' \in Seq(ApiKeys) /\ Len(keys') = Len(keys) - 1
  BY <1>1, <1>2, <1>3
<1>5. Listed(keys')
  BY <1>1, <1>4, KeyTableAssumption DEF Listed
<1>6. active' \subseteq Positions'
  <2>1. active \subseteq 1..Len(keys) /\ active' = Shift(active, i)
    BY DEF Delete, Positions, Tabled
  <2>2. active \subseteq Int /\ i \in Int
    BY <1>1, <2>1
  <2>3. ASSUME NEW j \in Shift(active, i)
        PROVE  j \in 1..(Len(keys) - 1)
    <3>1. j \in Int /\ ((j \in active /\ j < i) \/ (j + 1 \in active /\ j + 1 > i))
      BY <2>2, ShiftElements
    <3>2. (j \in 1..Len(keys) /\ j < i) \/ (j + 1 \in 1..Len(keys) /\ j + 1 > i)
      BY <2>1, <3>1
    <3>3. QED
      BY <1>1, <3>1, <3>2
  <2>4. QED
    BY <1>4, <2>1, <2>3 DEF Positions
<1>7. disabled' \subseteq Places
  <2>1. disabled \subseteq Places /\ disabled' = Shift(disabled, i)
    BY DEF Delete, Tabled
  <2>2. disabled \subseteq Int /\ i \in Int
    BY <1>1, <2>1 DEF Places
  <2>3. ASSUME NEW j \in Shift(disabled, i)
        PROVE  j \in Places
    <3>1. j \in Int /\ ((j \in disabled /\ j < i) \/ (j + 1 \in disabled /\ j + 1 > i))
      BY <2>2, ShiftElements
    <3>2. (j \in 1..MaxKeys /\ j < i) \/ (j + 1 \in 1..MaxKeys /\ j + 1 > i)
      BY <2>1, <3>1 DEF Places
    <3>3. QED
      BY <1>1, <3>1, <3>2, KeyTableAssumption DEF Places
  <2>4. QED
    BY <2>1, <2>3
<1>8. states' \in [Places -> Entries]
  <2>1. ASSUME NEW j \in Places
        PROVE  (IF j < i THEN states[j] ELSE IF j < MaxKeys THEN states[j + 1] ELSE "none") \in Entries
    BY KeyTableAssumption DEF Tabled, Places, Entries
  <2>2. QED
    BY <2>1 DEF Delete
<1>9. QED
  BY <1>5, <1>6, <1>7, <1>8 DEF Tabled, Delete

LEMMA TableStep == Tabled /\ Served /\ [TableNext]_tableVars => Tabled'
<1> SUFFICES ASSUME Tabled, Served, [TableNext]_tableVars PROVE Tabled'
  OBVIOUS
<1>1. ASSUME NEW ks \in Lists, AddKeys(ks) PROVE Tabled'
  BY <1>1, AddKeysTypes
<1>2. ASSUME NEW ks \in Lists, Override(ks) PROVE Tabled'
  BY <1>2, ReplaceTypes DEF Override, Tabled
<1>3. ASSUME NEW ks \in Lists, ConfigSave(ks) PROVE Tabled'
  BY <1>3, Listing DEF ConfigSave, Tabled, Positions
<1>4. ASSUME NEW ks \in Lists, NEW D \in SUBSET (1..Len(ks)), NEW P \in SUBSET (1..Len(ks) \ D),
             ImportBegins(ks, D, P)
      PROVE  Tabled'
  <2>1. D \subseteq Places
    BY Listing, Room
  <2>2. importing' \in [off : SUBSET Places, states : [Places -> Entries]]
    BY <1>4, <2>1 DEF ImportBegins, Entries
  <2>3. QED
    BY <1>4, <2>2, ReplaceTypes DEF ImportBegins, Tabled
<1>5. ASSUME ImportEnds PROVE Tabled'
  <2>1. /\ importing.off \subseteq Places /\ importing.states \in [Places -> Entries]
        /\ importing' = NoImport /\ keys' = keys
    BY <1>5 DEF ImportEnds, Tabled
  <2>2. active' \subseteq Positions' /\ disabled' \subseteq Places
    BY <1>5, <2>1 DEF ImportEnds, Tabled, Positions
  <2>3. states' \in [Places -> Entries]
    BY <1>5, <2>1 DEF ImportEnds, Tabled
  <2>4. QED
    BY <2>1, <2>2, <2>3 DEF Tabled
<1>6. ASSUME NEW S \in SUBSET Places \ {{}}, NEW on \in BOOLEAN, SetStatus(S, on) PROVE Tabled'
  <2>1. Positions \subseteq Places
    BY Room DEF Positions, Tabled
  <2>2. active' \subseteq Positions /\ disabled' \subseteq Places
    BY <1>6, <2>1 DEF SetStatus, Tabled
  <2>3. states' \in [Places -> Entries]
    BY <1>6 DEF SetStatus, Tabled, Entries
  <2>4. QED
    BY <1>6, <2>2, <2>3 DEF SetStatus, Tabled, Positions
<1>7. ASSUME NEW i \in Places, Delete(i) PROVE Tabled'
  BY <1>7, DeleteTypes
<1>8. ASSUME NEW r \in Callers, Ban(r) PROVE Tabled'
  <2>1. Listed(list[r]) /\ at[r] \in 1..Len(list[r])
    BY <1>8, Listing DEF Ban, Served
  <2>2. at[r] \in Places
    BY <2>1, Room
  <2>3. QED
    BY <1>8, <2>2 DEF Ban, Disable, Tabled, Positions, Entries
<1>9. CASE UNCHANGED <<table, importing>>
  BY <1>9 DEF table, Tabled, Positions
<1>10. ASSUME NEW r \in Callers, CallerStep(r) PROVE Ban(r) \/ UNCHANGED <<table, importing>>
  BY <1>10 DEF CallerStep, Start, Finish, Retry, Choose
<1>11. QED
  BY <1>1, <1>2, <1>3, <1>4, <1>5, <1>6, <1>7, <1>8, <1>9, <1>10 DEF TableNext, AdminStep, tableVars

LEMMA ServedStep == Tabled /\ Served /\ [TableNext]_tableVars => Served'
<1> SUFFICES ASSUME Tabled, Served, [TableNext]_tableVars PROVE Served'
  OBVIOUS
<1>1. CASE UNCHANGED callerVars
  BY <1>1 DEF callerVars, Served
<1>2. ASSUME NEW r \in Callers, Start(r) PROVE Served'
  <2>1. keys \in {<<>>} \cup Lists
    BY Listing DEF Tabled
  <2>2. QED
    BY <1>2, <2>1 DEF Start, Served
<1>3. ASSUME NEW r \in Callers, NEW i \in Places, Choose(r, i) PROVE Served'
  BY <1>3 DEF Choose, Served, Places
<1>4. ASSUME NEW r \in Callers, End(r) PROVE Served'
  BY <1>4, KeyTableAssumption DEF End, Served
<1>5. ASSUME NEW r \in Callers, pc' = [pc EXCEPT ![r] = "ready"], at' = [at EXCEPT ![r] = 0],
             UNCHANGED list
      PROVE  Served'
  BY <1>5, KeyTableAssumption DEF Served
<1>6. ASSUME NEW r \in Callers, CallerStep(r) PROVE Served'
  BY <1>2, <1>3, <1>4, <1>5, <1>6 DEF CallerStep, Finish, Retry, Ban
<1>7. ASSUME AdminStep PROVE UNCHANGED callerVars
  BY <1>7 DEF AdminStep, AddKeys, Override, ConfigSave, ImportBegins, ImportEnds, SetStatus, Delete
<1>8. QED
  BY <1>1, <1>6, <1>7 DEF TableNext, tableVars

LEMMA TableTypes == TableSpec => [](Tabled /\ Served)
<1>1. TableInit => Tabled /\ Served
  BY InitTypes, Types
<1>2. QED
  BY <1>1, TableStep, ServedStep, PTL DEF TableSpec

-----------------------------------------------------------------------------
(* Theorems about the table                                                  *)

\* Every variable has its type: no position is active beyond the list, and a
\* request that calls does so with a position of its list.
THEOREM TableTypeCorrect == TableSpec => []TableTypeOK
  BY TableTypes, Types, PTL

\* The two lists of positions divide the keys among them, as long as no
\* position of another list of keys comes in: through a ban that is late, an
\* import or the configuration page (key_manager.py).
THEOREM PositionsArePartitioned == TableSpec => StaysPartition
<1> DEFINE A == Partition => Partition' \/ StaleBan \/ ForeignPositions
<1>1. ASSUME Tabled, Served, TableNext, Partition
      PROVE  Partition' \/ StaleBan \/ ForeignPositions
  <2>1. Positions = active \cup disabled /\ active \cap disabled = {} /\ Positions \subseteq Int
    BY <1>1 DEF Partition, Positions
  <2>2. ASSUME NEW ks \in Lists, AddKeys(ks) PROVE Partition'
    <3> DEFINE new == Sublist(ks, {k \in ApiKeys : \A i \in Positions : keys[i] # k})
               n == Len(keys)
    <3>1. new \in Seq(ApiKeys)
      BY Listing, SublistType DEF Listed
    <3> HIDE DEF new
    <3>2. /\ keys' = keys \o new /\ disabled' = disabled
          /\ active' = active \cup (n + 1)..(n + Len(new))
      BY <2>2 DEF AddKeys, new
    <3>3. Len(keys') = n + Len(new) /\ n \in Nat /\ Len(new) \in Nat
      BY <1>1, <3>1, <3>2 DEF Tabled, Listed
    <3>4. Positions = 1..n /\ Positions' = 1..(n + Len(new))
      BY <3>3 DEF Positions
    <3> HIDE DEF n
    <3>5. Positions' = Positions \cup (n + 1)..(n + Len(new))
      BY <3>3, <3>4
    <3>6. Positions \cap (n + 1)..(n + Len(new)) = {}
      BY <3>3, <3>4
    <3>7. QED
      BY <2>1, <3>2, <3>5, <3>6 DEF Partition
  <2>3. ASSUME NEW ks \in Lists, Replace(ks) PROVE Partition'
    BY <2>3 DEF Replace, Partition, Positions
  <2>4. ASSUME NEW S, NEW on \in BOOLEAN, SetStatus(S, on) PROVE Partition'
    BY <2>1, <2>4 DEF SetStatus, Partition, Positions
  <2>5. ASSUME NEW i \in Places, Delete(i) PROVE Partition'
    <3>1. /\ i \in Positions /\ i \in Int /\ active' = Shift(active, i)
          /\ disabled' = Shift(disabled, i) /\ Len(keys) \in Nat
      BY <1>1, <2>5, Room DEF Delete, Positions, Tabled
    <3>2. active \subseteq Int /\ disabled \subseteq Int
      BY <2>1
    <3>3. Len(keys') = Len(keys) - 1
      <4>1. keys' = [j \in 1..(Len(keys) - 1) |-> IF j < i THEN keys[j] ELSE keys[j + 1]]
        BY <2>5 DEF Delete
      <4>2. keys \in Seq(ApiKeys) /\ i \in 1..Len(keys)
        BY <1>1, <2>5 DEF Tabled, Listed, Delete, Positions
      <4>3. \A j \in 1..(Len(keys) - 1) : (IF j < i THEN keys[j] ELSE keys[j + 1]) \in ApiKeys
        BY <4>2
      <4>4. QED
        BY <3>1, <4>1, <4>2, <4>3
    <3>4. \A j \in Int : j \in Positions' <=> 1 <= j /\ j <= Len(keys) - 1
      BY <3>1, <3>3 DEF Positions
    <3>5. \A j \in Int : j \in Positions <=> 1 <= j /\ j <= Len(keys)
      BY <3>1 DEF Positions
    <3>6. \A j \in Int : j \in active' <=> (j \in active /\ j < i) \/ (j + 1 \in active /\ j + 1 > i)
      BY <3>1, <3>2, ShiftElements
    <3>7. \A j \in Int : j \in disabled' <=> (j \in disabled /\ j < i) \/ (j + 1 \in disabled /\ j + 1 > i)
      BY <3>1, <3>2, ShiftElements
    <3>8. active' \subseteq Int /\ disabled' \subseteq Int /\ Positions' \subseteq Int
      <4>1. Shift(active, i) \subseteq Int /\ Shift(disabled, i) \subseteq Int
        BY <3>1, <3>2, ShiftElements
      <4>2. QED
        BY <3>1, <4>1 DEF Positions
    <3>9. \A j \in Int : j \in Positions <=> j \in active \/ j \in disabled
      BY <2>1
    <3>10. \A j \in Int : ~ (j \in active /\ j \in disabled)
      BY <2>1
    <3>11. \A j \in Int : ~ (j \in active' /\ j \in disabled')
      BY <3>1, <3>6, <3>7, <3>10
    <3>12. \A j \in Int : j \in Positions' <=> j \in active' \/ j \in disabled'
      <4>1. i \in Int /\ 1 <= i /\ i <= Len(keys) /\ Len(keys) \in Int
        BY <3>1, <3>5
      <4>2. ASSUME NEW j \in Int
            PROVE  j \in Positions' <=> (j \in Positions /\ j < i) \/ (j + 1 \in Positions /\ j + 1 > i)
        BY <3>4, <3>5, <4>1
      <4>3. QED
        BY <3>6, <3>7, <3>9, <4>2
    <3>13. QED
      BY <3>8, <3>11, <3>12 DEF Partition
  <2>6. ASSUME NEW r \in Callers, Ban(r) PROVE Partition' \/ StaleBan
    <3>1. CASE at[r] \notin Positions
      BY <2>6, <3>1 DEF StaleBan
    <3>2. CASE at[r] \in Positions
      BY <2>1, <2>6, <3>2 DEF Ban, Disable, Partition, Positions
    <3>3. QED
      BY <3>1, <3>2
  <2>7. CASE UNCHANGED table
    BY <1>1, <2>7 DEF table, Partition, Positions
  <2>8. ASSUME NEW r \in Callers, CallerStep(r) PROVE Ban(r) \/ UNCHANGED table
    BY <2>8 DEF CallerStep, Start, Finish, Retry, Choose
  <2>9. ASSUME AdminStep PROVE Partition' \/ ForeignPositions
    BY <2>2, <2>3, <2>4, <2>5, <2>9 DEF AdminStep, Override, ImportBegins, ForeignPositions
  <2>10. QED
    BY <1>1, <2>6, <2>7, <2>8, <2>9 DEF TableNext
<1>2. Tabled /\ Served /\ [TableNext]_tableVars => [A]_tableVars
  BY <1>1
<1> HIDE DEF A
<1>3. TableSpec => [][A]_tableVars
  BY <1>2, TableTypes, PTL DEF TableSpec
<1>4. QED
  BY <1>3 DEF StaysPartition, A

\* StateOf and Off for any list, entries and positions.
StateIn(ks, st, k) ==
    LET kept == {j \in 1..Len(ks) : ks[j] = k /\ st[j] # "none"}
    IN  IF kept = {} THEN "none"
        ELSE st[CHOOSE j \in kept : \A i \in kept : i <= j]
OffIn(ks, off, k) == \E i \in 1..Len(ks) : ks[i] = k /\ i \in off
Only(ks, k, p) == p \in 1..Len(ks) /\ \A i \in 1..Len(ks) : ks[i] = k <=> i = p

LEMMA OnlyState ==
    ASSUME NEW ks, Len(ks) \in Nat, NEW k, NEW st, NEW p, Only(ks, k, p)
    PROVE  StateIn(ks, st, k) = st[p]
<1> DEFINE kept == {j \in 1..Len(ks) : ks[j] = k /\ st[j] # "none"}
<1>2. CASE st[p] = "none"
  <2>1. kept = {}
    BY <1>2 DEF Only
  <2>2. QED
    BY <1>2, <2>1 DEF StateIn
<1>3. CASE st[p] # "none"
  <2>1. kept = {p} /\ p \in Int
    BY <1>3 DEF Only
  <2>2. (CHOOSE j \in kept : \A i \in kept : i <= j) = p
    <3> HIDE DEF kept
    <3>1. QED
      BY <2>1
  <2>3. QED
    BY <2>1, <2>2 DEF StateIn
<1>4. QED
  BY <1>2, <1>3

LEMMA OnlyOff ==
    ASSUME NEW ks, NEW k, NEW off, NEW p, Only(ks, k, p)
    PROVE  OffIn(ks, off, k) <=> p \in off
  BY DEF OffIn, Only

LEMMA StatusesIn ==
    ASSUME NEW k
    PROVE  /\ StateOf(k) = StateIn(keys, states, k) /\ StateOf(k)' = StateIn(keys', states', k)
           /\ Off(k) <=> OffIn(keys, disabled, k)
           /\ Off(k)' <=> OffIn(keys', disabled', k)
           /\ Unique(k) <=> \E p : Only(keys, k, p)
           /\ Unique(k)' <=> \E p : Only(keys', k, p)
  BY DEF StateOf, StateIn, Off, OffIn, Unique, Only, Positions

\* Between two lists with a key at one position each, its status and its reason
\* follow when the position's do.
LEMMA Follow ==
    ASSUME Tabled, Len(keys') \in Nat, NEW k, Unique(k), Unique(k)',
           \A p, q : Only(keys, k, p) /\ Only(keys', k, q)
                     => (q \in disabled' <=> p \in disabled) /\ states'[q] = states[p]
    PROVE  (Off(k)' <=> Off(k)) /\ StateOf(k)' = StateOf(k)
<1>1. Len(keys) \in Nat
  BY Room DEF Tabled
<1>2. PICK p : Only(keys, k, p)
  BY StatusesIn
<1>3. PICK q : Only(keys', k, q)
  BY StatusesIn
<1>4. StateIn(keys, states, k) = states[p] /\ (OffIn(keys, disabled, k) <=> p \in disabled)
  <2>1. StateIn(keys, states, k) = states[p]
    BY <1>1, <1>2, OnlyState
  <2>2. OffIn(keys, disabled, k) <=> p \in disabled
    BY <1>2, OnlyOff
  <2>3. QED
    BY <2>1, <2>2
<1>5. StateIn(keys', states', k) = states'[q] /\ (OffIn(keys', disabled', k) <=> q \in disabled')
  <2>1. StateIn(keys', states', k) = states'[q]
    BY <1>3, OnlyState
  <2>2. OffIn(keys', disabled', k) <=> q \in disabled'
    BY <1>3, OnlyOff
  <2>3. QED
    BY <2>1, <2>2
<1>6. (q \in disabled' <=> p \in disabled) /\ states'[q] = states[p]
  BY <1>2, <1>3
<1>7. QED
  BY <1>4, <1>5, <1>6, StatusesIn

\* A key keeps its status and its reason when others are added, replaced or
\* deleted, although all of these are kept by position (add_keys, delete_key).
THEOREM StatusIsKept == TableSpec => StatusFollowsKey
<1> DEFINE A == Moves => \A k \in ApiKeys :
                  Unique(k) /\ Unique(k)' => (Off(k)' <=> Off(k)) /\ StateOf(k)' = StateOf(k)
<1>1. ASSUME Tabled, Tabled', NEW k \in ApiKeys, Unique(k), Unique(k)', Moves
      PROVE  (Off(k)' <=> Off(k)) /\ StateOf(k)' = StateOf(k)
  <2>1. Len(keys) \in Nat /\ Len(keys') \in Nat /\ keys \in Seq(ApiKeys) /\ Len(keys) <= MaxKeys
    BY <1>1, Room DEF Tabled, Listed
  <2>2. ASSUME NEW ks \in Lists, AddKeys(ks)
        PROVE  (Off(k)' <=> Off(k)) /\ StateOf(k)' = StateOf(k)
    <3> DEFINE new == Sublist(ks, {l \in ApiKeys : \A i \in Positions : keys[i] # l})
    <3>1. new \in Seq(ApiKeys)
      BY Listing, SublistType DEF Listed
    <3>2. keys' = keys \o new /\ disabled' = disabled /\ states' = states
      BY <2>2 DEF AddKeys
    <3> HIDE DEF new
    <3>3. /\ Len(keys') = Len(keys) + Len(new) /\ Len(new) \in Nat
          /\ \A i \in 1..Len(keys) : keys'[i] = keys[i]
      BY <2>1, <3>1, <3>2
    <3>4. 1..Len(keys) \subseteq 1..Len(keys')
      BY <2>1, <3>3
    <3>5. ASSUME NEW p, NEW q, Only(keys, k, p), Only(keys', k, q)
          PROVE  q = p
      BY <3>3, <3>4, <3>5 DEF Only
    <3>6. QED
      BY <1>1, <2>1, <3>2, <3>5, Follow
  <2>3. ASSUME NEW ks \in Lists, Override(ks)
        PROVE  (Off(k)' <=> Off(k)) /\ StateOf(k)' = StateOf(k)
    <3>1. Listed(ks) /\ keys' = ks
      BY <2>3, Listing DEF Override, Replace
    <3>2. 1..Len(ks) \subseteq Places
      BY <3>1, Room
    <3>3. PICK p : Only(keys, k, p)
      BY <1>1, StatusesIn
    <3>4. StateIn(keys, states, k) = states[p]
      BY <2>1, <3>3, OnlyState
    <3>5. ASSUME NEW q, Only(keys', k, q)
          PROVE  (q \in disabled' <=> p \in disabled) /\ states'[q] = states[p]
      <4>1. q \in 1..Len(ks) /\ ks[q] = k /\ q \in Places
        BY <3>1, <3>2, <3>5 DEF Only
      <4>2. states'[q] = StateOf(k)
        BY <2>3, <4>1 DEF Override, Replace
      <4>3. k \in {keys[j] : j \in disabled \cap Positions} <=> p \in disabled
        BY <3>3 DEF Only, Positions
      <4>4. q \in disabled' <=> k \in {keys[j] : j \in disabled \cap Positions}
        BY <2>3, <4>1 DEF Override, Replace
      <4>5. QED
        BY <3>4, <4>2, <4>3, <4>4, StatusesIn
    <3>6. \A o : Only(keys, k, o) => o = p
      BY <3>3 DEF Only
    <3>7. QED
      BY <1>1, <2>1, <3>5, <3>6, Follow
  <2>4. ASSUME NEW i \in Places, Delete(i)
        PROVE  (Off(k)' <=> Off(k)) /\ StateOf(k)' = StateOf(k)
    <3>1. /\ keys' = [j \in 1..(Len(keys) - 1) |-> IF j < i THEN keys[j] ELSE keys[j + 1]]
          /\ disabled' = Shift(disabled, i) /\ i \in 1..Len(keys) /\ i \in Int
          /\ states' = [j \in Places |-> IF j < i THEN states[j]
                                         ELSE IF j < MaxKeys THEN states[j + 1] ELSE "none"]
      BY <2>4 DEF Delete, Positions
    <3>2. Len(keys') = Len(keys) - 1
      <4>1. \A j \in 1..(Len(keys) - 1) : (IF j < i THEN keys[j] ELSE keys[j + 1]) \in ApiKeys
        BY <2>1, <3>1
      <4>2. QED
        BY <2>1, <3>1, <4>1
    <3>3. disabled \subseteq Int
      BY <1>1 DEF Tabled, Places
    <3>4. ASSUME NEW p, NEW q, Only(keys, k, p), Only(keys', k, q)
          PROVE  (q \in disabled' <=> p \in disabled) /\ states'[q] = states[p]
      <4>1. q \in 1..(Len(keys) - 1) /\ p \in 1..Len(keys) /\ keys'[q] = k
        BY <3>2, <3>4 DEF Only
      <4>2. q \in Int /\ q + 1 \in 1..Len(keys) /\ q \in 1..Len(keys) /\ q \in Places /\ p \in Int
        BY <2>1, <4>1, KeyTableAssumption DEF Places
      <4>3. keys'[q] = IF q < i THEN keys[q] ELSE keys[q + 1]
        BY <3>1, <4>1
      <4>4. q < i => p = q
        BY <3>4, <4>1, <4>2, <4>3 DEF Only
      <4>5. ~ (q < i) => p = q + 1
        BY <3>4, <4>1, <4>2, <4>3 DEF Only
      <4>6. q \in disabled' <=> (q \in disabled /\ q < i) \/ (q + 1 \in disabled /\ q + 1 > i)
        BY <3>1, <3>3, <4>2, ShiftElements
      <4>7. q \in disabled' <=> p \in disabled
        BY <3>1, <4>2, <4>4, <4>5, <4>6
      <4>8. states'[q] = states[p]
        <5>1. states'[q] = IF q < i THEN states[q] ELSE IF q < MaxKeys THEN states[q + 1] ELSE "none"
          BY <3>1, <4>2
        <5>2. q < MaxKeys
          BY <2>1, <4>2, KeyTableAssumption
        <5>3. QED
          BY <4>4, <4>5, <5>1, <5>2
      <4>9. QED
        BY <4>7, <4>8
    <3>5. QED
      BY <1>1, <2>1, <3>4, Follow
  <2>5. QED
    BY <1>1, <2>2, <2>3, <2>4 DEF Moves
<1>2. Tabled /\ Served /\ [TableNext]_tableVars /\ (Tabled /\ Served)' => [A]_tableVars
  BY <1>1
<1> HIDE DEF A
<1>3. TableSpec => [][A]_tableVars
  BY <1>2, TableTypes, PTL DEF TableSpec
<1>4. QED
  BY <1>3 DEF StatusFollowsKey, A

\* What a request took is still where it was when it took it.
Behind ==
    \A r \in Callers : pc[r] # "idle" =>
        \A i \in 1..Len(list[r]) : i \in Positions /\ keys[i] = list[r][i]

\* No key leaves its position.
KeysStay == \A i \in Positions : i \in Positions' /\ keys'[i] = keys[i]

LEMMA BehindStep ==
    Tabled /\ Served /\ Behind /\ [TableNext]_tableVars /\ [KeysStay]_keys => Behind'
<1> SUFFICES ASSUME Tabled, Served, Behind, [TableNext]_tableVars, [KeysStay]_keys,
                    NEW r \in Callers, pc'[r] # "idle",
                    NEW i \in 1..Len(list'[r])
             PROVE  i \in Positions' /\ keys'[i] = list'[r][i]
  BY DEF Behind
<1>1. \A j \in Positions : j \in Positions' /\ keys'[j] = keys[j]
  BY DEF KeysStay, Positions
<1>2. CASE pc[r] # "idle" /\ list'[r] = list[r]
  BY <1>1, <1>2 DEF Behind
<1>3. CASE Start(r)
  BY <1>1, <1>3 DEF Start, Served, Positions
<1>4. CASE UNCHANGED callerVars
  BY <1>2, <1>4 DEF callerVars
<1>5. ASSUME NEW q \in Callers, CallerStep(q)
      PROVE  i \in Positions' /\ keys'[i] = list'[r][i]
  <2>1. CASE q = r
    <3>1. Start(r) \/ (pc[r] # "idle" /\ list'[r] = list[r])
      BY <1>5, <2>1 DEF CallerStep, Finish, Retry, Ban, Choose, End, Served
    <3>2. QED
      BY <1>2, <1>3, <3>1
  <2>2. CASE q # r
    <3>1. pc'[r] = pc[r] /\ list'[r] = list[r]
      BY <1>5, <2>2 DEF CallerStep, Start, Finish, Retry, Ban, Choose, End, Served
    <3>2. QED
      BY <1>2, <3>1
  <2>3. QED
    BY <2>1, <2>2
<1>6. ASSUME AdminStep PROVE UNCHANGED callerVars
  BY <1>6 DEF AdminStep, AddKeys, Override, ConfigSave, ImportBegins, ImportEnds, SetStatus, Delete
<1>7. QED
  BY <1>4, <1>5, <1>6 DEF TableNext, tableVars

\* A ban hits another key than the one whose call failed only because keys were
\* deleted or replaced: as long as every key stays at its position it hits that
\* one, whatever else is done to the table and however many requests there are
\* (update_key_state, with a position chosen from the list of the request).
THEOREM BanHitsItsKey == TableSpec /\ [][KeysStay]_keys => BanHitsCaller
<1>1. TableInit => Behind
  BY DEF TableInit, Behind
<1>2. ASSUME Tabled, Served, Behind, NEW r \in Callers, Ban(r), NEW k \in ApiKeys, Off(k)', ~ Off(k)
      PROVE  k = list[r][at[r]]
  <2>1. at[r] \in Positions /\ keys[at[r]] = list[r][at[r]]
    BY <1>2 DEF Ban, Served, Behind
  <2>2. keys' = keys /\ disabled' = disabled \cup {at[r]} /\ Positions' = Positions
    BY <1>2 DEF Ban, Disable, Positions
  <2>3. PICK i \in Positions : keys[i] = k /\ i \in disabled \cup {at[r]}
    BY <1>2, <2>2 DEF Off
  <2>4. i = at[r]
    BY <1>2, <2>3 DEF Off
  <2>5. QED
    BY <2>1, <2>3, <2>4
<1>3. Tabled /\ Served /\ Behind =>
        \A r \in Callers : Ban(r) => \A k \in ApiKeys : Off(k)' /\ ~ Off(k) => k = list[r][at[r]]
  BY <1>2
<1>4. QED
  BY <1>1, <1>3, BehindStep, TableTypes, PTL DEF TableSpec, BanHitsCaller

\* In particular keys that are only added and turned on or off do no harm.
THEOREM AddingKeysIsHarmless ==
    ASSUME Operations \subseteq {"append", "status"}
    PROVE  TableSpec => BanHitsCaller
<1>1. ASSUME Tabled, [TableNext]_tableVars
      PROVE  [KeysStay]_keys
  <2>1. ASSUME NEW ks \in Lists, AddKeys(ks)
        PROVE  KeysStay
    <3> DEFINE new == Sublist(ks, {k \in ApiKeys : \A i \in Positions : keys[i] # k})
    <3>1. new \in Seq(ApiKeys)
      BY Listing, SublistType DEF Listed
    <3>2. keys' = keys \o new /\ keys \in Seq(ApiKeys)
      BY <1>1, <2>1 DEF AddKeys, Tabled, Listed
    <3> HIDE DEF new
    <3>3. Len(keys') = Len(keys) + Len(new) /\ \A i \in 1..Len(keys) : keys'[i] = keys[i]
      BY <3>1, <3>2
    <3>4. Len(keys) \in Nat /\ Len(new) \in Nat
      BY <3>1, <3>2
    <3>5. QED
      BY <3>3, <3>4 DEF KeysStay, Positions
  <2>2. ASSUME NEW r \in Callers, CallerStep(r)
        PROVE  UNCHANGED keys
    BY <2>2 DEF CallerStep, Start, Finish, Retry, Ban, Choose, Disable, table
  <2>3. ASSUME AdminStep
        PROVE  KeysStay \/ UNCHANGED keys
    <3>1. CASE \E ks \in Lists : AddKeys(ks)
      BY <2>1, <3>1
    <3>2. CASE ImportEnds \/ \E S \in SUBSET Places \ {{}}, on \in BOOLEAN : SetStatus(S, on)
      BY <3>2 DEF ImportEnds, SetStatus
    <3>3. /\ \A ks \in Lists : ~ Override(ks) /\ ~ ConfigSave(ks)
          /\ \A ks, D, P : ~ ImportBegins(ks, D, P)
          /\ \A i : ~ Delete(i)
      BY DEF Override, ConfigSave, ImportBegins, Delete
    <3>4. QED
      BY <2>3, <3>1, <3>2, <3>3 DEF AdminStep
  <2>4. QED
    BY <1>1, <2>2, <2>3 DEF TableNext, tableVars, table
<1>2. TableSpec => [][KeysStay]_keys
  BY <1>1, TableTypes, PTL DEF TableSpec
<1>3. QED
  BY <1>2, BanHitsItsKey, PTL
==============================================================================
