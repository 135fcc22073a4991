-------------------------- MODULE AccountPreloadProofs --------------------------
(* Theorems about AccountPreload, for every number of accounts, every list  *)
(* of kinds, every size of the queue and of the cache, and every value of    *)
(* the bounds.                                                               *)
EXTENDS AccountPreload, Integers, SequenceTheorems, FiniteSetTheorems, WellFoundedInduction, TLAPS

-----------------------------------------------------------------------------
(* Lists                                                                     *)

\* A set of natural numbers has a smallest element.
LEMMA SmallestExists ==
    ASSUME NEW T, T \subseteq Nat, T # {}
    PROVE  \E k \in T : \A j \in T : k <= j
<1> DEFINE R == OpToRel(<, Nat)
<1>1. IsWellFoundedOn(R, Nat)
  BY NatLessThanWellFounded
<1> HIDE DEF R
<1>2. PICK k \in T : \A j \in T : ~ (<<j, k>> \in R)
  BY <1>1, WFMin
<1>3. \A j \in T : ~ (j < k)
  BY <1>2 DEF R, OpToRel
<1>4. QED
  BY <1>3

\* Induction up to n, for a set in the place of a predicate.
LEMMA UpTo ==
    ASSUME NEW n \in Nat, NEW T, 0 \in T, \A i \in 1..n : i - 1 \in T => i \in T
    PROVE  0..n \subseteq T
<1> DEFINE Bad == {i \in 0..n : i \notin T}
<1>1. CASE Bad # {}
  <2> Bad \subseteq Nat
    OBVIOUS
  <2>1. PICK i \in Bad : \A j \in Bad : i <= j
    <3> HIDE DEF Bad
    <3>1. QED
      BY <1>1, SmallestExists
  <2>2. i \in 1..n /\ i - 1 \in 0..n
    BY <2>1
  <2>3. i - 1 \notin Bad
    BY <2>1, <2>2
  <2>4. QED
    BY <2>1, <2>2, <2>3
<1>2. CASE Bad = {}
  BY <1>2
<1>3. QED
  BY <1>1, <1>2

\* One more element at the end.
LEMMA OneMore ==
    ASSUME NEW A, NEW list \in Seq(A), NEW a \in A
    PROVE  /\ Append(list, a) \in Seq(A) /\ Len(Append(list, a)) = Len(list) + 1
           /\ ToSet(Append(list, a)) = ToSet(list) \cup {a}
           /\ IsInjective(list) /\ a \notin ToSet(list) => IsInjective(Append(list, a))
<1> DEFINE more == Append(list, a)
           n == Len(list)
<1>1. /\ more \in Seq(A) /\ Len(more) = n + 1 /\ n \in Nat
      /\ \A j \in 1..n : more[j] = list[j]
      /\ more[n + 1] = a
  BY AppendProperties
<1>2. DOMAIN more = 1..(n + 1) /\ DOMAIN list = 1..n
  BY <1>1
<1> HIDE DEF more, n
<1>3. ToSet(more) = ToSet(list) \cup {a}
  BY <1>1, <1>2 DEF ToSet
<1>4. ASSUME IsInjective(list), a \notin ToSet(list)
      PROVE  IsInjective(more)
  <2>1. \A j \in 1..n : list[j] # a
    BY <1>2, <1>4 DEF ToSet
  <2>2. \A j, k \in 1..n : list[j] = list[k] => j = k
    BY <1>2, <1>4 DEF IsInjective
  <2>3. \A j, k \in 1..(n + 1) : more[j] = more[k] => j = k
    <3>1. \A j \in 1..(n + 1) : j \in 1..n \/ j = n + 1
      BY <1>1
    <3>2. QED
      BY <1>1, <2>1, <2>2, <3>1
  <2>4. QED
    BY <1>2, <2>3 DEF IsInjective
<1>5. QED
  BY <1>1, <1>3, <1>4 DEF more

\* What Sublist returns is a list, has the elements of the list that are in the
\* set and repeats none that the list does not repeat.
LEMMA SublistProperties ==
    ASSUME NEW A, NEW list \in Seq(A), NEW set
    PROVE  /\ Sublist(list, set) \in Seq(A)
           /\ ToSet(Sublist(list, set)) = ToSet(list) \cap set
           /\ Len(Sublist(list, set)) <= Len(list)
           /\ IsInjective(list) => IsInjective(Sublist(list, set))
<1> DEFINE n == Len(list)
           step(i, l) == IF list[i] \in set THEN Append(l, list[i]) ELSE l
           Def(k, m) == k = [i \in 0..m |-> IF i = 0 THEN <<>> ELSE step(i, k[i - 1])]
           kept == CHOOSE k : Def(k, n)
<1>1. n \in Nat /\ \A i \in 1..n : list[i] \in A
  OBVIOUS
<1>2. Sublist(list, set) = kept[n]
  BY DEF Sublist
<1> HIDE DEF n, step
<1>3. \E k : Def(k, n)
  <2> DEFINE T == {m \in 0..n : \E k : Def(k, m)}
  <2>1. 0 \in T
    <3>1. Def([i \in 0..0 |-> <<>>], 0)
      OBVIOUS
    <3> HIDE DEF Def
    <3>2. QED
      BY <1>1, <3>1
  <2>2. ASSUME NEW m \in 1..n, m - 1 \in T
        PROVE  m \in T
    <3>1. PICK k : Def(k, m - 1)
      BY <2>2
    <3> DEFINE l == [i \in 0..m |-> IF i = m THEN step(m, k[m - 1]) ELSE k[i]]
    <3>2. ASSUME NEW i \in 0..m
          PROVE  l[i] = IF i = 0 THEN <<>> ELSE step(i, l[i - 1])
      <4>1. \A j \in 0..(m - 1) : k[j] = IF j = 0 THEN <<>> ELSE step(j, k[j - 1])
        BY <3>1
      <4>2. CASE i = m
        <5>1. m - 1 \in 0..m /\ m - 1 # m /\ m # 0
          BY <1>1
        <5>2. l[m - 1] = k[m - 1] /\ l[m] = step(m, k[m - 1])
          BY <5>1
        <5>3. QED
          BY <4>2, <5>1, <5>2
      <4>3. CASE i # m
        <5>1. i \in 0..(m - 1) /\ (i # 0 => i - 1 \in 0..m /\ i - 1 # m)
          BY <1>1, <4>3
        <5>2. l[i] = k[i] /\ (i # 0 => l[i - 1] = k[i - 1])
          BY <4>3, <5>1
        <5>3. QED
          BY <4>1, <5>1, <5>2
      <4>4. QED
        BY <4>2, <4>3
    <3>3. Def(l, m)
      <4>1. l = [i \in 0..m |-> l[i]]
        OBVIOUS
      <4> HIDE DEF l
      <4>2. QED
        BY <3>2, <4>1
    <3> HIDE DEF Def
    <3>4. QED
      BY <1>1, <3>3
  <2>3. n \in T
    <3> HIDE DEF T
    <3>1. 0..n \subseteq T
      BY <1>1, <2>1, <2>2, UpTo
    <3>2. QED
      BY <1>1, <3>1
  <2>4. QED
    BY <2>3
<1>4. Def(kept, n)
  <2> HIDE DEF Def
  <2>1. QED
    BY <1>3
<1> HIDE DEF kept
<1>5. /\ kept[0] = <<>>
      /\ \A i \in 1..n : kept[i] = step(i, kept[i - 1])
  <2>1. \A i \in 0..n : kept[i] = IF i = 0 THEN <<>> ELSE step(i, kept[i - 1])
    BY <1>4
  <2>2. 0 \in 0..n /\ \A i \in 1..n : i \in 0..n /\ i # 0
    BY <1>1
  <2>3. QED
    BY <2>1, <2>2
<1> DEFINE upTo(i) == {list[j] : j \in 1..i}
           Good(i) == /\ kept[i] \in Seq(A)
                      /\ ToSet(kept[i]) = upTo(i) \cap set
                      /\ Len(kept[i]) <= i
                      /\ IsInjective(list) => IsInjective(kept[i])
           T == {i \in 0..n : Good(i)}
<1>6. 0 \in T
  <2>1. <<>> \in Seq(A) /\ ToSet(<<>>) = {} /\ Len(<<>>) = 0 /\ IsInjective(<<>>)
    BY DEF ToSet, IsInjective
  <2>2. upTo(0) = {} /\ 0 \in 0..n
    BY <1>1
  <2>3. Good(0)
    <3> HIDE DEF upTo
    <3>1. QED
      BY <1>5, <2>1, <2>2
  <2> HIDE DEF Good
  <2>4. QED
    BY <2>2, <2>3
<1>7. ASSUME NEW i \in 1..n, i - 1 \in T
      PROVE  i \in T
  <2> DEFINE l == kept[i - 1]
             x == list[i]
  <2>1. /\ l \in Seq(A) /\ ToSet(l) = upTo(i - 1) \cap set /\ Len(l) <= i - 1
        /\ IsInjective(list) => IsInjective(l)
        /\ x \in A
    BY <1>1, <1>7
  <2>2. upTo(i) = upTo(i - 1) \cup {x}
    BY <1>1
  <2>3. CASE x \in set
    <3>1. kept[i] = Append(l, x)
      BY <1>5, <2>3 DEF step
    <3>2. /\ kept[i] \in Seq(A) /\ ToSet(kept[i]) = ToSet(l) \cup {x} /\ Len(kept[i]) = Len(l) + 1
          /\ IsInjective(l) /\ x \notin ToSet(l) => IsInjective(kept[i])
      BY <2>1, <3>1, OneMore
    <3>3. ASSUME IsInjective(list)
          PROVE  x \notin ToSet(l)
      <4>1. ASSUME NEW j \in 1..(i - 1)
            PROVE  list[j] # x
        <5>1. j \in DOMAIN list /\ i \in DOMAIN list /\ j # i
          BY <1>1 DEF n
        <5>2. QED
          BY <3>3, <5>1 DEF IsInjective
      <4>2. QED
        BY <2>1, <4>1
    <3>4. ToSet(kept[i]) = upTo(i) \cap set
      BY <2>1, <2>2, <2>3, <3>2
    <3>5. Len(l) \in Nat /\ Len(kept[i]) <= i
      BY <1>1, <2>1, <3>2
    <3>6. QED
      BY <1>1, <2>1, <3>2, <3>3, <3>4, <3>5
  <2>4. CASE x \notin set
    <3>1. kept[i] = l
      BY <1>5, <2>4 DEF step
    <3>2. ToSet(kept[i]) = upTo(i) \cap set
      BY <2>1, <2>2, <2>4, <3>1
    <3>3. Len(l) \in Nat /\ Len(kept[i]) <= i
      BY <1>1, <2>1, <3>1
    <3>4. QED
      BY <1>1, <2>1, <3>1, <3>2, <3>3
  <2>5. QED
    BY <2>3, <2>4
<1>8. Good(n)
  <2> HIDE DEF T
  <2>1. 0..n \subseteq T
    BY <1>1, <1>6, <1>7, UpTo
  <2>2. n \in T
    BY <1>1, <2>1
  <2>3. QED
    BY <2>2 DEF T
<1>9. upTo(n) = ToSet(list) /\ n = Len(list)
  BY DEF ToSet, n
<1>10. QED
  BY <1>2, <1>8, <1>9


\* As many elements as the list is long, if none is repeated.
LEMMA ElementsOfAList ==
    ASSUME NEW A, NEW list \in Seq(A), IsInjective(list)
    PROVE  IsFiniteSet(ToSet(list)) /\ Cardinality(ToSet(list)) = Len(list)
<1> DEFINE n == Len(list)
           S == 1..n
           T == ToSet(list)
<1>1. n \in Nat /\ DOMAIN list = S /\ list \in [S -> A]
  OBVIOUS
<1>2. list \in [S -> T] /\ \A t \in T : \E i \in S : list[i] = t
  BY <1>1 DEF ToSet
<1>3. list \in Surjection(S, T)
  BY <1>2 DEF Surjection
<1>4. list \in Injection(S, T)
  BY <1>1, <1>2 DEF Injection, IsInjective
<1>5. IsFiniteSet(S) /\ Cardinality(S) = n
  BY <1>1, FS_Interval
<1> HIDE DEF S, T, n
<1>6. IsFiniteSet(T) /\ (Cardinality(T) = Cardinality(S) <=> list \in Injection(S, T))
  BY <1>3, <1>5, FS_Surjection
<1>7. QED
  BY <1>4, <1>5, <1>6 DEF T, n

\* What is left of a list without its first k elements.
LEMMA LaterElements ==
    ASSUME NEW A, NEW list \in Seq(A), IsInjective(list), NEW k \in 0..Len(list)
    PROVE  LET rest == SubSeq(list, k + 1, Len(list))
           IN  /\ rest \in Seq(A) /\ IsInjective(rest)
               /\ ToSet(rest) = ToSet(list) \ {list[i] : i \in 1..k}
<1> DEFINE n == Len(list)
           rest == SubSeq(list, k + 1, n)
<1>1. n \in Nat /\ k \in Nat /\ k <= n /\ DOMAIN list = 1..n /\ \A i \in 1..n : list[i] \in A
  BY LenProperties
<1>2. /\ rest \in Seq(A) /\ Len(rest) = n - k
      /\ \A i \in 1..(n - k) : rest[i] = list[i + k]
  <2>1. k + 1 \in Int /\ n \in Int /\ k + 1 <= n + 1 /\ \A i \in (k + 1)..n : list[i] \in A
    BY <1>1
  <2> HIDE DEF n, rest
  <2>2. /\ rest \in Seq(A)
        /\ Len(rest) = IF k + 1 <= n THEN n - (k + 1) + 1 ELSE 0
        /\ \A i \in 1..(n - (k + 1) + 1) : rest[i] = list[(k + 1) + i - 1]
    BY <2>1, SubSeqProperties DEF rest
  <2>3. n - (k + 1) + 1 = n - k /\ \A i \in 1..(n - k) : (k + 1) + i - 1 = i + k
    BY <1>1
  <2>4. QED
    BY <1>1, <2>2, <2>3
<1>3. DOMAIN rest = 1..(n - k)
  BY <1>2, LenProperties
<1>4. \A i \in 1..(n - k) : i + k \in 1..n
  BY <1>1
<1> HIDE DEF n, rest
<1>5. \A i, j \in 1..n : list[i] = list[j] => i = j
  BY <1>1 DEF IsInjective
<1>6. IsInjective(rest)
  <2>1. SUFFICES ASSUME NEW i \in 1..(n - k), NEW j \in 1..(n - k), rest[i] = rest[j]
                 PROVE  i = j
    BY <1>3 DEF IsInjective
  <2>2. i + k = j + k
    BY <1>2, <1>4, <1>5, <2>1
  <2>3. QED
    BY <1>1, <2>2
<1>7. ASSUME NEW i \in 1..(n - k)
      PROVE  rest[i] \in ToSet(list) /\ \A j \in 1..k : rest[i] # list[j]
  <2>1. rest[i] = list[i + k] /\ i + k \in 1..n
    BY <1>2, <1>4
  <2>2. ASSUME NEW j \in 1..k
        PROVE  rest[i] # list[j]
    <3>1. j \in 1..n /\ j # i + k
      BY <1>1
    <3>2. QED
      BY <1>5, <2>1, <3>1
  <2>3. QED
    BY <1>1, <2>1, <2>2 DEF ToSet
<1>8. ASSUME NEW i \in 1..n, \A j \in 1..k : list[i] # list[j]
      PROVE  list[i] \in ToSet(rest)
  <2>1. ~ (i \in 1..k)
    BY <1>8
  <2>2. i - k \in 1..(n - k) /\ (i - k) + k = i
    BY <1>1, <2>1
  <2>3. rest[i - k] = list[i]
    BY <1>2, <2>2
  <2>4. QED
    BY <1>3, <2>2, <2>3 DEF ToSet
<1>9. ToSet(rest) = ToSet(list) \ {list[i] : i \in 1..k}
  <2>1. ToSet(list) = {list[i] : i \in 1..n} /\ ToSet(rest) = {rest[i] : i \in 1..(n - k)}
    BY <1>1, <1>3 DEF ToSet
  <2>2. \A x \in ToSet(rest) : x \in ToSet(list) /\ \A j \in 1..k : x # list[j]
    BY <1>7, <2>1
  <2>3. \A x \in ToSet(list) : (\A j \in 1..k : x # list[j]) => x \in ToSet(rest)
    BY <1>8, <2>1
  <2>4. QED
    BY <2>2, <2>3
<1>10. QED
  BY <1>2, <1>6, <1>9 DEF rest, n

-----------------------------------------------------------------------------
(* The cache                                                                 *)

Caches == [Accounts -> [Types -> Entry]]

\* The order of access names the cached accounts, once each, and they are not
\* too many.
Tracked ==
    /\ cache \in Caches
    /\ access \in Seq(Accounts) /\ IsInjective(access)
    /\ ToSet(access) = Cached(cache)
    /\ Cardinality(Cached(cache)) <= MaxAccounts

LEMMA WithoutProperties ==
    ASSUME NEW list \in Seq(Accounts), IsInjective(list), NEW a
    PROVE  /\ Without(list, a) \in Seq(Accounts) /\ IsInjective(Without(list, a))
           /\ ToSet(Without(list, a)) = ToSet(list) \ {a}
<1>1. ToSet(list) \subseteq Accounts
  BY DEF ToSet
<1>2. QED
  BY <1>1, SublistProperties DEF Without

LEMMA TouchedProperties ==
    ASSUME NEW list \in Seq(Accounts), IsInjective(list), NEW a \in Accounts
    PROVE  /\ Touched(list, a) \in Seq(Accounts) /\ IsInjective(Touched(list, a))
           /\ ToSet(Touched(list, a)) = ToSet(list) \cup {a}
<1> DEFINE rest == Without(list, a)
<1>1. rest \in Seq(Accounts) /\ IsInjective(rest) /\ ToSet(rest) = ToSet(list) \ {a}
  BY WithoutProperties
<1> HIDE DEF rest
<1>2. /\ Append(rest, a) \in Seq(Accounts) /\ IsInjective(Append(rest, a))
      /\ ToSet(Append(rest, a)) = ToSet(rest) \cup {a}
  BY <1>1, OneMore
<1>3. QED
  BY <1>1, <1>2 DEF Touched, rest

LEMMA CachedFinite == \A c : IsFiniteSet(Cached(c)) /\ Cardinality(Cached(c)) \in Nat
<1>1. \A c : Cached(c) \in SUBSET Accounts
  BY DEF Cached
<1>2. \A c : IsFiniteSet(Cached(c))
  BY <1>1, FS_Subset, PreloadAssumption
<1>3. QED
  BY <1>2, FS_CardinalityType

\* Storing keeps the cache tracked, and brings nothing but the entry.
LEMMA StoreTracked ==
    ASSUME Tracked, NEW a \in Accounts, NEW t \in Types, NEW entry \in Entry \ {"none"},
           Store(a, t, entry)
    PROVE  /\ Tracked'
           /\ \A b \in Accounts, u \in Types :
                 (b # a \/ u # t) /\ cache[b][u] = "none" => cache'[b][u] = "none"
<1>1. PICK k \in 0..Len(access) :
        /\ Evicts(a, k)
        /\ cache' = [b \in Accounts |->
                       IF b = a THEN [cache[a] EXCEPT ![t] = entry]
                       ELSE IF \E i \in 1..k : access[i] = b THEN Empty ELSE cache[b]]
        /\ access' = Touched(SubSeq(access, k + 1, Len(access)), a)
  BY DEF Store
<1> DEFINE gone == {access[i] : i \in 1..k}
           rest == SubSeq(access, k + 1, Len(access))
<1>2. cache \in Caches /\ access \in Seq(Accounts) /\ IsInjective(access)
  BY DEF Tracked
<1>3. rest \in Seq(Accounts) /\ IsInjective(rest) /\ ToSet(rest) = Cached(cache) \ gone
  BY <1>2, LaterElements DEF Tracked
<1>4. access' \in Seq(Accounts) /\ IsInjective(access') /\ ToSet(access') = (Cached(cache) \ gone) \cup {a}
  <2> HIDE DEF rest, gone
  <2>1. QED
    BY <1>1, <1>3, TouchedProperties DEF rest
<1>5. /\ cache' \in [Accounts -> [Types -> Entry]]
      /\ cache'[a] = [cache[a] EXCEPT ![t] = entry]
      /\ \A b \in Accounts \ {a} : cache'[b] = IF b \in gone THEN Empty ELSE cache[b]
  <2>1. Empty \in [Types -> Entry] /\ [cache[a] EXCEPT ![t] = entry] \in [Types -> Entry]
    BY <1>2 DEF Empty, Entry, Caches
  <2>2. \A b : b \in gone <=> \E i \in 1..k : access[i] = b
    OBVIOUS
  <2> HIDE DEF gone
  <2>3. QED
    BY <1>1, <1>2, <2>1, <2>2 DEF Caches
<1>6. cache'[a] # Empty
  <2>1. cache'[a][t] = entry
    BY <1>2, <1>5 DEF Caches
  <2>2. Empty[t] = "none"
    BY DEF Empty
  <2>3. QED
    BY <2>1, <2>2
<1> HIDE DEF gone
<1>7. Cached(cache') = (Cached(cache) \ gone) \cup {a}
  BY <1>5, <1>6 DEF Cached
<1>8. Cardinality(Cached(cache')) <= MaxAccounts
  <2> DEFINE left == Cached(cache) \ gone
  <2>1. IsFiniteSet(left) /\ Cardinality(left) \in Nat
    BY CachedFinite, FS_Subset, FS_CardinalityType
  <2>2. CASE a \in Cached(cache)
    <3>1. k = 0
      <4>1. CASE k # 0
        <5>1. 0 \in 0..(k - 1)
          BY <1>2, <4>1
        <5>2. QED
          BY <1>1, <2>2, <5>1 DEF Evicts
      <4>2. QED
        BY <4>1
    <3>2. gone = {}
      BY <3>1 DEF gone
    <3>3. Cached(cache') = Cached(cache)
      BY <1>7, <2>2, <3>2
    <3>4. QED
      BY <3>3 DEF Tracked
  <2>3. CASE a \notin Cached(cache)
    <3>1. Cardinality(left) < MaxAccounts
      BY <1>1, <2>3 DEF Evicts, gone
    <3> HIDE DEF left
    <3>2. Cardinality(left \cup {a}) <= Cardinality(left) + 1
      <4>1. Cardinality(left \cup {a}) = IF a \in left THEN Cardinality(left) ELSE Cardinality(left) + 1
        BY <2>1, FS_AddElement
      <4>2. QED
        BY <2>1, <4>1
    <3>3. IsFiniteSet(left \cup {a}) /\ Cardinality(left \cup {a}) \in Nat
      BY <2>1, FS_AddElement, FS_CardinalityType
    <3>4. Cached(cache') = left \cup {a}
      BY <1>7 DEF left
    <3>5. QED
      BY <2>1, <3>1, <3>2, <3>3, <3>4, PreloadAssumption
  <2>4. QED
    BY <2>2, <2>3
<1>9. Tracked'
  BY <1>4, <1>5, <1>7, <1>8 DEF Tracked, Caches
<1>10. ASSUME NEW b \in Accounts, NEW u \in Types, b # a \/ u # t, cache[b][u] = "none"
       PROVE  cache'[b][u] = "none"
  <2>1. Empty[u] = "none"
    BY DEF Empty
  <2>2. CASE b = a
    BY <1>2, <1>5, <1>10, <2>2 DEF Caches
  <2>3. CASE b # a
    BY <1>5, <1>10, <2>1, <2>3
  <2>4. QED
    BY <2>2, <2>3
<1>11. QED
  BY <1>9, <1>10

\* Forgetting an account, and reading an entry or its time to live passing,
\* keep the cache tracked and bring nothing.
LEMMA ForgetTracked ==
    ASSUME Tracked, NEW a \in Accounts, Forget(a)
    PROVE  /\ Tracked'
           /\ \A b \in Accounts, u \in Types : cache[b][u] = "none" => cache'[b][u] = "none"
<1>1. /\ cache' = [cache EXCEPT ![a] = Empty] /\ access' = Without(access, a)
  BY DEF Forget
<1>2. cache \in Caches /\ access \in Seq(Accounts) /\ IsInjective(access)
  BY DEF Tracked
<1>3. Empty \in [Types -> Entry] /\ \A u \in Types : Empty[u] = "none"
  BY DEF Empty, Entry
<1>4. /\ cache' \in Caches /\ cache'[a] = Empty
      /\ \A b \in Accounts \ {a} : cache'[b] = cache[b]
  BY <1>1, <1>2, <1>3 DEF Caches
<1>5. Cached(cache') = Cached(cache) \ {a}
  BY <1>4 DEF Cached
<1>6. /\ access' \in Seq(Accounts) /\ IsInjective(access')
      /\ ToSet(access') = Cached(cache')
  BY <1>1, <1>2, <1>5, WithoutProperties DEF Tracked
<1>7. Cardinality(Cached(cache')) <= MaxAccounts
  <2>1. Cached(cache') \in SUBSET Cached(cache)
    BY <1>5
  <2>2. Cardinality(Cached(cache')) <= Cardinality(Cached(cache))
    BY <2>1, CachedFinite, FS_Subset
  <2>3. QED
    BY <2>2, CachedFinite, PreloadAssumption DEF Tracked
<1>8. Tracked'
  BY <1>4, <1>6, <1>7 DEF Tracked
<1>9. QED
  BY <1>3, <1>4, <1>8

LEMMA ExpireTracked ==
    ASSUME Tracked, NEW a \in Accounts, NEW t \in Types, Expire(a, t)
    PROVE  /\ Tracked'
           /\ \A b \in Accounts, u \in Types : cache[b][u] = "none" => cache'[b][u] = "none"
<1>1. cache[a][t] \in Fresh /\ cache' = [cache EXCEPT ![a][t] = "stale"] /\ access' = access
  BY DEF Expire
<1>2. cache \in [Accounts -> [Types -> Entry]]
  BY DEF Tracked, Caches
<1>3. /\ cache' \in Caches /\ cache'[a] = [cache[a] EXCEPT ![t] = "stale"]
      /\ \A b \in Accounts \ {a} : cache'[b] = cache[b]
  BY <1>1, <1>2 DEF Caches, Entry
<1>4. cache[a] # Empty /\ cache'[a] # Empty
  <2>1. cache'[a][t] = "stale" /\ Empty[t] = "none" /\ cache[a][t] # "none"
    BY <1>1, <1>2, <1>3 DEF Empty, Fresh
  <2>2. QED
    BY <2>1
<1>5. Cached(cache') = Cached(cache)
  BY <1>3, <1>4 DEF Cached
<1>6. Tracked'
  BY <1>1, <1>3, <1>5 DEF Tracked
<1>7. ASSUME NEW b \in Accounts, NEW u \in Types, cache[b][u] = "none"
      PROVE  cache'[b][u] = "none"
  <2>1. b # a \/ u # t
    BY <1>1, <1>7 DEF Fresh
  <2>2. QED
    BY <1>2, <1>3, <1>7, <2>1
<1>8. QED
  BY <1>6, <1>7

LEMMA ReadTracked ==
    ASSUME Tracked, NEW a \in Accounts, NEW t \in Types, Read(a, t)
    PROVE  /\ Tracked'
           /\ \A b \in Accounts, u \in Types : cache[b][u] = "none" => cache'[b][u] = "none"
<1>1. cache \in [Accounts -> [Types -> Entry]] /\ access \in Seq(Accounts) /\ IsInjective(access)
  BY DEF Tracked, Caches
<1>2. cache[a] # Empty
  <2>1. cache[a][t] # "none" /\ Empty[t] = "none"
    BY DEF Read, Empty
  <2>2. QED
    BY <2>1
<1>3. a \in Cached(cache)
  BY <1>2 DEF Cached
<1>4. CASE cache[a][t] \in Fresh
  <2>1. cache' = cache /\ access' = Touched(access, a)
    BY <1>4 DEF Read
  <2>2. /\ access' \in Seq(Accounts) /\ IsInjective(access')
        /\ ToSet(access') = Cached(cache)
    <3>1. /\ Touched(access, a) \in Seq(Accounts) /\ IsInjective(Touched(access, a))
          /\ ToSet(Touched(access, a)) = ToSet(access) \cup {a}
      BY <1>1, TouchedProperties
    <3>2. ToSet(access) \cup {a} = Cached(cache)
      BY <1>3 DEF Tracked
    <3>3. QED
      BY <2>1, <3>1, <3>2
  <2>3. QED
    BY <2>1, <2>2 DEF Tracked
<1>5. CASE cache[a][t] \notin Fresh
  <2>1. /\ cache' = [cache EXCEPT ![a][t] = "none"]
        /\ access' = IF cache'[a] = Empty THEN Without(access, a) ELSE access
    BY <1>5 DEF Read
  <2>2. /\ cache' \in Caches /\ cache'[a] = [cache[a] EXCEPT ![t] = "none"]
        /\ \A b \in Accounts \ {a} : cache'[b] = cache[b]
    BY <1>1, <2>1 DEF Caches, Entry
  <2>3. Cached(cache') = IF cache'[a] = Empty THEN Cached(cache) \ {a} ELSE Cached(cache)
    BY <1>3, <2>2 DEF Cached
  <2>4. /\ access' \in Seq(Accounts) /\ IsInjective(access')
        /\ ToSet(access') = Cached(cache')
    BY <1>1, <2>1, <2>3, WithoutProperties DEF Tracked
  <2>5. Cardinality(Cached(cache')) <= MaxAccounts
    <3>1. Cached(cache') \in SUBSET Cached(cache)
      BY <2>3
    <3>2. Cardinality(Cached(cache')) <= Cardinality(Cached(cache))
      BY <3>1, CachedFinite, FS_Subset
    <3>3. QED
      BY <3>2, CachedFinite, PreloadAssumption DEF Tracked
  <2>6. Tracked'
    BY <2>2, <2>4, <2>5 DEF Tracked
  <2>7. ASSUME NEW b \in Accounts, NEW u \in Types, cache[b][u] = "none"
        PROVE  cache'[b][u] = "none"
    BY <1>1, <2>2, <2>7
  <2>8. QED
    BY <2>6, <2>7
<1>6. QED
  BY <1>4, <1>5


-----------------------------------------------------------------------------
(* The queue                                                                 *)

Tasks == [account : Accounts, priority : Nat, born : Nat \ {0}]

\* Before is a strict order, and what is not before a task is not before one
\* that comes no later.
LEMMA BeforeOrders ==
    ASSUME NEW s \in Tasks, NEW t \in Tasks, NEW u \in Tasks
    PROVE  /\ ~ (Before(s, t) /\ Before(t, s))
           /\ Before(s, t) /\ ~ Before(u, t) => Before(s, u)
           /\ Before(s, t) /\ ~ Before(s, u) => Before(u, t)
  BY DEF Before, Tasks

\* Sorting keeps the tasks and their number, and nothing is after the last.
LEMMA SortedProperties ==
    ASSUME NEW q \in Seq(Tasks)
    PROVE  /\ Sorted(q) \in Seq(Tasks) /\ Len(Sorted(q)) = Len(q)
           /\ ToSet(Sorted(q)) = ToSet(q)
           /\ q # <<>> => \A t \in ToSet(q) : ~ Before(Sorted(q)[Len(q)], t)
<1> DEFINE n == Len(q)
           D == 1..n
           precedes(i, j) == Before(q[i], q[j]) \/ (~ Before(q[j], q[i]) /\ i < j)
           earlier(j) == {i \in D : precedes(i, j)}
           place(j) == Cardinality(earlier(j)) + 1
           at(p) == CHOOSE j \in D : place(j) = p
<1>1. n \in Nat /\ DOMAIN q = D /\ \A i \in D : i \in Nat /\ q[i] \in Tasks
  BY LenProperties
<1>2. Sorted(q) = [p \in D |-> q[at(p)]]
  BY <1>1 DEF Sorted
<1>3. IsFiniteSet(D) /\ Cardinality(D) = n
  BY <1>1, FS_Interval
<1>4. \A j \in D : IsFiniteSet(earlier(j)) /\ Cardinality(earlier(j)) \in Nat
  <2>1. \A j \in D : earlier(j) \in SUBSET D
    OBVIOUS
  <2> HIDE DEF earlier
  <2>2. QED
    BY <1>3, <2>1, FS_Subset, FS_CardinalityType
<1>5. ASSUME NEW i \in D, NEW j \in D, i # j
      PROVE  precedes(i, j) \/ precedes(j, i)
  <2>1. i < j \/ j < i
    BY <1>1, <1>5
  <2>2. QED
    BY <2>1
<1>6. \A j \in D : ~ precedes(j, j)
  BY <1>1, BeforeOrders
<1>7. ASSUME NEW i \in D, NEW j \in D, NEW k \in D, precedes(i, j), precedes(j, k)
      PROVE  precedes(i, k)
  <2>1. q[i] \in Tasks /\ q[j] \in Tasks /\ q[k] \in Tasks /\ i \in Nat /\ j \in Nat /\ k \in Nat
    BY <1>1
  <2>2. /\ q[i].priority \in Nat /\ q[j].priority \in Nat /\ q[k].priority \in Nat
        /\ q[i].born \in Nat /\ q[j].born \in Nat /\ q[k].born \in Nat
    BY <2>1 DEF Tasks
  <2> HIDE DEF n
  <2>3. QED
    BY <1>7, <2>1, <2>2 DEF Before
<1>8. ASSUME NEW i \in D, NEW j \in D, precedes(i, j)
      PROVE  place(i) < place(j)
  <2>1. earlier(i) \subseteq earlier(j)
    BY <1>7, <1>8
  <2>2. i \in earlier(j) /\ i \notin earlier(i)
    BY <1>6, <1>8
  <2> HIDE DEF earlier, precedes
  <2>3. Cardinality(earlier(i)) <= Cardinality(earlier(j))
    BY <1>4, <2>1, FS_Subset
  <2>4. Cardinality(earlier(i)) # Cardinality(earlier(j))
    BY <1>4, <2>1, <2>2, FS_Subset
  <2>5. Cardinality(earlier(i)) \in Nat /\ Cardinality(earlier(j)) \in Nat
    BY <1>4
  <2>6. QED
    BY <2>3, <2>4, <2>5
<1>9. \A j \in D : place(j) \in D
  <2> SUFFICES ASSUME NEW j \in D
               PROVE  place(j) \in D
    OBVIOUS
  <2>1. earlier(j) \in SUBSET (D \ {j})
    BY <1>6
  <2> HIDE DEF earlier, precedes
  <2>2. IsFiniteSet(D \ {j}) /\ Cardinality(D \ {j}) = n - 1
    BY <1>1, <1>3, FS_RemoveElement
  <2>3. Cardinality(earlier(j)) <= n - 1
    BY <2>1, <2>2, FS_Subset
  <2>4. Cardinality(earlier(j)) \in Nat
    BY <1>4
  <2>5. QED
    BY <1>1, <2>3, <2>4
<1> HIDE DEF precedes, earlier
<1>10. \A i, j \in D : place(i) = place(j) => i = j
  <2> SUFFICES ASSUME NEW i \in D, NEW j \in D, place(i) = place(j), i # j
               PROVE  FALSE
    OBVIOUS
  <2>1. place(i) < place(j) \/ place(j) < place(i)
    BY <1>5, <1>8
  <2>2. place(i) \in Nat /\ place(j) \in Nat
    BY <1>4
  <2>3. QED
    BY <2>1, <2>2
<1>11. \A p \in D : \E j \in D : place(j) = p
  <2> DEFINE f == [j \in D |-> place(j)]
  <2>1. f \in [D -> D] /\ \A i, j \in D : f[i] = f[j] => i = j
    BY <1>9, <1>10
  <2>2. f \in Injection(D, D)
    <3> HIDE DEF f, D
    <3>1. QED
      BY <2>1 DEF Injection, IsInjective
  <2>3. f \in Surjection(D, D)
    <3> HIDE DEF f, D
    <3>1. QED
      BY <1>3, <2>2, FS_Injection
  <2>4. \A p \in D : \E j \in D : f[j] = p
    <3> HIDE DEF f, D
    <3>1. QED
      BY <2>3 DEF Surjection
  <2>5. QED
    BY <2>4
<1>12. \A p \in D : at(p) \in D /\ place(at(p)) = p
  <2> HIDE DEF D, place
  <2>1. QED
    BY <1>11
<1>13. \A j \in D : at(place(j)) = j
  <2> SUFFICES ASSUME NEW j \in D
               PROVE  at(place(j)) = j
    OBVIOUS
  <2> DEFINE i == at(place(j))
  <2>1. i \in D /\ place(i) = place(j)
    BY <1>9, <1>12
  <2> HIDE DEF i
  <2>2. i = j
    BY <1>10, <2>1
  <2>3. QED
    BY <2>2 DEF i
<1> HIDE DEF at, place
<1>14. Sorted(q) \in [D -> Tasks]
  BY <1>1, <1>2, <1>12
<1>15. Sorted(q) \in Seq(Tasks) /\ Len(Sorted(q)) = n
  BY <1>1, <1>14
<1>16. ToSet(Sorted(q)) = ToSet(q)
  <2>1. DOMAIN Sorted(q) = D
    BY <1>14
  <2>2. \A p \in D : Sorted(q)[p] = q[at(p)] /\ at(p) \in D
    BY <1>2, <1>12
  <2>3. \A j \in D : place(j) \in D /\ Sorted(q)[place(j)] = q[j]
    BY <1>2, <1>9, <1>13
  <2> HIDE DEF D
  <2>4. QED
    BY <1>1, <2>1, <2>2, <2>3 DEF ToSet
<1>17. ASSUME q # <<>>, NEW t \in ToSet(q)
       PROVE  ~ Before(Sorted(q)[n], t)
  <2>1. PICK j \in D : t = q[j]
    BY <1>1 DEF ToSet
  <2>2. n \in D
    BY <1>1, <2>1
  <2>3. Sorted(q)[n] = q[at(n)] /\ at(n) \in D /\ place(at(n)) = n
    BY <1>2, <1>12, <2>2
  <2>4. CASE precedes(at(n), j)
    <3>1. place(at(n)) < place(j) /\ place(j) \in D
      BY <1>8, <1>9, <2>3, <2>4
    <3>2. QED
      BY <1>1, <2>3, <3>1
  <2>5. CASE ~ precedes(at(n), j)
    BY <2>1, <2>3, <2>5 DEF precedes
  <2>6. QED
    BY <2>4, <2>5
<1>18. QED
  BY <1>15, <1>16, <1>17 DEF n

\* Zero, or one of the positions.
LEMMA LeastProperties ==
    ASSUME NEW P, P \subseteq Nat
    PROVE  IF P = {} THEN Least(P) = 0 ELSE Least(P) \in P
<1>1. CASE P # {}
  <2>1. \E i \in P : \A j \in P : i <= j
    BY <1>1, SmallestExists
  <2>2. QED
    BY <1>1, <2>1 DEF Least, Min
<1>2. QED
  BY <1>1 DEF Least

\* Find gives the place of a task of the account, if there is one.
LEMMA FindProperties ==
    ASSUME NEW q \in Seq(Tasks), NEW a
    PROVE  /\ Find(q, a) # 0 => Find(q, a) \in DOMAIN q /\ q[Find(q, a)].account = a
           /\ Find(q, a) = 0 => \A t \in ToSet(q) : t.account # a
<1> DEFINE P == {i \in DOMAIN q : q[i].account = a}
<1>1. P \subseteq Nat /\ 0 \notin P
  BY LenProperties
<1>2. Find(q, a) = Least(P)
  BY DEF Find
<1>3. CASE P = {}
  <2>1. Find(q, a) = 0
    <3> HIDE DEF P
    <3>1. QED
      BY <1>1, <1>2, <1>3, LeastProperties
  <2>2. QED
    BY <1>3, <2>1 DEF ToSet
<1>4. CASE P # {}
  <2>1. Find(q, a) \in P
    <3> HIDE DEF P
    <3>1. QED
      BY <1>1, <1>2, <1>4, LeastProperties
  <2>2. QED
    BY <1>1, <2>1
<1>5. QED
  BY <1>3, <1>4


States == [queue : Seq(Tasks), born : Nat]

\* What enqueue_account does to the tasks that are queued: nothing, one of
\* them gains priority, one more comes, or one more for the last.
LEMMA EnqueueCases ==
    ASSUME NEW s \in States, NEW a \in Accounts, NEW p \in Nat
    PROVE  LET r == Enqueue(s, a, p)
               new == New(a, p, s.born + 1)
           IN  /\ r \in States
               /\ \/ r = s
                  \/ /\ r.born = s.born /\ Len(r.queue) = Len(s.queue)
                     /\ \E t \in ToSet(s.queue) :
                           LET raised == [t EXCEPT !.priority = p]
                           IN  /\ p < t.priority
                               /\ ToSet(r.queue) \subseteq ToSet(s.queue) \cup {raised}
                               /\ ToSet(s.queue) \ {t} \subseteq ToSet(r.queue)
                               /\ raised \in ToSet(r.queue)
                  \/ /\ r.born = s.born + 1 /\ Len(r.queue) = Len(s.queue) + 1
                     /\ ToSet(r.queue) = ToSet(s.queue) \cup {new}
                  \/ /\ r.born = s.born + 1 /\ Len(r.queue) = Len(s.queue)
                     /\ Len(s.queue) >= MaxQueueSize
                     /\ \E last \in ToSet(s.queue) :
                           /\ \A t \in ToSet(s.queue) : ~ Before(last, t)
                           /\ ToSet(r.queue) \subseteq ToSet(s.queue) \cup {new}
                           /\ ToSet(s.queue) \ {last} \subseteq ToSet(r.queue)
<1> DEFINE q == s.queue
           i == Find(q, a)
           new == New(a, p, s.born + 1)
           r == Enqueue(s, a, p)
<1>1. q \in Seq(Tasks) /\ s.born \in Nat /\ new \in Tasks
  BY DEF States, Tasks, New
<1>2. CASE i # 0
  <2>1. i \in DOMAIN q
    BY <1>1, <1>2, FindProperties
  <2> HIDE DEF i
  <2>2. CASE ~ (p < q[i].priority)
    BY <1>2, <2>2 DEF Enqueue, i
  <2>3. CASE p < q[i].priority
    <3> DEFINE raised == [q[i] EXCEPT !.priority = p]
               moved == [q EXCEPT ![i].priority = p]
    <3>1. r = [s EXCEPT !.queue = Sorted(moved)]
      BY <1>2, <2>3 DEF Enqueue, i
    <3>2. q[i] \in Tasks /\ raised \in Tasks
      <4>1. q[i] \in Tasks
        BY <1>1, <2>1
      <4>2. \A t \in Tasks : [t EXCEPT !.priority = p] \in Tasks
        BY DEF Tasks
      <4>3. QED
        BY <4>1, <4>2
    <3>3. /\ moved \in Seq(Tasks) /\ Len(moved) = Len(q) /\ DOMAIN moved = DOMAIN q
          /\ moved[i] = raised /\ \A j \in DOMAIN q \ {i} : moved[j] = q[j]
      BY <1>1, <2>1, <3>2
    <3>4. r \in States /\ r.queue = Sorted(moved) /\ r.born = s.born
      <4>1. Sorted(moved) \in Seq(Tasks)
        BY <3>3, SortedProperties
      <4> HIDE DEF r, moved
      <4>2. QED
        BY <3>1, <4>1 DEF States
    <3> HIDE DEF moved, raised, r
    <3>5. Len(r.queue) = Len(q) /\ ToSet(r.queue) = ToSet(moved)
      BY <3>3, <3>4, SortedProperties
    <3>6. /\ ToSet(moved) \subseteq ToSet(q) \cup {raised}
          /\ ToSet(q) \ {q[i]} \subseteq ToSet(moved) /\ raised \in ToSet(moved)
          /\ q[i] \in ToSet(q)
      BY <2>1, <3>3 DEF ToSet
    <3>7. QED
      BY <2>3, <3>4, <3>5, <3>6 DEF raised, r
  <2>4. QED
    BY <2>2, <2>3
<1>3. CASE i = 0
  <2> DEFINE room == IF Len(q) >= MaxQueueSize THEN Front(Sorted(q)) ELSE q
             more == Append(room, new)
  <2>1. r = [queue |-> Sorted(more), born |-> s.born + 1]
    BY <1>3 DEF Enqueue
  <2>2. ASSUME room \in Seq(Tasks)
        PROVE  /\ r \in States /\ r.born = s.born + 1 /\ Len(r.queue) = Len(room) + 1
               /\ ToSet(r.queue) = ToSet(room) \cup {new}
    <3> HIDE DEF room, new, r
    <3>1. more \in Seq(Tasks) /\ Len(more) = Len(room) + 1 /\ ToSet(more) = ToSet(room) \cup {new}
      BY <1>1, <2>2, OneMore
    <3> HIDE DEF more
    <3>2. /\ Sorted(more) \in Seq(Tasks) /\ Len(Sorted(more)) = Len(more)
          /\ ToSet(Sorted(more)) = ToSet(more)
      BY <3>1, SortedProperties
    <3>3. QED
      BY <1>1, <2>1, <3>1, <3>2 DEF States
  <2>3. CASE ~ (Len(q) >= MaxQueueSize)
    <3>1. room = q
      BY <2>3
    <3>2. QED
      BY <1>1, <2>2, <3>1
  <2>4. CASE Len(q) >= MaxQueueSize
    <3> DEFINE all == Sorted(q)
               n == Len(q)
    <3>1. /\ all \in Seq(Tasks) /\ Len(all) = n /\ ToSet(all) = ToSet(q)
          /\ n \in Nat \ {0}
          /\ \A t \in ToSet(q) : ~ Before(all[n], t)
      <4>1. n \in Nat \ {0} /\ q # <<>>
        BY <1>1, <2>4, PreloadAssumption, LenProperties
      <4>2. QED
        BY <1>1, <4>1, SortedProperties
    <3> HIDE DEF all, n
    <3>2. /\ Front(all) \in Seq(Tasks) /\ Len(Front(all)) = n - 1
          /\ \A j \in 1..(n - 1) : Front(all)[j] = all[j]
      <4>1. Front(all) = SubSeq(all, 1, n - 1)
        BY <3>1 DEF Front
      <4>2. 1 \in Int /\ n - 1 \in Int /\ 1 <= (n - 1) + 1 /\ \A j \in 1..(n - 1) : all[j] \in Tasks
        BY <3>1
      <4>3. /\ SubSeq(all, 1, n - 1) \in Seq(Tasks)
            /\ Len(SubSeq(all, 1, n - 1)) = IF 1 <= n - 1 THEN (n - 1) - 1 + 1 ELSE 0
            /\ \A j \in 1..((n - 1) - 1 + 1) : SubSeq(all, 1, n - 1)[j] = all[1 + j - 1]
        BY <4>2, SubSeqProperties
      <4>4. (n - 1) - 1 + 1 = n - 1 /\ \A j \in 1..(n - 1) : 1 + j - 1 = j
        BY <3>1
      <4>5. QED
        BY <3>1, <4>1, <4>3, <4>4
    <3>3. /\ DOMAIN all = 1..n /\ DOMAIN Front(all) = 1..(n - 1)
          /\ \A j \in 1..n : j \in 1..(n - 1) \/ j = n
          /\ n \in 1..n /\ 1..(n - 1) \subseteq 1..n
      BY <3>1, <3>2, LenProperties
    <3>4. /\ ToSet(Front(all)) \subseteq ToSet(all) /\ all[n] \in ToSet(all)
          /\ ToSet(all) \ {all[n]} \subseteq ToSet(Front(all))
      BY <3>2, <3>3 DEF ToSet
    <3>5. room = Front(all)
      BY <2>4 DEF all
    <3> HIDE DEF room, new, r
    <3>6. /\ r \in States /\ r.born = s.born + 1 /\ Len(r.queue) = n
          /\ ToSet(r.queue) = ToSet(Front(all)) \cup {new}
      BY <2>2, <3>1, <3>2, <3>5
    <3>7. /\ \A t \in ToSet(q) : ~ Before(all[n], t)
          /\ ToSet(r.queue) \subseteq ToSet(q) \cup {new}
          /\ ToSet(q) \ {all[n]} \subseteq ToSet(r.queue)
          /\ all[n] \in ToSet(q)
      BY <3>1, <3>4, <3>6
    <3>8. QED
      BY <2>4, <3>6, <3>7 DEF n, r, new
  <2>5. QED
    BY <2>3, <2>4
<1>4. QED
  BY <1>2, <1>3

\* A task of q is still queued in s, at no lower priority, or was given up
\* while the queue is full and nothing that stays of q is after it.
Still(o, s) ==
    \E t \in ToSet(s.queue) : t.account = o.account /\ t.born = o.born /\ t.priority <= o.priority
GivenUp(o, n, s) ==
    /\ Len(s.queue) >= MaxQueueSize
    /\ \A t \in ToSet(s.queue) : t.born <= n => ~ Before(o, t)

\* s comes of the queue q and the clock n by enqueuing.
Comes(q, n, s) ==
    /\ s \in States /\ n <= s.born
    /\ \A t \in ToSet(s.queue) : t.born <= s.born
    /\ \A o \in ToSet(q) : Still(o, s) \/ GivenUp(o, n, s)

LEMMA EnqueueComes ==
    ASSUME NEW q \in Seq(Tasks), NEW n \in Nat, NEW s, Comes(q, n, s),
           NEW a \in Accounts, NEW p \in Nat
    PROVE  Comes(q, n, Enqueue(s, a, p))
<1> DEFINE r == Enqueue(s, a, p)
           new == New(a, p, s.born + 1)
<1>1. /\ s \in States /\ s.born \in Nat /\ n <= s.born
      /\ \A t \in ToSet(s.queue) : t \in Tasks /\ t.born <= s.born
      /\ \A o \in ToSet(q) : o \in Tasks /\ (Still(o, s) \/ GivenUp(o, n, s))
  BY DEF Comes, States, ToSet
<1>2. /\ r \in States
      /\ \/ r = s
         \/ /\ r.born = s.born /\ Len(r.queue) = Len(s.queue)
            /\ \E t \in ToSet(s.queue) :
                  LET raised == [t EXCEPT !.priority = p]
                  IN  /\ p < t.priority
                      /\ ToSet(r.queue) \subseteq ToSet(s.queue) \cup {raised}
                      /\ ToSet(s.queue) \ {t} \subseteq ToSet(r.queue)
                      /\ raised \in ToSet(r.queue)
         \/ /\ r.born = s.born + 1 /\ Len(r.queue) = Len(s.queue) + 1
            /\ ToSet(r.queue) = ToSet(s.queue) \cup {new}
         \/ /\ r.born = s.born + 1 /\ Len(r.queue) = Len(s.queue)
            /\ Len(s.queue) >= MaxQueueSize
            /\ \E last \in ToSet(s.queue) :
                  /\ \A t \in ToSet(s.queue) : ~ Before(last, t)
                  /\ ToSet(r.queue) \subseteq ToSet(s.queue) \cup {new}
                  /\ ToSet(s.queue) \ {last} \subseteq ToSet(r.queue)
  BY <1>1, EnqueueCases
<1>3. new \in Tasks /\ new.born = s.born + 1 /\ ~ (new.born <= n)
  BY <1>1 DEF New, Tasks
<1>4. Len(s.queue) \in Nat /\ MaxQueueSize \in Nat
  BY <1>1, PreloadAssumption, LenProperties DEF States
<1> HIDE DEF r, new
<1>5. CASE r = s
  BY <1>5 DEF r
<1>6. CASE /\ r.born = s.born /\ Len(r.queue) = Len(s.queue)
           /\ \E t \in ToSet(s.queue) :
                  LET raised == [t EXCEPT !.priority = p]
                  IN  /\ p < t.priority
                      /\ ToSet(r.queue) \subseteq ToSet(s.queue) \cup {raised}
                      /\ ToSet(s.queue) \ {t} \subseteq ToSet(r.queue)
                      /\ raised \in ToSet(r.queue)
  <2>1. PICK t \in ToSet(s.queue) :
                  LET raised == [t EXCEPT !.priority = p]
                  IN  /\ p < t.priority
                      /\ ToSet(r.queue) \subseteq ToSet(s.queue) \cup {raised}
                      /\ ToSet(s.queue) \ {t} \subseteq ToSet(r.queue)
                      /\ raised \in ToSet(r.queue)
    BY <1>6
  <2> DEFINE raised == [t EXCEPT !.priority = p]
  <2>2. /\ p < t.priority /\ raised \in ToSet(r.queue)
        /\ ToSet(r.queue) \subseteq ToSet(s.queue) \cup {raised}
        /\ ToSet(s.queue) \ {t} \subseteq ToSet(r.queue)
    BY <2>1
  <2>3. /\ t \in Tasks /\ raised \in Tasks /\ raised.account = t.account /\ raised.born = t.born
        /\ raised.priority = p /\ t.priority \in Nat /\ t.born <= s.born
    BY <1>1 DEF Tasks
  <2> HIDE DEF raised
  <2>4. \A u \in ToSet(r.queue) : u.born <= r.born
    BY <1>1, <1>6, <2>2, <2>3
  <2>5. ASSUME NEW o \in ToSet(q), Still(o, s)
        PROVE  Still(o, r)
    <3>1. PICK u \in ToSet(s.queue) : u.account = o.account /\ u.born = o.born /\ u.priority <= o.priority
      BY <2>5 DEF Still
    <3>2. o.priority \in Nat
      BY <1>1 DEF Tasks
    <3>3. CASE u = t
      <4>1. raised.priority <= o.priority
        BY <2>2, <2>3, <3>1, <3>2, <3>3
      <4>2. QED
        BY <2>2, <2>3, <3>1, <3>3, <4>1 DEF Still
    <3>4. CASE u # t
      BY <2>2, <3>1, <3>4 DEF Still
    <3>5. QED
      BY <3>3, <3>4
  <2>6. ASSUME NEW o \in ToSet(q), GivenUp(o, n, s)
        PROVE  GivenUp(o, n, r)
    <3>1. ASSUME raised.born <= n
          PROVE  ~ Before(o, raised)
      <4>1. ~ Before(o, t) /\ o \in Tasks
        BY <1>1, <2>3, <2>6, <3>1 DEF GivenUp
      <4>2. QED
        BY <2>2, <2>3, <4>1 DEF Before, Tasks
    <3>2. QED
      BY <1>6, <2>2, <2>6, <3>1 DEF GivenUp
  <2>7. QED
    BY <1>1, <1>2, <1>6, <2>4, <2>5, <2>6 DEF Comes, r
<1>7. CASE /\ r.born = s.born + 1 /\ Len(r.queue) = Len(s.queue) + 1
           /\ ToSet(r.queue) = ToSet(s.queue) \cup {new}
  <2>1. \A u \in ToSet(r.queue) : u.born <= r.born
    <3>1. SUFFICES ASSUME NEW u \in ToSet(r.queue)
                   PROVE  u.born <= r.born
      OBVIOUS
    <3>2. CASE u = new
      BY <1>1, <1>3, <1>7, <3>2
    <3>3. CASE u \in ToSet(s.queue)
      <4>1. u.born \in Nat /\ u.born <= s.born
        BY <1>1, <3>3 DEF Tasks
      <4>2. QED
        BY <1>1, <1>7, <4>1
    <3>4. QED
      BY <1>7, <3>1, <3>2, <3>3
  <2>2. \A o \in ToSet(q) : Still(o, s) => Still(o, r)
    BY <1>7 DEF Still
  <2>3. \A o \in ToSet(q) : GivenUp(o, n, s) => GivenUp(o, n, r)
    BY <1>3, <1>4, <1>7 DEF GivenUp
  <2>4. n <= r.born
    BY <1>1, <1>7
  <2>5. QED
    BY <1>1, <1>2, <2>1, <2>2, <2>3, <2>4 DEF Comes, r
<1>8. CASE /\ r.born = s.born + 1 /\ Len(r.queue) = Len(s.queue)
           /\ Len(s.queue) >= MaxQueueSize
           /\ \E last \in ToSet(s.queue) :
                  /\ \A t \in ToSet(s.queue) : ~ Before(last, t)
                  /\ ToSet(r.queue) \subseteq ToSet(s.queue) \cup {new}
                  /\ ToSet(s.queue) \ {last} \subseteq ToSet(r.queue)
  <2>1. PICK last \in ToSet(s.queue) :
                  /\ \A t \in ToSet(s.queue) : ~ Before(last, t)
                  /\ ToSet(r.queue) \subseteq ToSet(s.queue) \cup {new}
                  /\ ToSet(s.queue) \ {last} \subseteq ToSet(r.queue)
    BY <1>8
  <2>2. \A u \in ToSet(r.queue) : u.born <= r.born
    <3>1. SUFFICES ASSUME NEW u \in ToSet(r.queue)
                   PROVE  u.born <= r.born
      OBVIOUS
    <3>2. CASE u = new
      BY <1>1, <1>3, <1>8, <3>2
    <3>3. CASE u \in ToSet(s.queue)
      <4>1. u.born \in Nat /\ u.born <= s.born
        BY <1>1, <3>3 DEF Tasks
      <4>2. QED
        BY <1>1, <1>8, <4>1
    <3>4. QED
      BY <2>1, <3>1, <3>2, <3>3
  <2>3. ASSUME NEW o \in ToSet(q), GivenUp(o, n, s)
        PROVE  GivenUp(o, n, r)
    BY <1>3, <1>8, <2>1, <2>3 DEF GivenUp
  <2>4. ASSUME NEW o \in ToSet(q), Still(o, s)
        PROVE  Still(o, r) \/ GivenUp(o, n, r)
    <3>1. PICK u \in ToSet(s.queue) : u.account = o.account /\ u.born = o.born /\ u.priority <= o.priority
      BY <2>4 DEF Still
    <3>2. CASE u # last
      BY <2>1, <3>1, <3>2 DEF Still
    <3>3. CASE u = last
      <4>1. ASSUME NEW t \in ToSet(r.queue), t.born <= n
            PROVE  ~ Before(o, t)
        <5>1. t \in ToSet(s.queue) /\ t \in Tasks
          BY <1>1, <1>3, <2>1, <4>1
        <5>2. ~ Before(last, t)
          BY <2>1, <5>1
        <5>3. o \in Tasks /\ last \in Tasks /\ last.born = o.born /\ last.priority <= o.priority
          BY <1>1, <3>1, <3>3
        <5>4. QED
          BY <5>1, <5>2, <5>3 DEF Before, Tasks
      <4>2. QED
        BY <1>8, <4>1 DEF GivenUp
    <3>4. QED
      BY <3>2, <3>3
  <2>5. n <= r.born
    BY <1>1, <1>8
  <2>6. QED
    BY <1>1, <1>2, <2>2, <2>3, <2>4, <2>5 DEF Comes, r
<1>9. QED
  BY <1>2, <1>5, <1>6, <1>7, <1>8


\* Enqueuing all accounts is enqueuing them one by one, and creates no more
\* tasks than there are accounts.
LEMMA EnqueueAllComes ==
    ASSUME NEW c \in Accounts \cup {NoAccount}, NEW accounts \in Seq(Accounts), IsInjective(accounts),
           queue \in Seq(Tasks), born \in Nat, \A t \in ToSet(queue) : t.born <= born
    PROVE  /\ Comes(queue, born, EnqueueAll(c, accounts))
           /\ EnqueueAll(c, accounts).born <= born + Cardinality(Accounts)
<1> DEFINE n == Len(accounts)
           s == [queue |-> queue, born |-> born]
           first == IF c = NoAccount THEN s ELSE Enqueue(s, c, 0)
           step(i, r) == IF accounts[i] = c THEN r ELSE Enqueue(r, accounts[i], i)
           Def(f, m) == f = [i \in 0..m |-> IF i = 0 THEN first ELSE step(i, f[i - 1])]
           upTo == CHOOSE f : Def(f, n)
<1>1. n \in Nat /\ DOMAIN accounts = 1..n /\ \A i \in 1..n : accounts[i] \in Accounts
  BY LenProperties
<1>2. EnqueueAll(c, accounts) = upTo[n]
  BY DEF EnqueueAll
<1>3. Comes(queue, born, s) /\ s.born = born
  <2>1. s \in States /\ s.queue = queue /\ s.born = born
    BY DEF States
  <2>2. \A o \in ToSet(queue) : Still(o, s)
    <3>1. \A o \in ToSet(queue) : o \in Tasks
      BY DEF ToSet
    <3>2. QED
      BY <2>1, <3>1 DEF Still, Tasks
  <2> HIDE DEF s
  <2>3. QED
    BY <2>1, <2>2 DEF Comes
<1> DEFINE extra == IF c = NoAccount THEN 0 ELSE 1
<1> HIDE DEF s
<1>4. ASSUME NEW r, Comes(queue, born, r), NEW a \in Accounts, NEW p \in Nat
      PROVE  /\ Comes(queue, born, Enqueue(r, a, p))
             /\ r.born \in Nat /\ Enqueue(r, a, p).born \in Nat /\ Enqueue(r, a, p).born <= r.born + 1
  <2>1. Comes(queue, born, Enqueue(r, a, p))
    BY <1>4, EnqueueComes
  <2>2. r \in States /\ Enqueue(r, a, p) \in States
    BY <1>4, <2>1 DEF Comes
  <2>3. Enqueue(r, a, p) = r \/ Enqueue(r, a, p).born = r.born \/ Enqueue(r, a, p).born = r.born + 1
    BY <2>2, EnqueueCases
  <2>4. r.born \in Nat /\ Enqueue(r, a, p).born \in Nat
    BY <2>2 DEF States
  <2>5. QED
    BY <2>1, <2>3, <2>4
<1>5. Comes(queue, born, first) /\ first.born <= born + extra
  <2>1. CASE c = NoAccount
    BY <1>3, <2>1
  <2>2. CASE c # NoAccount
    BY <1>3, <1>4, <2>2
  <2>3. QED
    BY <2>1, <2>2
<1> HIDE DEF first, step, n
<1>6. \E f : Def(f, n)
  <2> DEFINE T == {m \in 0..n : \E f : Def(f, m)}
  <2>1. 0 \in T
    <3>1. Def([i \in 0..0 |-> first], 0)
      OBVIOUS
    <3> HIDE DEF Def
    <3>2. QED
      BY <1>1, <3>1
  <2>2. ASSUME NEW m \in 1..n, m - 1 \in T
        PROVE  m \in T
    <3>1. PICK f : Def(f, m - 1)
      BY <2>2
    <3> DEFINE g == [i \in 0..m |-> IF i = m THEN step(m, f[m - 1]) ELSE f[i]]
    <3>2. ASSUME NEW i \in 0..m
          PROVE  g[i] = IF i = 0 THEN first ELSE step(i, g[i - 1])
      <4>1. \A j \in 0..(m - 1) : f[j] = IF j = 0 THEN first ELSE step(j, f[j - 1])
        BY <3>1
      <4>2. CASE i = m
        <5>1. m - 1 \in 0..m /\ m - 1 # m /\ m # 0
          BY <1>1
        <5>2. g[m - 1] = f[m - 1] /\ g[m] = step(m, f[m - 1])
          BY <5>1
        <5>3. QED
          BY <4>2, <5>1, <5>2
      <4>3. CASE i # m
        <5>1. i \in 0..(m - 1) /\ (i # 0 => i - 1 \in 0..m /\ i - 1 # m)
          BY <1>1, <4>3
        <5>2. g[i] = f[i] /\ (i # 0 => g[i - 1] = f[i - 1])
          BY <4>3, <5>1
        <5>3. QED
          BY <4>1, <5>1, <5>2
      <4>4. QED
        BY <4>2, <4>3
    <3>3. Def(g, m)
      <4>1. g = [i \in 0..m |-> g[i]]
        OBVIOUS
      <4> HIDE DEF g
      <4>2. QED
        BY <3>2, <4>1
    <3> HIDE DEF Def
    <3>4. QED
      BY <1>1, <3>3
  <2>3. n \in T
    <3> HIDE DEF T
    <3>1. 0..n \subseteq T
      BY <1>1, <2>1, <2>2, UpTo
    <3>2. QED
      BY <1>1, <3>1
  <2>4. QED
    BY <2>3
<1>7. Def(upTo, n)
  <2> HIDE DEF Def
  <2>1. QED
    BY <1>6
<1> HIDE DEF upTo
<1>8. upTo[0] = first /\ \A i \in 1..n : upTo[i] = step(i, upTo[i - 1])
  <2>1. \A i \in 0..n : upTo[i] = IF i = 0 THEN first ELSE step(i, upTo[i - 1])
    BY <1>7
  <2>2. 0 \in 0..n /\ \A i \in 1..n : i \in 0..n /\ i # 0
    BY <1>1
  <2>3. QED
    BY <2>1, <2>2
<1> HIDE DEF Def
<1> DEFINE seen(i) == {accounts[j] : j \in 1..i} \ {c}
           Good(i) == /\ Comes(queue, born, upTo[i])
                      /\ IsFiniteSet(seen(i)) /\ upTo[i].born <= born + extra + Cardinality(seen(i))
           T == {i \in 0..n : Good(i)}
<1>9. 0 \in T
  <2>1. seen(0) = {}
    OBVIOUS
  <2>2. IsFiniteSet({}) /\ Cardinality({}) = 0
    BY FS_EmptySet
  <2>3. first.born \in Nat
    BY <1>5 DEF Comes, States
  <2>4. born + extra \in Nat /\ 0 \in 0..n
    BY <1>1
  <2> HIDE DEF seen, extra
  <2>5. first.born <= born + extra + 0
    BY <1>5, <2>3, <2>4
  <2>6. QED
    BY <1>5, <1>8, <2>1, <2>2, <2>4, <2>5
<1>10. ASSUME NEW i \in 1..n, i - 1 \in T
       PROVE  i \in T
  <2> DEFINE a == accounts[i]
  <2>1. a \in Accounts /\ i \in Nat /\ i - 1 \in Nat /\ i \in 0..n
    BY <1>1
  <2>2. a \notin seen(i - 1)
    <3>1. \A j \in 1..(i - 1) : j \in DOMAIN accounts /\ j # i /\ i \in DOMAIN accounts
      BY <1>1
    <3>2. QED
      BY <3>1 DEF IsInjective
  <2>3. seen(i) = seen(i - 1) \cup ({a} \ {c})
    <3>1. \A j : j \in 1..i <=> j \in 1..(i - 1) \/ j = i
      BY <2>1
    <3>2. QED
      BY <3>1
  <2>4. /\ Comes(queue, born, upTo[i - 1]) /\ IsFiniteSet(seen(i - 1))
        /\ upTo[i - 1].born <= born + extra + Cardinality(seen(i - 1))
    BY <1>10
  <2> HIDE DEF seen
  <2>5. CASE a = c
    <3>1. upTo[i] = upTo[i - 1] /\ seen(i) = seen(i - 1)
      BY <1>8, <2>3, <2>5 DEF step
    <3>2. QED
      BY <2>1, <2>4, <3>1
  <2>6. CASE a # c
    <3> DEFINE m == Cardinality(seen(i - 1))
    <3>1. upTo[i] = Enqueue(upTo[i - 1], a, i) /\ seen(i) = seen(i - 1) \cup {a}
      BY <1>8, <2>3, <2>6 DEF step
    <3>2. IsFiniteSet(seen(i)) /\ Cardinality(seen(i)) = m + 1 /\ m \in Nat
      BY <2>2, <2>4, <3>1, FS_AddElement, FS_CardinalityType
    <3>3. /\ Comes(queue, born, upTo[i]) /\ upTo[i].born \in Nat /\ upTo[i - 1].born \in Nat
          /\ upTo[i].born <= upTo[i - 1].born + 1
      BY <1>4, <2>1, <2>4, <3>1
    <3> HIDE DEF m
    <3>4. upTo[i].born <= born + extra + Cardinality(seen(i))
      BY <2>4, <3>2, <3>3 DEF m
    <3>5. QED
      BY <2>1, <3>2, <3>3, <3>4
  <2>7. QED
    BY <2>5, <2>6
<1>11. Good(n)
  <2> HIDE DEF T
  <2>1. 0..n \subseteq T
    BY <1>1, <1>9, <1>10, UpTo
  <2>2. n \in T
    BY <1>1, <2>1
  <2>3. QED
    BY <2>2 DEF T
<1>12. Cardinality(seen(n)) + extra <= Cardinality(Accounts)
  <2>1. seen(n) \in SUBSET (Accounts \ {c})
    BY <1>1
  <2> HIDE DEF seen
  <2>2. /\ IsFiniteSet(Accounts \ {c})
        /\ Cardinality(Accounts \ {c}) = IF c \in Accounts THEN Cardinality(Accounts) - 1 ELSE Cardinality(Accounts)
    BY PreloadAssumption, FS_RemoveElement
  <2>3. Cardinality(seen(n)) <= Cardinality(Accounts \ {c})
    BY <2>1, <2>2, FS_Subset
  <2>4. Cardinality(Accounts) \in Nat /\ Cardinality(seen(n)) \in Nat
    BY <1>11, PreloadAssumption, FS_CardinalityType
  <2>5. c = NoAccount <=> ~ (c \in Accounts)
    BY PreloadAssumption
  <2>6. QED
    BY <2>2, <2>3, <2>4, <2>5
<1> HIDE DEF seen
<1>13. upTo[n].born <= born + Cardinality(Accounts)
  <2>1. /\ upTo[n].born \in Nat /\ Cardinality(seen(n)) \in Nat /\ Cardinality(Accounts) \in Nat
        /\ upTo[n].born <= born + extra + Cardinality(seen(n))
    BY <1>11, PreloadAssumption, FS_CardinalityType DEF Comes, States
  <2>2. QED
    BY <1>12, <2>1
<1>14. QED
  BY <1>2, <1>11, <1>13


-----------------------------------------------------------------------------
(* The invariant                                                             *)

Calling == {w \in Callers : calls[w] # NoCall}

Listed ==
    /\ listed \in Seq(Accounts) /\ IsInjective(listed)
    /\ leaving \subseteq Accounts
    /\ current \in Accounts \cup {NoAccount}
    /\ calls \in [Callers -> Accounts \cup {NoAccount, NoCall}]
    /\ started \in BOOLEAN

\* The tasks queued, and those that the calls under way will create, are within
\* the bound.
QueueOK ==
    /\ queue \in Seq(Tasks) /\ born \in Nat
    /\ \A t \in ToSet(queue) : t.born <= born

Bounded == born + Cardinality(Calling) * Cardinality(Accounts) <= MaxTasks

\* The worker has a task as long as it fetches, of an account and a kind.
Working ==
    /\ task \in [account : Accounts \cup {NoAccount}, todo : Seq(Types)]
    /\ fetching \in [type : Types \cup {"none"}, live : BOOLEAN]
    /\ fetching = NoFetch <=> task = NoTask
    /\ fetching # NoFetch => task.account \in Accounts /\ fetching.type \in Types

PreloadInv == Listed /\ QueueOK /\ Bounded /\ Working /\ Tracked

LEMMA Counts ==
    /\ Cardinality(Accounts) \in Nat /\ MaxTasks \in Nat
    /\ IsFiniteSet(Calling) /\ Cardinality(Calling) \in Nat
<1>1. IsFiniteSet(Callers)
  <2>1. IsFiniteSet({"handler"}) /\ IsFiniteSet({"handler"} \cup {"scheduler"})
    BY FS_Singleton, FS_AddElement
  <2>2. Callers = {"handler"} \cup {"scheduler"}
    BY DEF Callers
  <2>3. QED
    BY <2>1, <2>2
<1>2. Calling \in SUBSET Callers
  BY DEF Calling
<1>3. QED
  BY <1>1, <1>2, PreloadAssumption, FS_Subset, FS_CardinalityType

LEMMA InitInv == Init => PreloadInv
<1> SUFFICES ASSUME Init
             PROVE  PreloadInv
  OBVIOUS
<1>1. /\ \A A : <<>> \in Seq(A)
      /\ IsInjective(<<>>) /\ ToSet(<<>>) = {}
  BY DEF IsInjective, ToSet
<1>2. Listed
  BY <1>1 DEF Init, Listed
<1>3. QueueOK
  BY <1>1 DEF Init, QueueOK
<1>4. Bounded
  <2>1. Calling = {}
    BY DEF Init, Calling
  <2>2. Cardinality({}) = 0
    BY FS_EmptySet
  <2>3. QED
    BY <2>1, <2>2, Counts DEF Init, Bounded
<1>5. Working
  BY <1>1 DEF Init, Working, NoTask, NoFetch
<1>6. Tracked
  <2>1. cache \in Caches /\ access = <<>>
    BY DEF Init, Caches, Empty, Entry
  <2>2. Cached(cache) = {}
    BY DEF Init, Cached
  <2>3. Cardinality({}) = 0
    BY FS_EmptySet
  <2>4. QED
    BY <1>1, <2>1, <2>2, <2>3, PreloadAssumption DEF Tracked
<1>7. QED
  BY <1>2, <1>3, <1>4, <1>5, <1>6 DEF PreloadInv

\* A call begins when there is room for what it may create.
LEMMA BeginInv ==
    ASSUME PreloadInv, NEW w \in Callers, NEW c \in Accounts \cup {NoAccount}, Begin(w, c),
           listed' \in Seq(Accounts), IsInjective(listed'), started' \in BOOLEAN,
           UNCHANGED <<leaving, taskVars, workVars, cacheVars>>
    PROVE  PreloadInv'
<1>1. /\ calls[w] = NoCall /\ calls' = [calls EXCEPT ![w] = c] /\ current' = c
      /\ born + Cardinality(Accounts) + Cardinality(Calling) * Cardinality(Accounts) <= MaxTasks
      /\ leaving' = leaving /\ queue' = queue /\ born' = born
      /\ task' = task /\ fetching' = fetching /\ cache' = cache /\ access' = access
  BY DEF Begin, Room, Calling, taskVars, workVars, cacheVars
<1>2. /\ calls \in [Callers -> Accounts \cup {NoAccount, NoCall}] /\ born \in Nat
      /\ leaving \subseteq Accounts
  BY DEF PreloadInv, Listed, QueueOK
<1>3. Listed'
  BY <1>1, <1>2 DEF Listed
<1>4. QueueOK' /\ Working' /\ Tracked'
  BY <1>1 DEF PreloadInv, QueueOK, Working, Tracked, Cached
<1>5. Bounded'
  <2>1. c # NoCall
    BY PreloadAssumption
  <2>2. Calling' = Calling \cup {w} /\ w \notin Calling
    BY <1>1, <1>2, <2>1 DEF Calling
  <2> DEFINE m == Cardinality(Calling)
             n == Cardinality(Accounts)
  <2>3. Cardinality(Calling') = m + 1
    BY <2>2, Counts, FS_AddElement
  <2>4. m \in Nat /\ n \in Nat /\ MaxTasks \in Nat
    BY Counts
  <2>5. born + n + m * n <= MaxTasks
    BY <1>1
  <2> HIDE DEF m, n
  <2>6. (m + 1) * n = m * n + n /\ m * n \in Nat
    BY <2>4
  <2>7. born' + (m + 1) * n <= MaxTasks
    BY <1>1, <1>2, <2>4, <2>5, <2>6
  <2>8. QED
    BY <2>3, <2>7 DEF Bounded, n
<1>6. QED
  BY <1>3, <1>4, <1>5 DEF PreloadInv

\* A task fits in the room for one.
LEMMA OneFits ==
    ASSUME NEW b \in Nat, NEW c \in Nat, NEW n \in Nat, NEW m \in Nat,
           c <= b + 1, b + 1 + n <= m
    PROVE  c + n <= m
OBVIOUS

\* The tasks of a call fit in what was kept for the call.
LEMMA AllFit ==
    ASSUME NEW b \in Nat, NEW c \in Nat, NEW n \in Nat, NEW p \in Nat, NEW m \in Nat,
           c <= b + n, b + p <= m
    PROVE  c + (p - n) <= m
OBVIOUS

\* A step that leaves the worker and the cache alone and creates a task for
\* which there is room.
LEMMA TaskInv ==
    ASSUME PreloadInv, queue' \in Seq(Tasks), born' \in Nat, \A t \in ToSet(queue') : t.born <= born',
           born' = born \/ (Room(1) /\ born' <= born + 1),
           current' \in Accounts \cup {NoAccount}, started' \in BOOLEAN,
           UNCHANGED <<listed, leaving, calls, workVars, cacheVars>>
    PROVE  PreloadInv'
<1>1. /\ listed' = listed /\ leaving' = leaving /\ calls' = calls
      /\ task' = task /\ fetching' = fetching /\ cache' = cache /\ access' = access
  BY DEF workVars, cacheVars
<1>2. Listed' /\ QueueOK' /\ Working' /\ Tracked'
  BY <1>1 DEF PreloadInv, Listed, QueueOK, Working, Tracked, Cached
<1>3. Bounded'
  <2>1. Calling' = Calling
    BY <1>1 DEF Calling
  <2> DEFINE all == Cardinality(Calling) * Cardinality(Accounts)
  <2>2. all \in Nat
    BY Counts
  <2>3. born \in Nat /\ MaxTasks \in Nat /\ born + all <= MaxTasks
    BY Counts DEF PreloadInv, QueueOK, Bounded
  <2>4. Room(1) => born + 1 + all <= MaxTasks
    BY DEF Room, Calling
  <2> HIDE DEF all
  <2>5. CASE born' = born
    BY <2>1, <2>3, <2>5 DEF Bounded, all
  <2>6. CASE Room(1) /\ born' <= born + 1
    <3>1. born' <= born + 1 /\ born + 1 + all <= MaxTasks
      BY <2>4, <2>6
    <3>2. born' + all <= MaxTasks
      BY <2>2, <2>3, <3>1, OneFits
    <3>3. QED
      BY <2>1, <3>2 DEF Bounded, all
  <2>7. QED
    BY <2>5, <2>6
<1>4. QED
  BY <1>2, <1>3 DEF PreloadInv

\* What the queue and the clock are when nothing has been enqueued yet.
LEMMA ComesOfItself ==
    ASSUME PreloadInv
    PROVE  Comes(queue, born, [queue |-> queue, born |-> born])
<1> DEFINE s == [queue |-> queue, born |-> born]
<1>1. /\ queue \in Seq(Tasks) /\ born \in Nat /\ \A t \in ToSet(queue) : t.born <= born
  BY DEF PreloadInv, QueueOK
<1>2. s \in States /\ s.queue = queue /\ s.born = born
  BY <1>1 DEF States
<1>3. \A o \in ToSet(queue) : o \in Tasks
  BY <1>1 DEF ToSet
<1>4. \A o \in ToSet(queue) : Still(o, s)
  BY <1>2, <1>3 DEF Still, Tasks
<1> HIDE DEF s
<1>5. QED
  BY <1>1, <1>2, <1>4 DEF Comes, s

LEMMA TriggerComes ==
    ASSUME PreloadInv, NEW a \in Accounts, Trigger(a)
    PROVE  \E s : Comes(queue, born, s) /\ queue' = s.queue /\ born' = s.born /\ s.born <= born + 1
<1> DEFINE s == [queue |-> queue, born |-> born]
           r == Enqueue(s, a, 0)
<1>1. Comes(queue, born, s) /\ queue \in Seq(Tasks) /\ born \in Nat /\ s.born = born
  BY ComesOfItself DEF PreloadInv, QueueOK
<1> HIDE DEF s
<1>2. Comes(queue, born, r)
  BY <1>1, EnqueueComes
<1>3. r.born <= born + 1
  <2>1. s \in States /\ r \in States
    BY <1>1, <1>2 DEF Comes
  <2>2. r = s \/ r.born = s.born \/ r.born = s.born + 1
    BY <2>1, EnqueueCases
  <2>3. QED
    BY <1>1, <2>2
<1>4. queue' = r.queue /\ born' = r.born
  BY DEF Trigger, Put, s
<1>5. QED
  BY <1>2, <1>3, <1>4

LEMMA TriggerInv ==
    ASSUME PreloadInv, NEW a \in Accounts, Trigger(a)
    PROVE  PreloadInv'
<1>1. PICK s : Comes(queue, born, s) /\ queue' = s.queue /\ born' = s.born /\ s.born <= born + 1
  BY TriggerComes
<1>2. queue' \in Seq(Tasks) /\ born' \in Nat /\ \A t \in ToSet(queue') : t.born <= born'
  BY <1>1 DEF Comes, States
<1>3. /\ Room(1) /\ started' = TRUE /\ current' = current
      /\ UNCHANGED <<listed, leaving, calls, workVars, cacheVars>>
  BY DEF Trigger
<1>4. current' \in Accounts \cup {NoAccount}
  BY <1>3 DEF PreloadInv, Listed
<1>5. QED
  BY <1>1, <1>2, <1>3, <1>4, TaskInv

LEMMA EnqueueListedComes ==
    ASSUME PreloadInv, NEW w \in Callers, EnqueueListed(w)
    PROVE  \E s : /\ Comes(queue, born, s) /\ queue' = s.queue /\ born' = s.born
                  /\ s.born <= born + Cardinality(Accounts)
<1>1. /\ listed \in Seq(Accounts) /\ IsInjective(listed) /\ queue \in Seq(Tasks) /\ born \in Nat
      /\ \A t \in ToSet(queue) : t.born <= born
      /\ calls[w] \in Accounts \cup {NoAccount}
  BY DEF PreloadInv, Listed, QueueOK, EnqueueListed
<1> DEFINE r == EnqueueAll(calls[w], listed)
<1>2. Comes(queue, born, r) /\ r.born <= born + Cardinality(Accounts)
  BY <1>1, EnqueueAllComes
<1>3. queue' = r.queue /\ born' = r.born
  BY DEF EnqueueListed, Put
<1>4. QED
  BY <1>2, <1>3

LEMMA EnqueueListedInv ==
    ASSUME PreloadInv, NEW w \in Callers, EnqueueListed(w)
    PROVE  PreloadInv'
<1>1. PICK s : /\ Comes(queue, born, s) /\ queue' = s.queue /\ born' = s.born
               /\ s.born <= born + Cardinality(Accounts)
  BY EnqueueListedComes
<1>2. queue' \in Seq(Tasks) /\ born' \in Nat /\ \A t \in ToSet(queue') : t.born <= born'
  BY <1>1 DEF Comes, States
<1>3. /\ calls[w] # NoCall /\ calls' = [calls EXCEPT ![w] = NoCall]
      /\ listed' = listed /\ leaving' = leaving /\ current' = current /\ started' = started
      /\ task' = task /\ fetching' = fetching /\ cache' = cache /\ access' = access
  BY DEF EnqueueListed, workVars, cacheVars
<1>4. Listed' /\ QueueOK' /\ Working' /\ Tracked'
  BY <1>2, <1>3 DEF PreloadInv, Listed, QueueOK, Working, Tracked, Cached
<1>5. Bounded'
  <2>1. calls \in [Callers -> Accounts \cup {NoAccount, NoCall}]
    BY DEF PreloadInv, Listed
  <2>2. Calling' = Calling \ {w} /\ w \in Calling
    BY <1>3, <2>1 DEF Calling
  <2> DEFINE m == Cardinality(Calling)
             n == Cardinality(Accounts)
             p == m * n
             r == (m - 1) * n
  <2>3. Cardinality(Calling') = m - 1
    BY <2>2, Counts, FS_RemoveElement
  <2>4. m \in Nat /\ n \in Nat /\ MaxTasks \in Nat /\ born \in Nat /\ born + p <= MaxTasks
    BY Counts DEF PreloadInv, QueueOK, Bounded
  <2>5. born' <= born + n
    BY <1>1
  <2> HIDE DEF m, n
  <2>6. r = p - n /\ p \in Nat
    BY <2>4
  <2> HIDE DEF p, r
  <2>7. born' + r <= MaxTasks
    BY <1>2, <2>4, <2>5, <2>6, AllFit
  <2>8. QED
    BY <2>3, <2>7 DEF Bounded, n, r
<1>6. QED
  BY <1>4, <1>5 DEF PreloadInv


\* Switching the account moves a task to the front and keeps every other one.
LEMMA SwitchTasks ==
    ASSUME PreloadInv, NEW a \in Accounts, Switch(a)
    PROVE  /\ queue' \in Seq(Tasks) /\ born' \in Nat /\ \A t \in ToSet(queue') : t.born <= born'
           /\ born' = born \/ (Room(1) /\ born' <= born + 1)
           /\ \A o \in ToSet(queue) : \E t \in ToSet(queue') : t.account = o.account
<1> DEFINE i == Find(queue, a)
<1>1. queue \in Seq(Tasks) /\ born \in Nat /\ \A t \in ToSet(queue) : t.born <= born
  BY DEF PreloadInv, QueueOK
<1>2. DOMAIN queue = 1..Len(queue) /\ Len(queue) \in Nat /\ \A j \in DOMAIN queue : queue[j] \in Tasks
  BY <1>1, LenProperties
<1> HIDE DEF i
<1>3. CASE i # 0
  <2> DEFINE moved(j) == [queue[j] EXCEPT !.priority = IF j = i THEN 0 ELSE @ + 1]
             back == [j \in DOMAIN queue |-> moved(j)]
  <2>1. queue' = Sorted(back) /\ born' = born
    BY <1>3 DEF Switch, Reprioritize, i
  <2>2. ASSUME NEW j \in DOMAIN queue
        PROVE  moved(j) \in Tasks /\ moved(j).account = queue[j].account /\ moved(j).born = queue[j].born
    <3>1. queue[j] \in Tasks
      BY <1>2
    <3>2. \A t \in Tasks, p \in Nat :
             /\ [t EXCEPT !.priority = p] \in Tasks
             /\ [t EXCEPT !.priority = p].account = t.account /\ [t EXCEPT !.priority = p].born = t.born
      BY DEF Tasks
    <3>3. (IF j = i THEN 0 ELSE queue[j].priority + 1) \in Nat
      BY <3>1 DEF Tasks
    <3>4. moved(j) = [queue[j] EXCEPT !.priority = IF j = i THEN 0 ELSE queue[j].priority + 1]
      OBVIOUS
    <3> HIDE DEF moved
    <3>5. QED
      BY <3>1, <3>2, <3>3, <3>4
  <2> HIDE DEF moved
  <2>3. back \in Seq(Tasks) /\ DOMAIN back = DOMAIN queue /\ \A j \in DOMAIN queue : back[j] = moved(j)
    BY <1>2, <2>2
  <2> HIDE DEF back
  <2>4. queue' \in Seq(Tasks) /\ ToSet(queue') = ToSet(back)
    BY <2>1, <2>3, SortedProperties
  <2>5. \A t \in ToSet(back) : t.born <= born
    BY <1>1, <2>2, <2>3 DEF ToSet
  <2>6. \A o \in ToSet(queue) : \E t \in ToSet(back) : t.account = o.account
    BY <2>2, <2>3 DEF ToSet
  <2>7. QED
    BY <1>1, <2>1, <2>4, <2>5, <2>6
<1>4. CASE i = 0
  <2> DEFINE new == New(a, 0, born + 1)
  <2>1. Room(1) /\ queue' = <<new>> \o queue /\ born' = born + 1
    BY <1>4 DEF Switch, Reprioritize, i
  <2>2. new \in Tasks /\ new.born = born + 1
    BY <1>1 DEF New, Tasks
  <2> HIDE DEF new
  <2>3. <<new>> \in Seq(Tasks) /\ Len(<<new>>) = 1 /\ <<new>>[1] = new
    BY <2>2
  <2>4. /\ queue' \in Seq(Tasks) /\ Len(queue') = 1 + Len(queue)
        /\ \A j \in 1..(1 + Len(queue)) : queue'[j] = IF j <= 1 THEN <<new>>[j] ELSE queue[j - 1]
    BY <1>1, <2>1, <2>3, ConcatProperties
  <2>5. DOMAIN queue' = 1..(1 + Len(queue))
    BY <2>4, LenProperties
  <2>6. /\ \A j \in DOMAIN queue' : queue'[j] = new \/ (j - 1 \in DOMAIN queue /\ queue'[j] = queue[j - 1])
        /\ \A j \in DOMAIN queue : j + 1 \in DOMAIN queue' /\ queue'[j + 1] = queue[j]
    BY <1>2, <2>3, <2>4, <2>5
  <2>7. ToSet(queue') \subseteq ToSet(queue) \cup {new} /\ ToSet(queue) \subseteq ToSet(queue')
    BY <2>6 DEF ToSet
  <2>8. \A t \in ToSet(queue') : t.born <= born'
    <3>1. \A t \in ToSet(queue) : t.born \in Nat
      BY <1>2 DEF ToSet, Tasks
    <3>2. QED
      BY <1>1, <2>1, <2>2, <2>7, <3>1
  <2>9. QED
    BY <1>1, <2>1, <2>4, <2>7, <2>8
<1>5. QED
  BY <1>3, <1>4

LEMMA SwitchInv ==
    ASSUME PreloadInv, NEW a \in Accounts, Switch(a)
    PROVE  PreloadInv'
<1>1. /\ queue' \in Seq(Tasks) /\ born' \in Nat /\ \A t \in ToSet(queue') : t.born <= born'
      /\ born' = born \/ (Room(1) /\ born' <= born + 1)
  BY SwitchTasks
<1>2. current' = a /\ started /\ started' = started /\ UNCHANGED <<listed, leaving, calls, workVars, cacheVars>>
  BY DEF Switch
<1>3. started' \in BOOLEAN
  BY <1>2 DEF PreloadInv, Listed
<1>4. QED
  BY <1>1, <1>2, <1>3, TaskInv

LEMMA LogInInv ==
    ASSUME PreloadInv, NEW a \in Accounts, LogIn(a)
    PROVE  PreloadInv'
<1>1. /\ listed' = IF \E i \in DOMAIN listed : listed[i] = a THEN listed ELSE Append(listed, a)
      /\ started' = TRUE /\ Begin("handler", a)
      /\ UNCHANGED <<leaving, taskVars, workVars, cacheVars>>
  BY DEF LogIn
<1>2. listed \in Seq(Accounts) /\ IsInjective(listed)
  BY DEF PreloadInv, Listed
<1>3. listed' \in Seq(Accounts) /\ IsInjective(listed')
  <2>1. CASE \E i \in DOMAIN listed : listed[i] = a
    BY <1>1, <1>2, <2>1
  <2>2. CASE ~ \E i \in DOMAIN listed : listed[i] = a
    <3>1. a \notin ToSet(listed)
      BY <2>2 DEF ToSet
    <3>2. Append(listed, a) \in Seq(Accounts) /\ IsInjective(Append(listed, a))
      BY <1>2, <3>1, OneMore
    <3>3. QED
      BY <1>1, <2>2, <3>2
  <2>3. QED
    BY <2>1, <2>2
<1>4. "handler" \in Callers
  BY DEF Callers
<1>5. QED
  BY <1>1, <1>3, <1>4, BeginInv

LEMMA TriggerAllInv ==
    ASSUME PreloadInv, NEW c \in Accounts \cup {NoAccount}, TriggerAll(c)
    PROVE  PreloadInv'
<1>1. /\ listed' = listed /\ started' = TRUE /\ Begin("handler", c)
      /\ UNCHANGED <<leaving, taskVars, workVars, cacheVars>>
  BY DEF TriggerAll
<1>2. listed' \in Seq(Accounts) /\ IsInjective(listed')
  BY <1>1 DEF PreloadInv, Listed
<1>3. "handler" \in Callers
  BY DEF Callers
<1>4. QED
  BY <1>1, <1>2, <1>3, BeginInv

LEMMA RefreshInv ==
    ASSUME PreloadInv, Refresh
    PROVE  PreloadInv'
<1>1. /\ listed' = listed /\ started' = started /\ Begin("scheduler", current)
      /\ UNCHANGED <<leaving, taskVars, workVars, cacheVars>>
  BY DEF Refresh
<1>2. /\ listed' \in Seq(Accounts) /\ IsInjective(listed') /\ started' \in BOOLEAN
      /\ current \in Accounts \cup {NoAccount}
  BY <1>1 DEF PreloadInv, Listed
<1>3. "scheduler" \in Callers
  BY DEF Callers
<1>4. QED
  BY <1>1, <1>2, <1>3, BeginInv

\* A step that creates no task and begins or ends no call.
LEMMA QuietInv ==
    ASSUME PreloadInv, Listed', QueueOK', Working', Tracked', born' = born, calls' = calls
    PROVE  PreloadInv'
<1>1. Calling' = Calling
  BY DEF Calling
<1>2. Bounded'
  BY <1>1 DEF PreloadInv, Bounded
<1>3. QED
  BY <1>2 DEF PreloadInv

LEMMA LogOutInv ==
    ASSUME PreloadInv, NEW a \in Accounts, LogOut(a)
    PROVE  /\ PreloadInv'
           /\ \A o \in ToSet(queue) : o.account # a => o \in ToSet(queue')
<1> DEFINE others == {t \in ToSet(queue) : t.account # a}
<1>1. /\ leaving' = leaving \cup {a} /\ Forget(a) /\ queue' = Sublist(queue, others)
      /\ listed' = listed /\ current' = current /\ calls' = calls /\ started' = started
      /\ born' = born /\ task' = task /\ fetching' = fetching
  BY DEF LogOut, workVars
<1>2. queue \in Seq(Tasks) /\ born \in Nat /\ \A t \in ToSet(queue) : t.born <= born
  BY DEF PreloadInv, QueueOK
<1>3. Listed' /\ Working'
  BY <1>1 DEF PreloadInv, Listed, Working
<1>4. Tracked'
  BY <1>1, ForgetTracked DEF PreloadInv
<1>5. queue' \in Seq(Tasks) /\ ToSet(queue') = others
  <2> HIDE DEF others
  <2>1. queue' \in Seq(Tasks) /\ ToSet(queue') = ToSet(queue) \cap others
    BY <1>1, <1>2, SublistProperties
  <2>2. QED
    BY <2>1 DEF others
<1>6. QueueOK'
  BY <1>1, <1>2, <1>5 DEF QueueOK
<1>7. PreloadInv'
  BY <1>1, <1>3, <1>4, <1>6, QuietInv
<1>8. QED
  BY <1>5, <1>7

LEMMA ClearSessionInv ==
    ASSUME PreloadInv, NEW a \in Accounts, ClearSession(a)
    PROVE  PreloadInv'
<1>1. /\ leaving' = leaving \ {a} /\ listed' = Without(listed, a)
      /\ current' = current /\ calls' = calls /\ started' = started /\ queue' = queue /\ born' = born
      /\ task' = task /\ fetching' = fetching /\ cache' = cache /\ access' = access
  BY DEF ClearSession, taskVars, workVars, cacheVars
<1>2. listed \in Seq(Accounts) /\ IsInjective(listed)
  BY DEF PreloadInv, Listed
<1>3. listed' \in Seq(Accounts) /\ IsInjective(listed')
  BY <1>1, <1>2, WithoutProperties
<1>4. Listed'
  BY <1>1, <1>3 DEF PreloadInv, Listed
<1>5. QueueOK' /\ Working' /\ Tracked'
  BY <1>1 DEF PreloadInv, QueueOK, Working, Tracked, Cached
<1>6. QED
  BY <1>1, <1>4, <1>5, QuietInv

LEMMA ExpireInv ==
    ASSUME PreloadInv, NEW a \in Accounts, NEW t \in Types, Expire(a, t)
    PROVE  PreloadInv'
<1>1. /\ listed' = listed /\ leaving' = leaving /\ current' = current /\ calls' = calls
      /\ started' = started /\ queue' = queue /\ born' = born /\ task' = task /\ fetching' = fetching
  BY DEF Expire, taskVars, workVars
<1>2. Tracked'
  BY ExpireTracked DEF PreloadInv
<1>3. Listed' /\ QueueOK' /\ Working'
  BY <1>1 DEF PreloadInv, Listed, QueueOK, Working
<1>4. QED
  BY <1>1, <1>2, <1>3, QuietInv

LEMMA ReadInv ==
    ASSUME PreloadInv, NEW a \in Accounts, NEW t \in Types, Read(a, t)
    PROVE  PreloadInv'
<1>1. /\ listed' = listed /\ leaving' = leaving /\ current' = current /\ calls' = calls
      /\ started' = started /\ queue' = queue /\ born' = born /\ task' = task /\ fetching' = fetching
  BY DEF Read, taskVars, workVars
<1>2. Tracked'
  BY ReadTracked DEF PreloadInv
<1>3. Listed' /\ QueueOK' /\ Working'
  BY <1>1 DEF PreloadInv, Listed, QueueOK, Working
<1>4. QED
  BY <1>1, <1>2, <1>3, QuietInv

\* The worker goes on to a kind of the task, or has no task any more.
LEMMA GoOnWorking ==
    ASSUME NEW a \in Accounts, NEW todo \in Seq(Types), NEW c, GoOn(a, todo, c)
    PROVE  Working'
<1> DEFINE P == {j \in DOMAIN todo : c[a][todo[j]] \notin Fresh}
           i == Least(P)
<1>1. i = 0 \/ i \in DOMAIN todo
  <2>1. P \subseteq Nat
    BY LenProperties
  <2> HIDE DEF P
  <2>2. i = 0 \/ i \in P
    BY <2>1, LeastProperties
  <2>3. QED
    BY <2>2 DEF P
<1>2. \/ i = 0 /\ task' = NoTask /\ fetching' = NoFetch
      \/ /\ i # 0
         /\ task' = [account |-> a, todo |-> SubSeq(todo, i + 1, Len(todo))]
         /\ fetching' = [type |-> todo[i], live |-> a \in ToSet(listed)]
  BY DEF GoOn
<1> HIDE DEF i
<1>3. CASE i = 0
  <2>1. task' = NoTask /\ fetching' = NoFetch
    BY <1>2, <1>3
  <2>2. <<>> \in Seq(Types)
    OBVIOUS
  <2>3. QED
    BY <2>1, <2>2 DEF Working, NoTask, NoFetch
<1>4. CASE i # 0
  <2> DEFINE rest == SubSeq(todo, i + 1, Len(todo))
             live == a \in ToSet(listed)
  <2>1. task' = [account |-> a, todo |-> rest] /\ fetching' = [type |-> todo[i], live |-> live]
    BY <1>2, <1>4
  <2>2. i \in 1..Len(todo) /\ todo[i] \in Types /\ Len(todo) \in Nat
    BY <1>1, <1>4, LenProperties
  <2>3. rest \in Seq(Types)
    <3>1. /\ i + 1 \in Int /\ Len(todo) \in Int /\ i + 1 <= Len(todo) + 1
          /\ \A j \in (i + 1)..Len(todo) : todo[j] \in Types
      BY <2>2, LenProperties
    <3>2. QED
      BY <3>1, SubSeqProperties
  <2> HIDE DEF rest
  <2>4. "none" \notin Types /\ NoAccount # a
    BY PreloadAssumption DEF Types
  <2>5. live \in BOOLEAN
    OBVIOUS
  <2> HIDE DEF live
  <2>6. /\ task' \in [account : Accounts \cup {NoAccount}, todo : Seq(Types)]
        /\ fetching' \in [type : Types \cup {"none"}, live : BOOLEAN]
    BY <2>1, <2>2, <2>3, <2>5
  <2>7. task' # NoTask /\ fetching' # NoFetch /\ task'.account = a /\ fetching'.type = todo[i]
    BY <2>1, <2>2, <2>4 DEF NoTask, NoFetch
  <2>8. QED
    BY <2>2, <2>6, <2>7 DEF Working
<1>5. QED
  BY <1>3, <1>4

LEMMA TakeInv ==
    ASSUME PreloadInv, Take
    PROVE  PreloadInv'
<1>1. /\ queue # <<>> /\ queue' = Tail(queue) /\ GoOn(Head(queue).account, Kinds, cache)
      /\ listed' = listed /\ leaving' = leaving /\ current' = current /\ calls' = calls
      /\ started' = started /\ born' = born /\ cache' = cache /\ access' = access
  BY DEF Take, cacheVars
<1>2. queue \in Seq(Tasks) /\ born \in Nat /\ \A t \in ToSet(queue) : t.born <= born
  BY DEF PreloadInv, QueueOK
<1>3. Head(queue).account \in Accounts
  <2>1. Head(queue) \in Tasks
    BY <1>1, <1>2, HeadTailProperties
  <2>2. QED
    BY <2>1 DEF Tasks
<1>4. Kinds \in Seq(Types)
  BY PreloadAssumption DEF Types
<1>5. Working'
  BY <1>1, <1>3, <1>4, GoOnWorking
<1>6. queue' \in Seq(Tasks) /\ ToSet(queue') \subseteq ToSet(queue)
  <2>1. /\ Tail(queue) \in Seq(Tasks) /\ Len(Tail(queue)) = Len(queue) - 1
        /\ \A i \in 1..(Len(queue) - 1) : Tail(queue)[i] = queue[i + 1]
    BY <1>1, <1>2, HeadTailProperties
  <2>2. DOMAIN Tail(queue) = 1..(Len(queue) - 1) /\ DOMAIN queue = 1..Len(queue) /\ Len(queue) \in Nat
    BY <1>2, <2>1, LenProperties
  <2>3. \A i \in DOMAIN Tail(queue) : i + 1 \in DOMAIN queue /\ Tail(queue)[i] = queue[i + 1]
    BY <2>1, <2>2
  <2>4. ToSet(Tail(queue)) \subseteq ToSet(queue)
    BY <2>3 DEF ToSet
  <2>5. QED
    BY <1>1, <2>1, <2>4
<1>7. Listed' /\ QueueOK' /\ Tracked'
  BY <1>1, <1>2, <1>6 DEF PreloadInv, Listed, QueueOK, Tracked, Cached
<1>8. QED
  BY <1>1, <1>5, <1>7, QuietInv

LEMMA FetchedInv ==
    ASSUME PreloadInv, Fetched
    PROVE  /\ PreloadInv'
           /\ \A b \in Accounts, u \in Types :
                 (b # task.account \/ u # fetching.type) /\ cache[b][u] = "none" => cache'[b][u] = "none"
<1>1. /\ fetching.live /\ Store(task.account, fetching.type, "data")
      /\ GoOn(task.account, task.todo, cache')
      /\ listed' = listed /\ leaving' = leaving /\ current' = current /\ calls' = calls
      /\ started' = started /\ queue' = queue /\ born' = born
  BY DEF Fetched, taskVars
<1>2. task.account \in Accounts /\ fetching.type \in Types /\ task.todo \in Seq(Types)
  <2>1. fetching # NoFetch
    BY <1>1 DEF NoFetch
  <2>2. QED
    BY <2>1 DEF PreloadInv, Working
<1>3. "data" \in Entry \ {"none"}
  BY DEF Entry
<1>4. /\ Tracked'
      /\ \A b \in Accounts, u \in Types :
            (b # task.account \/ u # fetching.type) /\ cache[b][u] = "none" => cache'[b][u] = "none"
  BY <1>1, <1>2, <1>3, StoreTracked DEF PreloadInv
<1>5. Working'
  BY <1>1, <1>2, GoOnWorking
<1>6. Listed' /\ QueueOK'
  BY <1>1 DEF PreloadInv, Listed, QueueOK
<1>7. PreloadInv'
  BY <1>1, <1>4, <1>5, <1>6, QuietInv
<1>8. QED
  BY <1>4, <1>7

LEMMA FetchFailsInv ==
    ASSUME PreloadInv, FetchFails
    PROVE  /\ PreloadInv'
           /\ \A b \in Accounts, u \in Strict :
                 /\ cache[b][u] = "none"
                 /\ ~ (task.account = b /\ fetching.type = u /\ fetching.live)
                 => cache'[b][u] = "none"
<1> DEFINE Stay == \A b \in Accounts, u \in Strict :
                     /\ cache[b][u] = "none"
                     /\ ~ (task.account = b /\ fetching.type = u /\ fetching.live)
                     => cache'[b][u] = "none"
<1>1. /\ fetching # NoFetch /\ GoOn(task.account, task.todo, cache')
      /\ \/ UNCHANGED cacheVars
         \/ /\ fetching.type \in Strict => fetching.live
            /\ Store(task.account, fetching.type, "blank")
      /\ listed' = listed /\ leaving' = leaving /\ current' = current /\ calls' = calls
      /\ started' = started /\ queue' = queue /\ born' = born
  BY DEF FetchFails, taskVars
<1>2. task.account \in Accounts /\ fetching.type \in Types /\ task.todo \in Seq(Types)
  BY <1>1 DEF PreloadInv, Working
<1>3. Tracked' /\ Stay
  <2>1. CASE UNCHANGED cacheVars
    <3>1. cache' = cache /\ access' = access
      BY <2>1 DEF cacheVars
    <3>2. QED
      BY <3>1 DEF PreloadInv, Tracked, Cached
  <2>2. CASE ~ UNCHANGED cacheVars
    <3>1. "blank" \in Entry \ {"none"} /\ Strict \subseteq Types
      BY PreloadAssumption DEF Entry, Types
    <3>2. /\ Tracked'
          /\ \A b \in Accounts, u \in Types :
                (b # task.account \/ u # fetching.type) /\ cache[b][u] = "none" => cache'[b][u] = "none"
      BY <1>1, <1>2, <2>2, <3>1, StoreTracked DEF PreloadInv
    <3>3. ASSUME NEW b \in Accounts, NEW u \in Strict, cache[b][u] = "none",
                 ~ (task.account = b /\ fetching.type = u /\ fetching.live)
          PROVE  cache'[b][u] = "none"
      <4>1. b # task.account \/ u # fetching.type
        BY <1>1, <2>2, <3>3
      <4>2. QED
        BY <3>1, <3>2, <3>3, <4>1
    <3>4. QED
      BY <3>2, <3>3
  <2>3. QED
    BY <2>1, <2>2
<1>4. Working'
  BY <1>1, <1>2, GoOnWorking
<1>5. Listed' /\ QueueOK'
  BY <1>1 DEF PreloadInv, Listed, QueueOK
<1>6. PreloadInv'
  BY <1>1, <1>3, <1>4, <1>5, QuietInv
<1>7. QED
  BY <1>3, <1>6


LEMMA NextInv == PreloadInv /\ [Next]_vars => PreloadInv'
<1> SUFFICES ASSUME PreloadInv, [Next]_vars
             PROVE  PreloadInv'
  OBVIOUS
<1>1. CASE \E a \in Accounts : LogIn(a) \/ Trigger(a) \/ Switch(a) \/ LogOut(a) \/ ClearSession(a)
  BY <1>1, LogInInv, TriggerInv, SwitchInv, LogOutInv, ClearSessionInv
<1>2. CASE \E c \in Accounts \cup {NoAccount} : TriggerAll(c)
  BY <1>2, TriggerAllInv
<1>3. CASE Refresh
  BY <1>3, RefreshInv
<1>4. CASE \E w \in Callers : EnqueueListed(w)
  BY <1>4, EnqueueListedInv
<1>5. CASE \E a \in Accounts, t \in Types : Expire(a, t) \/ Read(a, t)
  BY <1>5, ExpireInv, ReadInv
<1>6. CASE Take \/ Fetched \/ FetchFails
  BY <1>6, TakeInv, FetchedInv, FetchFailsInv
<1>7. CASE UNCHANGED vars
  <2>1. /\ listed' = listed /\ leaving' = leaving /\ current' = current /\ calls' = calls
        /\ started' = started /\ queue' = queue /\ born' = born /\ task' = task /\ fetching' = fetching
        /\ cache' = cache /\ access' = access
    BY <1>7 DEF vars, taskVars, workVars, cacheVars
  <2>2. Listed' /\ QueueOK' /\ Working' /\ Tracked'
    BY <2>1 DEF PreloadInv, Listed, QueueOK, Working, Tracked, Cached
  <2>3. QED
    BY <2>1, <2>2, QuietInv
<1>8. QED
  BY <1>1, <1>2, <1>3, <1>4, <1>5, <1>6, <1>7 DEF Next

LEMMA AlwaysInv == Spec => []PreloadInv
<1>1. QED
  BY InitInv, NextInv, PTL DEF Spec

-----------------------------------------------------------------------------
(* The theorems                                                              *)

\* Every variable keeps its type: the queue holds tasks of accounts, none
\* younger than the clock, and the tasks that are created stay within what the
\* calls under way were given room for.
THEOREM PreloadTypeCorrect == Spec => []TypeOK
<1>1. PreloadInv => TypeOK
  <2> SUFFICES ASSUME PreloadInv
               PROVE  TypeOK
    OBVIOUS
  <2>1. ToSet(listed) \subseteq Accounts /\ leaving \subseteq Accounts
    BY DEF PreloadInv, Listed, ToSet
  <2>2. /\ current \in Accounts \cup {NoAccount} /\ started \in BOOLEAN
        /\ calls \in [Callers -> Accounts \cup {NoAccount, NoCall}]
    BY DEF PreloadInv, Listed
  <2>3. ASSUME NEW i \in DOMAIN queue
        PROVE  queue[i] \in [account : Accounts, priority : Nat, born : 1..born]
    <3>1. queue[i] \in Tasks /\ queue[i] \in ToSet(queue) /\ born \in Nat
      BY DEF PreloadInv, QueueOK, ToSet
    <3>2. queue[i].born <= born
      BY <3>1 DEF PreloadInv, QueueOK
    <3>3. \A t \in Tasks : t.born \in 1..born => t \in [account : Accounts, priority : Nat, born : 1..born]
      BY DEF Tasks
    <3>4. queue[i].born \in Nat \ {0}
      BY <3>1 DEF Tasks
    <3>5. QED
      BY <3>1, <3>2, <3>3, <3>4
  <2>4. born \in 0..MaxTasks
    <3> DEFINE all == Cardinality(Calling) * Cardinality(Accounts)
    <3>1. all \in Nat
      BY Counts
    <3>2. born \in Nat /\ MaxTasks \in Nat /\ born + all <= MaxTasks
      BY Counts DEF PreloadInv, QueueOK, Bounded
    <3> HIDE DEF all
    <3>3. QED
      BY <3>1, <3>2
  <2>5. /\ task.account \in Accounts \cup {NoAccount} /\ ToSet(task.todo) \subseteq Types
        /\ fetching \in [type : Types \cup {"none"}, live : BOOLEAN]
        /\ fetching = NoFetch <=> task = NoTask
    BY DEF PreloadInv, Working, ToSet
  <2>6. cache \in [Accounts -> [Types -> Entry]] /\ ToSet(access) \subseteq Accounts
    BY DEF PreloadInv, Tracked, Caches, ToSet
  <2>7. QED
    BY <2>1, <2>2, <2>3, <2>4, <2>5, <2>6 DEF TypeOK
<1>2. QED
  BY <1>1, AlwaysInv, PTL

\* The cache never holds more accounts than its limit, and the order of access
\* names exactly the cached accounts, once each: the eviction loop always has
\* an account to remove, and comes to an end.
THEOREM CacheIsTracked == Spec => []CacheTracked
<1>1. PreloadInv => CacheTracked
  <2> SUFFICES ASSUME PreloadInv
               PROVE  CacheTracked
    OBVIOUS
  <2>1. access \in Seq(Accounts) /\ IsInjective(access)
    BY DEF PreloadInv, Tracked
  <2>2. Cardinality(ToSet(access)) = Len(access)
    BY <2>1, ElementsOfAList
  <2>3. QED
    BY <2>2 DEF PreloadInv, Tracked, CacheTracked
<1>2. QED
  BY <1>1, AlwaysInv, PTL

\* What a logout dropped of the strict kinds comes back only by a fetch that
\* found the session: neither a reader, nor the passing of time, nor a fetch
\* that failed brings an entry of such a kind.
THEOREM LoggedOutStaysOut == Spec => StaysLoggedOut
<1> DEFINE Stay ==
      \A a \in Accounts, t \in Strict :
          /\ a \notin ToSet(listed) /\ cache[a][t] = "none"
          /\ ~ (task.account = a /\ fetching.type = t /\ fetching.live)
          => cache[a][t]' = "none"
<1>1. PreloadInv /\ [Next]_vars => Stay
  <2> SUFFICES ASSUME PreloadInv, [Next]_vars,
                      NEW a \in Accounts, NEW t \in Strict,
                      cache[a][t] = "none",
                      ~ (task.account = a /\ fetching.type = t /\ fetching.live)
               PROVE  cache'[a][t] = "none"
    OBVIOUS
  <2>1. t \in Types
    BY PreloadAssumption DEF Types
  <2>2. Tracked
    BY DEF PreloadInv
  <2>3. CASE UNCHANGED cache
    BY <2>3
  <2>4. ASSUME NEW b \in Accounts, LogOut(b)
        PROVE  cache'[a][t] = "none"
    <3>1. Forget(b)
      BY <2>4 DEF LogOut
    <3>2. QED
      BY <2>1, <2>2, <3>1, ForgetTracked
  <2>5. ASSUME NEW b \in Accounts, LogIn(b) \/ Trigger(b) \/ Switch(b) \/ ClearSession(b)
        PROVE  UNCHANGED cache
    BY <2>5 DEF LogIn, Trigger, Switch, ClearSession, cacheVars
  <2>6. ASSUME \/ \E c \in Accounts \cup {NoAccount} : TriggerAll(c)
               \/ Refresh \/ Take \/ (\E w \in Callers : EnqueueListed(w)) \/ UNCHANGED vars
        PROVE  UNCHANGED cache
    BY <2>6 DEF TriggerAll, Refresh, Take, EnqueueListed, cacheVars, vars
  <2>7. ASSUME NEW b \in Accounts, NEW u \in Types, Expire(b, u) \/ Read(b, u)
        PROVE  cache'[a][t] = "none"
    BY <2>1, <2>2, <2>7, ExpireTracked, ReadTracked
  <2>8. CASE Fetched
    <3>1. fetching.live
      BY <2>8 DEF Fetched
    <3>2. a # task.account \/ t # fetching.type
      BY <3>1
    <3>3. QED
      BY <2>1, <2>8, <3>2, FetchedInv
  <2>9. CASE FetchFails
    BY <2>9, FetchFailsInv
  <2>10. QED
    BY <2>3, <2>4, <2>5, <2>6, <2>7, <2>8, <2>9 DEF Next
<1> HIDE DEF Stay
<1>2. Spec => [][Stay]_vars
  BY <1>1, AlwaysInv, PTL DEF Spec
<1>3. QED
  BY <1>2 DEF StaysLoggedOut, Stay

\* An account is queued when one of the tasks is its own.
LEMMA QueuedHasTask ==
    ASSUME NEW q \in Seq(Tasks), NEW a
    PROVE  Find(q, a) # 0 <=> \E t \in ToSet(q) : t.account = a
<1>1. CASE Find(q, a) # 0
  <2>1. Find(q, a) \in DOMAIN q /\ q[Find(q, a)].account = a
    BY <1>1, FindProperties
  <2>2. q[Find(q, a)] \in ToSet(q)
    BY <2>1 DEF ToSet
  <2>3. QED
    BY <1>1, <2>1, <2>2
<1>2. CASE Find(q, a) = 0
  BY <1>2, FindProperties
<1>3. QED
  BY <1>1, <1>2

\* What enqueuing loses was given up.
LEMMA EnqueuingKeeps ==
    ASSUME PreloadInv, NEW s, Comes(queue, born, s), queue' = s.queue,
           NEW a \in Accounts, Queued(a), ~ Queued(a)'
    PROVE  /\ Len(queue') >= MaxQueueSize
           /\ \A b \in Accounts \ {a} : Stays(b) =>
                 ~ Before(queue[Find(queue, a)], queue'[Find(queue', b)])
<1> DEFINE o == queue[Find(queue, a)]
<1>1. /\ queue \in Seq(Tasks) /\ \A t \in ToSet(queue) : t.born <= born
      /\ queue' \in Seq(Tasks)
  BY DEF PreloadInv, QueueOK, Comes, States
<1>2. Find(queue, a) # 0 /\ Find(queue', a) = 0
  BY DEF Queued
<1>3. o \in ToSet(queue) /\ o.account = a
  <2>1. Find(queue, a) \in DOMAIN queue /\ queue[Find(queue, a)].account = a
    BY <1>1, <1>2, FindProperties
  <2>2. QED
    BY <2>1 DEF ToSet
<1> HIDE DEF o
<1>4. ~ Still(o, s)
  <2>1. \A t \in ToSet(queue') : t.account # a
    BY <1>1, <1>2, FindProperties
  <2>2. QED
    BY <1>3, <2>1 DEF Still
<1>5. GivenUp(o, born, s)
  BY <1>3, <1>4 DEF Comes
<1>6. ASSUME NEW b \in Accounts \ {a}, Stays(b)
      PROVE  ~ Before(o, queue'[Find(queue', b)])
  <2>1. /\ Find(queue, b) # 0 /\ Find(queue', b) # 0
        /\ queue'[Find(queue', b)].born = queue[Find(queue, b)].born
    BY <1>6 DEF Stays, Queued
  <2>2. Find(queue, b) \in DOMAIN queue /\ Find(queue', b) \in DOMAIN queue'
    BY <1>1, <2>1, FindProperties
  <2>3. queue[Find(queue, b)] \in ToSet(queue) /\ queue'[Find(queue', b)] \in ToSet(queue')
    BY <2>2 DEF ToSet
  <2>4. queue'[Find(queue', b)].born <= born
    BY <1>1, <2>1, <2>3
  <2>5. QED
    BY <1>5, <2>3, <2>4 DEF GivenUp
<1>7. QED
  BY <1>5, <1>6 DEF GivenUp, o

\* A task that is waiting leaves the queue when it is run, when its account
\* logs out, or when a full queue gives it up, and then no task that stays
\* comes after it: enqueue_account, the bulk enqueuing and reprioritize lose
\* nothing else.
THEOREM WaitingTasksAreKept == Spec => TasksKept
<1> DEFINE Kept ==
      \A a \in Accounts : Queued(a) /\ ~ Queued(a)' =>
          \/ Take
          \/ LogOut(a)
          \/ /\ Len(queue') >= MaxQueueSize
             /\ \A b \in Accounts \ {a} : Stays(b) =>
                   ~ Before(queue[Find(queue, a)], queue'[Find(queue', b)])
<1>1. PreloadInv /\ [Next]_vars => Kept
  <2> SUFFICES ASSUME PreloadInv, [Next]_vars,
                      NEW a \in Accounts, Queued(a), ~ Queued(a)', ~ Take, ~ LogOut(a)
               PROVE  /\ Len(queue') >= MaxQueueSize
                      /\ \A b \in Accounts \ {a} : Stays(b) =>
                            ~ Before(queue[Find(queue, a)], queue'[Find(queue', b)])
    OBVIOUS
  <2>1. /\ queue \in Seq(Tasks)
        /\ Find(queue, a) # 0 /\ Find(queue', a) = 0
    BY DEF PreloadInv, QueueOK, Queued
  <2>2. queue' # queue
    BY <2>1
  <2>3. PICK o \in ToSet(queue) : o.account = a
    BY <2>1, QueuedHasTask
  <2>4. queue' \in Seq(Tasks)
    BY NextInv DEF PreloadInv, QueueOK
  <2>5. \A t \in ToSet(queue') : t.account # a
    BY <2>1, <2>4, FindProperties
  <2>6. ASSUME NEW b \in Accounts, Trigger(b)
        PROVE  \E s : Comes(queue, born, s) /\ queue' = s.queue
    BY <2>6, TriggerComes
  <2>7. ASSUME NEW w \in Callers, EnqueueListed(w)
        PROVE  \E s : Comes(queue, born, s) /\ queue' = s.queue
    BY <2>7, EnqueueListedComes
  <2>8. ASSUME NEW b \in Accounts, Switch(b)
        PROVE  FALSE
    <3>1. \E t \in ToSet(queue') : t.account = o.account
      BY <2>8, SwitchTasks
    <3>2. QED
      BY <2>3, <2>5, <3>1
  <2>9. ASSUME NEW b \in Accounts, LogOut(b)
        PROVE  FALSE
    <3>1. b # a
      BY <2>9
    <3>2. o \in ToSet(queue')
      BY <2>3, <2>9, <3>1, LogOutInv
    <3>3. QED
      BY <2>3, <2>5, <3>2
  <2>10. ASSUME NEW b \in Accounts, LogIn(b) \/ ClearSession(b)
         PROVE  FALSE
    BY <2>2, <2>10 DEF LogIn, ClearSession, taskVars
  <2>11. ASSUME \/ \E c \in Accounts \cup {NoAccount} : TriggerAll(c)
                \/ Refresh \/ Fetched \/ FetchFails \/ UNCHANGED vars
         PROVE  FALSE
    BY <2>2, <2>11 DEF TriggerAll, Refresh, Fetched, FetchFails, taskVars, vars
  <2>12. ASSUME NEW b \in Accounts, NEW t \in Types, Expire(b, t) \/ Read(b, t)
         PROVE  FALSE
    BY <2>2, <2>12 DEF Expire, Read, taskVars
  <2>13. \E s : Comes(queue, born, s) /\ queue' = s.queue
    BY <2>6, <2>7, <2>8, <2>9, <2>10, <2>11, <2>12 DEF Next
  <2>14. QED
    BY <2>13, EnqueuingKeeps
<1> HIDE DEF Kept
<1>2. Spec => [][Kept]_vars
  BY <1>1, AlwaysInv, PTL DEF Spec
<1>3. QED
  BY <1>2 DEF TasksKept, Kept
=============================================================================
