--------------------------- MODULE UsageTracesProofs ---------------------------
(* Theorems about UsageTraces, for any number of requests, keys, models,     *)
(* shards, records per shard and events.                                     *)
EXTENDS UsageTraces, SequenceTheorems, FiniteSetTheorems, WellFoundedInduction, TLAPS

-----------------------------------------------------------------------------
(* Lists                                                                     *)

\* A set of natural numbers has a smallest element.
LEMMA SmallestExists ==
    ASSUME NEW T, T \subseteq Nat, T # {}
    PROVE  \E k \in T : \A j \in T : k <= j
<1> DEFINE R == OpToRel(<, Nat)
<1>1. IsWellFoundedOn(R, Nat)
  BY NatLessThanWellFounded
<1> HIDE DEF R
<1>2. PICK k \in T : \A j \in T : ~ (<<j, k>> \in R)
  BY <1>1, WFMin
<1>3. \A j \in T : ~ (j < k)
  BY <1>2 DEF R, OpToRel
<1>4. QED
  BY <1>3

\* Induction up to n, for a set in the place of a predicate.
LEMMA UpTo ==
    ASSUME NEW n \in Nat, NEW T, 0 \in T, \A i \in 1..n : i - 1 \in T => i \in T
    PROVE  0..n \subseteq T
<1> DEFINE Bad == {i \in 0..n : i \notin T}
<1>1. CASE Bad # {}
  <2> Bad \subseteq Nat
    OBVIOUS
  <2>1. PICK i \in Bad : \A j \in Bad : i <= j
    <3> HIDE DEF Bad
    <3>1. QED
      BY <1>1, SmallestExists
  <2>2. i \in 1..n /\ i - 1 \in 0..n
    BY <2>1
  <2>3. i - 1 \notin Bad
    BY <2>1, <2>2
  <2>4. QED
    BY <2>1, <2>2, <2>3
<1>2. CASE Bad = {}
  BY <1>2
<1>3. QED
  BY <1>1, <1>2

\* One more element at the end.
LEMMA OneMore ==
    ASSUME NEW A, NEW list \in Seq(A), NEW a \in A
    PROVE  /\ Append(list, a) \in Seq(A) /\ Len(Append(list, a)) = Len(list) + 1
           /\ Range(Append(list, a)) = Range(list) \cup {a}
           /\ IsInjective(list) /\ a \notin Range(list) => IsInjective(Append(list, a))
<1> DEFINE more == Append(list, a)
           n == Len(list)
<1>1. /\ more \in Seq(A) /\ Len(more) = n + 1 /\ n \in Nat
      /\ \A j \in 1..n : more[j] = list[j]
      /\ more[n + 1] = a
  BY AppendProperties
<1>2. DOMAIN more = 1..(n + 1) /\ DOMAIN list = 1..n
  BY <1>1
<1> HIDE DEF more, n
<1>3. Range(more) = Range(list) \cup {a}
  BY <1>1, <1>2 DEF Range
<1>4. ASSUME IsInjective(list), a \notin Range(list)
      PROVE  IsInjective(more)
  <2>1. \A j \in 1..n : list[j] # a
    BY <1>2, <1>4 DEF Range
  <2>2. \A j, k \in 1..n : list[j] = list[k] => j = k
    BY <1>2, <1>4 DEF IsInjective
  <2>3. \A j, k \in 1..(n + 1) : more[j] = more[k] => j = k
    <3>1. \A j \in 1..(n + 1) : j \in 1..n \/ j = n + 1
      BY <1>1
    <3>2. QED
      BY <1>1, <2>1, <2>2, <3>1
  <2>4. QED
    BY <1>2, <2>3 DEF IsInjective
<1>5. QED
  BY <1>1, <1>3, <1>4 DEF more

\* What Sublist returns is a list, has the elements of the list that are in the
\* set and repeats none that the list does not repeat.
LEMMA SublistProperties ==
    ASSUME NEW A, NEW list \in Seq(A), NEW set
    PROVE  /\ Sublist(list, set) \in Seq(A)
           /\ Range(Sublist(list, set)) = Range(list) \cap set
           /\ Len(Sublist(list, set)) <= Len(list)
           /\ IsInjective(list) => IsInjective(Sublist(list, set))
<1> DEFINE n == Len(list)
           step(i, l) == IF list[i] \in set THEN Append(l, list[i]) ELSE l
           Def(k, m) == k = [i \in 0..m |-> IF i = 0 THEN <<>> ELSE step(i, k[i - 1])]
           kept == CHOOSE k : Def(k, n)
<1>1. n \in Nat /\ \A i \in 1..n : list[i] \in A
  OBVIOUS
<1>2. Sublist(list, set) = kept[n]
  BY DEF Sublist
<1> HIDE DEF n, step
<1>3. \E k : Def(k, n)
  <2> DEFINE T == {m \in 0..n : \E k : Def(k, m)}
  <2>1. 0 \in T
    <3>1. Def([i \in 0..0 |-> <<>>], 0)
      OBVIOUS
    <3> HIDE DEF Def
    <3>2. QED
      BY <1>1, <3>1
  <2>2. ASSUME NEW m \in 1..n, m - 1 \in T
        PROVE  m \in T
    <3>1. PICK k : Def(k, m - 1)
      BY <2>2
    <3> DEFINE l == [i \in 0..m |-> IF i = m THEN step(m, k[m - 1]) ELSE k[i]]
    <3>2. ASSUME NEW i \in 0..m
          PROVE  l[i] = IF i = 0 THEN <<>> ELSE step(i, l[i - 1])
      <4>1. \A j \in 0..(m - 1) : k[j] = IF j = 0 THEN <<>> ELSE step(j, k[j - 1])
        BY <3>1
      <4>2. CASE i = m
        <5>1. m - 1 \in 0..m /\ m - 1 # m /\ m # 0
          BY <1>1
        <5>2. l[m - 1] = k[m - 1] /\ l[m] = step(m, k[m - 1])
          BY <5>1
        <5>3. QED
          BY <4>2, <5>1, <5>2
      <4>3. CASE i # m
        <5>1. i \in 0..(m - 1) /\ (i # 0 => i - 1 \in 0..m /\ i - 1 # m)
          BY <1>1, <4>3
        <5>2. l[i] = k[i] /\ (i # 0 => l[i - 1] = k[i - 1])
          BY <4>3, <5>1
        <5>3. QED
          BY <4>1, <5>1, <5>2
      <4>4. QED
        BY <4>2, <4>3
    <3>3. Def(l, m)
      <4>1. l = [i \in 0..m |-> l[i]]
        OBVIOUS
      <4> HIDE DEF l
      <4>2. QED
        BY <3>2, <4>1
    <3> HIDE DEF Def
    <3>4. QED
      BY <1>1, <3>3
  <2>3. n \in T
    <3> HIDE DEF T
    <3>1. 0..n \subseteq T
      BY <1>1, <2>1, <2>2, UpTo
    <3>2. QED
      BY <1>1, <3>1
  <2>4. QED
    BY <2>3
<1>4. Def(kept, n)
  <2> HIDE DEF Def
  <2>1. QED
    BY <1>3
<1> HIDE DEF kept
<1>5. /\ kept[0] = <<>>
      /\ \A i \in 1..n : kept[i] = step(i, kept[i - 1])
  <2>1. \A i \in 0..n : kept[i] = IF i = 0 THEN <<>> ELSE step(i, kept[i - 1])
    BY <1>4
  <2>2. 0 \in 0..n /\ \A i \in 1..n : i \in 0..n /\ i # 0
    BY <1>1
  <2>3. QED
    BY <2>1, <2>2
<1> DEFINE upTo(i) == {list[j] : j \in 1..i}
           Good(i) == /\ kept[i] \in Seq(A)
                      /\ Range(kept[i]) = upTo(i) \cap set
                      /\ Len(kept[i]) <= i
                      /\ IsInjective(list) => IsInjective(kept[i])
           T == {i \in 0..n : Good(i)}
<1>6. 0 \in T
  <2>1. <<>> \in Seq(A) /\ Range(<<>>) = {} /\ Len(<<>>) = 0 /\ IsInjective(<<>>)
    BY DEF Range, IsInjective
  <2>2. upTo(0) = {} /\ 0 \in 0..n
    BY <1>1
  <2>3. Good(0)
    <3> HIDE DEF upTo
    <3>1. QED
      BY <1>5, <2>1, <2>2
  <2> HIDE DEF Good
  <2>4. QED
    BY <2>2, <2>3
<1>7. ASSUME NEW i \in 1..n, i - 1 \in T
      PROVE  i \in T
  <2> DEFINE l == kept[i - 1]
             x == list[i]
  <2>1. /\ l \in Seq(A) /\ Range(l) = upTo(i - 1) \cap set /\ Len(l) <= i - 1
        /\ IsInjective(list) => IsInjective(l)
        /\ x \in A
    BY <1>1, <1>7
  <2>2. upTo(i) = upTo(i - 1) \cup {x}
    BY <1>1
  <2>3. CASE x \in set
    <3>1. kept[i] = Append(l, x)
      BY <1>5, <2>3 DEF step
    <3>2. /\ kept[i] \in Seq(A) /\ Range(kept[i]) = Range(l) \cup {x} /\ Len(kept[i]) = Len(l) + 1
          /\ IsInjective(l) /\ x \notin Range(l) => IsInjective(kept[i])
      BY <2>1, <3>1, OneMore
    <3>3. ASSUME IsInjective(list)
          PROVE  x \notin Range(l)
      <4>1. ASSUME NEW j \in 1..(i - 1)
            PROVE  list[j] # x
        <5>1. j \in DOMAIN list /\ i \in DOMAIN list /\ j # i
          BY <1>1 DEF n
        <5>2. QED
          BY <3>3, <5>1 DEF IsInjective
      <4>2. QED
        BY <2>1, <4>1
    <3>4. Range(kept[i]) = upTo(i) \cap set
      BY <2>1, <2>2, <2>3, <3>2
    <3>5. Len(l) \in Nat /\ Len(kept[i]) <= i
      BY <1>1, <2>1, <3>2
    <3>6. QED
      BY <1>1, <2>1, <3>2, <3>3, <3>4, <3>5
  <2>4. CASE x \notin set
    <3>1. kept[i] = l
      BY <1>5, <2>4 DEF step
    <3>2. Range(kept[i]) = upTo(i) \cap set
      BY <2>1, <2>2, <2>4, <3>1
    <3>3. Len(l) \in Nat /\ Len(kept[i]) <= i
      BY <1>1, <2>1, <3>1
    <3>4. QED
      BY <1>1, <2>1, <3>1, <3>2, <3>3
  <2>5. QED
    BY <2>3, <2>4
<1>8. Good(n)
  <2> HIDE DEF T
  <2>1. 0..n \subseteq T
    BY <1>1, <1>6, <1>7, UpTo
  <2>2. n \in T
    BY <1>1, <2>1
  <2>3. QED
    BY <2>2 DEF T
<1>9. upTo(n) = Range(list) /\ n = Len(list)
  BY DEF Range, n
<1>10. QED
  BY <1>2, <1>8, <1>9

\* The first element of a list and the others.
LEMMA FirstAndRest ==
    ASSUME NEW A, NEW list \in Seq(A), list # <<>>
    PROVE  /\ Head(list) \in A /\ Head(list) \in Range(list)
           /\ Tail(list) \in Seq(A) /\ Range(Tail(list)) \subseteq Range(list)
           /\ IsInjective(list) => IsInjective(Tail(list)) /\ Head(list) \notin Range(Tail(list))
<1> DEFINE n == Len(list)
           rest == Tail(list)
<1>1. /\ n \in Nat \ {0} /\ DOMAIN list = 1..n /\ Head(list) = list[1]
      /\ Head(list) \in A /\ rest \in Seq(A)
  BY EmptySeq, LenProperties, HeadTailProperties
<1>2. Len(rest) = n - 1 /\ \A i \in 1..(n - 1) : rest[i] = list[i + 1]
  BY HeadTailProperties
<1>3. DOMAIN rest = 1..(n - 1)
  BY <1>1, <1>2, LenProperties
<1> HIDE DEF n, rest
<1>4. 1 \in 1..n /\ \A i \in 1..(n - 1) : i + 1 \in 1..n /\ i + 1 # 1
  BY <1>1
<1>5. Head(list) \in Range(list) /\ Range(rest) \subseteq Range(list)
  BY <1>1, <1>2, <1>3, <1>4 DEF Range
<1>6. ASSUME IsInjective(list)
      PROVE  IsInjective(rest) /\ Head(list) \notin Range(rest)
  <2>1. \A i, j \in 1..n : list[i] = list[j] => i = j
    BY <1>1, <1>6 DEF IsInjective
  <2>2. \A i, j \in 1..(n - 1) : rest[i] = rest[j] => i = j
    <3>1. SUFFICES ASSUME NEW i \in 1..(n - 1), NEW j \in 1..(n - 1), rest[i] = rest[j]
                   PROVE  i = j
      OBVIOUS
    <3>2. i + 1 = j + 1
      BY <1>2, <1>4, <2>1, <3>1
    <3>3. QED
      BY <3>2
  <2>3. \A i \in 1..(n - 1) : rest[i] # list[1]
    BY <1>2, <1>4, <2>1
  <2>4. QED
    BY <1>1, <1>3, <2>2, <2>3 DEF IsInjective, Range
<1>7. QED
  BY <1>1, <1>5, <1>6 DEF rest

\* What a shard keeps: its newest records, as many as it may hold.
LEMMA KeptProperties ==
    ASSUME NEW A, NEW list \in Seq(A)
    PROVE  /\ Kept(list) \in Seq(A) /\ Range(Kept(list)) \subseteq Range(list)
           /\ Len(Kept(list)) = IF Len(list) > RecordsPerShard THEN RecordsPerShard ELSE Len(list)
           /\ Len(list) <= RecordsPerShard => Kept(list) = list
           /\ IsInjective(list) => IsInjective(Kept(list))
<1> DEFINE n == Len(list)
           R == RecordsPerShard
           kept == Kept(list)
<1>1. n \in Nat /\ R \in Nat /\ DOMAIN list = 1..n /\ \A i \in 1..n : list[i] \in A
  BY TracesAssumption, LenProperties
<1>2. CASE n > R
  <2> DEFINE m == n - R + 1
  <2>1. kept = SubSeq(list, m, n)
    BY <1>2 DEF Kept
  <2>2. m \in Int /\ n \in Int /\ m <= n + 1 /\ n - m + 1 = R /\ \A i \in m..n : list[i] \in A
    BY <1>1, <1>2
  <2>3. \A i \in 1..R : m + i - 1 \in 1..n
    BY <1>1, <1>2
  <2> HIDE DEF n, R, kept, m
  <2>4. /\ kept \in Seq(A) /\ Len(kept) = R
        /\ \A i \in 1..R : kept[i] = list[m + i - 1]
    <3>1. /\ kept \in Seq(A)
          /\ Len(kept) = IF m <= n THEN n - m + 1 ELSE 0
          /\ \A i \in 1..(n - m + 1) : kept[i] = list[m + i - 1]
      BY <2>1, <2>2, SubSeqProperties
    <3>2. QED
      BY <1>1, <2>2, <3>1
  <2>5. DOMAIN kept = 1..R
    BY <2>4, LenProperties
  <2>6. Range(kept) \subseteq Range(list)
    BY <1>1, <2>3, <2>4, <2>5 DEF Range
  <2>7. ASSUME IsInjective(list)
        PROVE  IsInjective(kept)
    <3>1. SUFFICES ASSUME NEW i \in 1..R, NEW j \in 1..R, kept[i] = kept[j]
                   PROVE  i = j
      BY <2>5 DEF IsInjective
    <3>2. m + i - 1 = m + j - 1
      BY <1>1, <2>3, <2>4, <2>7, <3>1 DEF IsInjective
    <3>3. QED
      BY <1>1, <2>2, <3>2
  <2>8. QED
    BY <1>1, <1>2, <2>4, <2>6, <2>7 DEF kept, R, n
<1>3. CASE ~ (n > R)
  BY <1>1, <1>3 DEF Kept
<1>4. QED
  BY <1>2, <1>3

-----------------------------------------------------------------------------
(* The invariant                                                             *)

Calls == [key : Keys \cup {Nobody}, model : Models \cup {Nobody}, ok : BOOLEAN,
          start : Nat, day : Nat \cup {Unrecorded}, tries : Nat]
Items == [req : Requests, n : Nat, key : Keys \cup {Nobody}, model : Models, ok : BOOLEAN]
Readers == [next : 0 .. MaxShards, got : SUBSET Requests, must : SUBSET Requests, skipped : SUBSET Shards]
Phases == {"new", "trying", "called", "streaming", "ended", "left"}
Managers == [current : Shards, counts : [Shards -> 0 .. RecordsPerShard]]
Tasks == {Nobody, "save", All} \cup Keys

Typed ==
    /\ call \in [Requests -> Calls] /\ phase \in [Requests -> Phases] /\ day \in Nat
    /\ \A r \in Requests : phase[r] # "new" => call[r].model \in Models
    /\ active \subseteq Requests /\ today \subseteq Items /\ IsFiniteSet(today)
    /\ waiting \in Seq(Requests)
    /\ holder \in [task : Tasks, step : 0 .. MaxShards, reset : BOOLEAN]
    /\ shards \in [Shards -> Seq(Requests)]
    /\ \A s \in Shards : Len(shards[s]) <= RecordsPerShard
    /\ manager \in Managers /\ meta \in Managers
    /\ reader \in Readers
    /\ whole \in BOOLEAN

\* No trace is stored twice, or stored and waiting; all of them have ended.
Once ==
    /\ IsInjective(waiting)
    /\ \A r \in Range(waiting) : phase[r] = "ended" /\ r \notin Stored
    /\ \A s \in Shards : IsInjective(shards[s])
    /\ \A s, t \in Shards : s # t => Range(shards[s]) \cap Range(shards[t]) = {}
    /\ \A r \in Stored : phase[r] = "ended"

\* What may be counted on the page is of today.
Counting ==
    /\ counted \subseteq today /\ \A x \in counted : x.n > 0
    /\ \A r \in Requests : call[r].day <= day
    /\ \A r \in Stored \cup Range(waiting) : InWindow(r) => TraceOf(r) \in today

\* A clear leaves nothing it covers in the shards it has passed.
Passed ==
    Clearing => \A s \in Shards : s < holder.step => \A r \in Range(shards[s]) : ~ Of(holder.task, call[r])

\* What was stored when a computation began was not saved since, and has been
\* read when it is in a shard that was passed and not skipped.
Reading ==
    /\ \A r \in reader.must : phase[r] = "ended" /\ r \notin Range(waiting)
    /\ \A s \in Shards \ reader.skipped :
         s < reader.next => reader.must \cap Range(shards[s]) \subseteq reader.got

Full == \A s \in Shards : Len(shards[s]) = RecordsPerShard

\* As long as nothing was lost the shards are filled one after another.
Filling ==
    whole => /\ holder.task \in {Nobody, "save"}
             /\ \A s \in Shards : manager.counts[s] = Len(shards[s])
             /\ \/ Full
                \/ \A s \in Shards : /\ s < manager.current => Len(shards[s]) = RecordsPerShard
                                     /\ s > manager.current => Len(shards[s]) = 0

TracesInv == Typed /\ Once /\ Counting /\ Passed /\ Reading /\ Filling

-----------------------------------------------------------------------------
(* Steps                                                                     *)

LEMMA Constants ==
    /\ MaxShards \in Nat \ {0} /\ RecordsPerShard \in Nat \ {0}
    /\ Nobody \notin Keys /\ All \notin Keys /\ "save" \notin Keys
    /\ Nobody # All /\ Nobody # "save" /\ All # "save"
    /\ Shards \subseteq Nat /\ 0 \in Shards /\ \A s \in Shards : s < MaxShards
  BY TracesAssumption DEF Nobody, All, Shards

LEMMA InStored == \A r : r \in Stored <=> \E s \in Shards : r \in Range(shards[s])
  BY DEF Stored

LEMMA NextPlace ==
    ASSUME NEW c \in Shards
    PROVE  (c + 1) % MaxShards = IF c + 1 = MaxShards THEN 0 ELSE c + 1
<1>1. c \in Nat /\ c < MaxShards /\ MaxShards \in Nat /\ MaxShards > 0
  BY Constants
<1>2. CASE c + 1 = MaxShards
  BY <1>1, <1>2
<1>3. CASE c + 1 # MaxShards
  <2>1. c + 1 \in Nat /\ c + 1 < MaxShards
    BY <1>1, <1>3
  <2>2. QED
    BY <1>1, <1>3, <2>1
<1>4. QED
  BY <1>2, <1>3

LEMMA NextShardOK ==
    ASSUME NEW m \in Managers
    PROVE  /\ NextShard(m) \in Shards
           /\ m.counts[m.current] < RecordsPerShard => NextShard(m) = m.current
           /\ ~ (m.counts[m.current] < RecordsPerShard) =>
                 NextShard(m) = IF m.current + 1 = MaxShards THEN 0 ELSE m.current + 1
<1>1. m.current \in Shards /\ m.counts[m.current] \in Nat
  BY DEF Managers
<1>2. (m.current + 1) % MaxShards = IF m.current + 1 = MaxShards THEN 0 ELSE m.current + 1
  BY <1>1, NextPlace
<1>3. m.current \in Nat /\ m.current < MaxShards /\ RecordsPerShard \in Nat /\ MaxShards \in Nat
  BY <1>1, Constants
<1>4. QED
  BY <1>1, <1>2, <1>3, Constants DEF NextShard, Shards

LEMMA InitInv == Init => TracesInv
<1> SUFFICES ASSUME Init
             PROVE  TracesInv
  OBVIOUS
<1>1. <<>> \in Seq(Requests) /\ IsInjective(<<>>) /\ Range(<<>>) = {} /\ Len(<<>>) = 0
  BY DEF IsInjective, Range
<1>2. 0 \in 0..RecordsPerShard /\ 0 \in 0..MaxShards /\ MaxShards \in 0..MaxShards
  BY Constants
<1>3. Stored = {}
  BY <1>1 DEF Init, Stored
<1>4. Typed
  BY <1>1, <1>2, Constants, FS_EmptySet DEF Init, Typed, NoCall, Calls, Phases, Free, Tasks, NewManager, Managers, NoReader, Readers
<1>5. Once /\ Counting /\ Passed /\ Reading
  BY <1>1, <1>3, Constants DEF Init, Once, Counting, Passed, Reading, NoCall, Unrecorded, Free, NoReader, Clearing
<1>6. Filling
  BY <1>1, Constants DEF Init, Filling, Free, NewManager
<1>7. QED
  BY <1>4, <1>5, <1>6 DEF TracesInv

\* A call of a request that has not ended, counted or not.
LEMMA AnotherCall ==
    ASSUME TracesInv, NEW r \in Requests, phase[r] \in {"new", "trying", "streaming"},
           NEW new \in SUBSET Items, IsFiniteSet(new), \A x \in new : x.n > 0,
           NEW c \in Calls, c.model \in Models, c.day \in {call[r].day, day},
           NEW p \in {"trying", "called", "streaming"},
           call' = [call EXCEPT ![r] = c], phase' = [phase EXCEPT ![r] = p],
           counted' = counted \cup new, today' = today \cup new, active' = active \cup {r},
           UNCHANGED <<day, waiting, storeVars, reader, whole>>
    PROVE  TracesInv'
<1>1. /\ day' = day /\ waiting' = waiting /\ holder' = holder /\ shards' = shards
      /\ manager' = manager /\ meta' = meta /\ reader' = reader /\ whole' = whole
  BY DEF storeVars
<1>2. /\ call \in [Requests -> Calls] /\ phase \in [Requests -> Phases] /\ day \in Nat
  BY DEF TracesInv, Typed
<1>3. /\ \A q \in Requests \ {r} : call'[q] = call[q] /\ phase'[q] = phase[q]
      /\ phase'[r] = p /\ call'[r] = c
      /\ call' \in [Requests -> Calls] /\ phase' \in [Requests -> Phases]
  BY <1>2 DEF Phases
<1>4. Typed'
  <2>1. today' \subseteq Items /\ IsFiniteSet(today')
    BY FS_Union DEF TracesInv, Typed
  <2>2. \A q \in Requests : phase'[q] # "new" => call'[q].model \in Models
    BY <1>3 DEF TracesInv, Typed
  <2>3. QED
    BY <1>1, <1>3, <2>1, <2>2 DEF TracesInv, Typed
<1>5. /\ r \notin Range(waiting) /\ r \notin Stored /\ r \notin reader.must
      /\ Range(waiting) \subseteq Requests /\ Stored \subseteq Requests
      /\ \A s \in Shards : Range(shards[s]) \subseteq Requests
  BY InStored DEF TracesInv, Typed, Once, Reading, Range
<1>6. Stored' = Stored /\ Range(waiting)' = Range(waiting) /\ Clearing' = Clearing
  BY <1>1 DEF Stored, Clearing
<1>7. Once'
  BY <1>1, <1>3, <1>5, <1>6 DEF TracesInv, Once
<1>8. Reading'
  BY <1>1, <1>3, <1>5, <1>6 DEF TracesInv, Typed, Readers, Reading
<1>9. Counting'
  <2>1. counted' \subseteq today' /\ \A x \in counted' : x.n > 0
    BY DEF TracesInv, Counting
  <2>2. \A q \in Requests : call'[q].day <= day'
    BY <1>1, <1>2, <1>3 DEF TracesInv, Counting
  <2>3. \A q \in Stored \cup Range(waiting) : InWindow(q)' => TraceOf(q)' \in today'
    BY <1>1, <1>3, <1>5 DEF TracesInv, Counting, InWindow, TraceOf
  <2>4. QED
    BY <1>6, <2>1, <2>2, <2>3 DEF Counting
<1>10. Passed'
  BY <1>1, <1>3, <1>5, <1>6, InStored DEF TracesInv, Passed
<1>11. Filling'
  BY <1>1 DEF TracesInv, Filling, Full
<1>12. QED
  BY <1>4, <1>7, <1>8, <1>9, <1>10, <1>11 DEF TracesInv

LEMMA ModelsOK ==
    ASSUME TracesInv, NEW r \in Requests
    PROVE  ModelsOf(r) \subseteq Models /\ StartOf(r) \in Nat
  BY DEF TracesInv, Typed, Calls, ModelsOf, StartOf

LEMMA CallOfOK ==
    ASSUME TracesInv, NEW r \in Requests, NEW k \in Keys, NEW m \in Models, NEW ok \in BOOLEAN
    PROVE  CallOf(r, k, m, ok) \in Items /\ CallOf(r, k, m, ok).n > 0
<1>1. call[r].tries \in Nat
  BY DEF TracesInv, Typed, Calls
<1>2. QED
  BY <1>1 DEF CallOf, Items

LEMMA RaiseInv ==
    ASSUME TracesInv, NEW r \in Requests, Raise(r)
    PROVE  TracesInv'
<1>1. PICK k \in Keys, m \in ModelsOf(r) :
         /\ counted' = counted \cup {CallOf(r, k, m, FALSE)}
         /\ today' = today \cup {CallOf(r, k, m, FALSE)}
         /\ call' = [call EXCEPT ![r] = CalledWith(r, k, m, call[r].ok, call[r].day)]
  BY DEF Raise
<1> DEFINE c == CalledWith(r, k, m, call[r].ok, call[r].day)
           new == {CallOf(r, k, m, FALSE)}
           p == IF phase[r] = "streaming" THEN phase[r] ELSE "trying"
<1>2. /\ phase[r] \in {"new", "trying", "streaming"} /\ active' = active \cup {r}
      /\ phase' = [phase EXCEPT ![r] = p]
      /\ UNCHANGED <<day, waiting, storeVars, reader, whole>>
  BY DEF Raise
<1>3. m \in Models /\ StartOf(r) \in Nat /\ call[r] \in Calls
  BY ModelsOK DEF TracesInv, Typed
<1>4. c \in Calls /\ c.model \in Models /\ c.day = call[r].day
  BY <1>3 DEF Calls, CalledWith
<1>5. new \in SUBSET Items /\ IsFiniteSet(new) /\ \A x \in new : x.n > 0
  <2>1. CallOf(r, k, m, FALSE) \in Items /\ CallOf(r, k, m, FALSE).n > 0
    BY <1>3, CallOfOK
  <2>2. QED
    BY <2>1, FS_Singleton
<1>6. p \in {"trying", "called", "streaming"}
  BY <1>2
<1>7. call' = [call EXCEPT ![r] = c] /\ counted' = counted \cup new /\ today' = today \cup new
  BY <1>1
<1> HIDE DEF c, new, p
<1>8. QED
  BY <1>2, <1>4, <1>5, <1>6, <1>7, AnotherCall

LEMMA CallInv ==
    ASSUME TracesInv, NEW r \in Requests, Call(r)
    PROVE  TracesInv'
<1>1. PICK k \in Keys \cup {Nobody}, m \in ModelsOf(r),
           outcome \in {"success", "failure", "refusal"}, sent \in {"answer", "stream", "made"} :
         (k \in Keys \/ outcome = "refusal") /\ Called(r, k, m, outcome, sent)
  BY DEF Call
<1> DEFINE c == CalledWith(r, k, m, outcome = "success" \/ sent # "answer",
                    IF outcome = "success" /\ sent = "stream" THEN day ELSE call[r].day)
           new == RecordCall(r, k, m, outcome)
           p == IF sent = "answer" THEN "called" ELSE "streaming"
<1>2. /\ phase[r] \in {"new", "trying", "streaming"} /\ active' = active \cup {r}
      /\ UNCHANGED <<day, waiting, storeVars, reader, whole>>
  BY DEF Call
<1>3. m \in Models /\ StartOf(r) \in Nat /\ call[r] \in Calls /\ day \in Nat
  BY ModelsOK DEF TracesInv, Typed
<1>4. c \in Calls /\ c.model \in Models /\ c.day \in {call[r].day, day}
  BY <1>3 DEF Calls, CalledWith
<1>5. new \in SUBSET Items /\ IsFiniteSet(new) /\ \A x \in new : x.n > 0
  <2>1. CASE outcome = "refusal"
    BY <2>1, FS_EmptySet DEF RecordCall
  <2>2. CASE outcome # "refusal"
    <3>1. (outcome = "success") \in BOOLEAN /\ k \in Keys
      BY <1>1, <2>2
    <3>2. /\ CallOf(r, k, m, outcome = "success") \in Items
          /\ CallOf(r, k, m, outcome = "success").n > 0
      BY <1>3, <3>1, CallOfOK
    <3>3. QED
      BY <2>2, <3>2, FS_Singleton DEF RecordCall
  <2>3. QED
    BY <2>1, <2>2
<1>6. p \in {"trying", "called", "streaming"}
  OBVIOUS
<1>7. /\ call' = [call EXCEPT ![r] = c] /\ counted' = counted \cup new /\ today' = today \cup new
      /\ phase' = [phase EXCEPT ![r] = p]
  BY <1>1 DEF Called
<1> HIDE DEF c, new, p
<1>8. QED
  BY <1>2, <1>4, <1>5, <1>6, <1>7, AnotherCall

LEMMA EndInv ==
    ASSUME TracesInv, NEW r \in Requests, End(r)
    PROVE  TracesInv'
<1>1. /\ phase[r] \in {"called", "streaming"}
      /\ phase' = [phase EXCEPT ![r] = "ended"]
      /\ call' = [call EXCEPT ![r].day = IF @ = Unrecorded THEN day ELSE @]
      /\ today' = IF call'[r].day = day THEN today \cup {TraceOf(r)} ELSE today
      /\ \/ r \in active /\ active' = active \ {r} /\ waiting' = Append(waiting, r)
         \/ active' = active /\ waiting' = waiting
  BY DEF End, UnderWay
<1>2. /\ day' = day /\ counted' = counted /\ holder' = holder /\ shards' = shards
      /\ manager' = manager /\ meta' = meta /\ reader' = reader /\ whole' = whole
  BY DEF End, storeVars
<1>3. /\ call \in [Requests -> Calls] /\ phase \in [Requests -> Phases] /\ day \in Nat
      /\ waiting \in Seq(Requests)
  BY DEF TracesInv, Typed
<1>4. /\ phase' \in [Requests -> Phases] /\ phase'[r] = "ended"
      /\ \A q \in Requests \ {r} : phase'[q] = phase[q]
  BY <1>1, <1>3 DEF Phases
<1>5. /\ call' \in [Requests -> Calls]
      /\ \A q \in Requests \ {r} : call'[q] = call[q]
      /\ \A q \in Requests : call'[q].model = call[q].model /\ TraceOf(q)' = TraceOf(q)
      /\ call'[r].day \in {call[r].day, day}
  BY <1>1, <1>3 DEF Calls, TraceOf
<1>6. /\ r \notin Range(waiting) /\ r \notin Stored /\ r \notin reader.must
      /\ Range(waiting) \subseteq Requests
      /\ \A s \in Shards : Range(shards[s]) \subseteq Requests
  BY <1>1 DEF TracesInv, Typed, Once, Reading, Range
<1>7. /\ waiting' \in Seq(Requests) /\ IsInjective(waiting')
      /\ Range(waiting') \subseteq Range(waiting) \cup {r}
      /\ Range(waiting) \subseteq Range(waiting')
  <2>1. /\ Append(waiting, r) \in Seq(Requests) /\ Range(Append(waiting, r)) = Range(waiting) \cup {r}
        /\ IsInjective(Append(waiting, r))
    BY <1>3, <1>6, OneMore DEF TracesInv, Once
  <2>2. QED
    BY <1>1, <1>3, <2>1 DEF TracesInv, Once
<1>8. Typed'
  <2>1. call[r].model \in Models /\ call[r] \in Calls
    BY <1>1, <1>3 DEF TracesInv, Typed
  <2>2. TraceOf(r) \in Items
    BY <2>1 DEF TraceOf, Items, Calls
  <2>3. today' \subseteq Items /\ IsFiniteSet(today')
    BY <1>1, <2>2, FS_AddElement DEF TracesInv, Typed
  <2>4. \A q \in Requests : phase'[q] # "new" => call'[q].model \in Models
    BY <1>4, <1>5, <2>1 DEF TracesInv, Typed
  <2>5. active' \subseteq Requests
    BY <1>1 DEF TracesInv, Typed
  <2>6. QED
    BY <1>2, <1>4, <1>5, <1>7, <2>3, <2>4, <2>5 DEF TracesInv, Typed
<1>9. Stored' = Stored /\ Clearing' = Clearing
  BY <1>2 DEF Stored, Clearing
<1>10. Once'
  BY <1>2, <1>4, <1>6, <1>7, <1>9, InStored DEF TracesInv, Once
<1>11. Reading'
  <2>1. reader.must \subseteq Requests
    BY DEF TracesInv, Typed, Readers
  <2>2. QED
    BY <1>2, <1>4, <1>6, <1>7, <2>1 DEF TracesInv, Reading
<1>12. Counting'
  <2>1. counted' \subseteq today' /\ today \subseteq today' /\ \A x \in counted' : x.n > 0
    BY <1>1, <1>2 DEF TracesInv, Counting
  <2>2. \A q \in Requests : call'[q].day <= day'
    BY <1>2, <1>3, <1>5 DEF TracesInv, Counting
  <2>3. ASSUME NEW q \in Stored' \cup Range(waiting'), InWindow(q)'
        PROVE  TraceOf(q)' \in today'
    <3>1. q \in Requests
      BY <1>6, <1>7, <1>9, <2>3, InStored
    <3>2. CASE q = r
      BY <1>1, <1>2, <1>5, <2>3, <3>1, <3>2 DEF InWindow
    <3>3. CASE q # r
      <4>1. q \in Stored \cup Range(waiting) /\ InWindow(q)
        BY <1>2, <1>5, <1>7, <1>9, <2>3, <3>1, <3>3 DEF InWindow
      <4>2. QED
        BY <1>5, <2>1, <3>1, <4>1 DEF TracesInv, Counting
    <3>4. QED
      BY <3>2, <3>3
  <2>4. QED
    BY <2>1, <2>2, <2>3 DEF Counting
<1>13. Passed'
  <2>1. \A s \in Shards : \A q \in Range(shards[s]) : call'[q] = call[q]
    BY <1>5, <1>6, InStored
  <2>2. QED
    BY <1>2, <1>9, <2>1 DEF TracesInv, Passed
<1>14. Filling'
  BY <1>2 DEF TracesInv, Filling, Full
<1>15. QED
  BY <1>8, <1>10, <1>11, <1>12, <1>13, <1>14 DEF TracesInv

LEMMA LeaveInv ==
    ASSUME TracesInv, NEW r \in Requests, Leave(r)
    PROVE  TracesInv'
<1>1. /\ phase[r] \in {"trying", "called", "streaming"}
      /\ phase' = [phase EXCEPT ![r] = "left"]
  BY DEF Leave, UnderWay
<1>2. /\ call' = call /\ day' = day /\ counted' = counted /\ active' = active /\ today' = today
      /\ waiting' = waiting /\ holder' = holder /\ shards' = shards
      /\ manager' = manager /\ meta' = meta /\ reader' = reader /\ whole' = whole
  BY DEF Leave, storeVars
<1>3. phase \in [Requests -> Phases]
  BY DEF TracesInv, Typed
<1>4. /\ phase' \in [Requests -> Phases] /\ phase'[r] = "left"
      /\ \A q \in Requests \ {r} : phase'[q] = phase[q]
  BY <1>1, <1>3 DEF Phases
<1>5. Typed'
  BY <1>1, <1>2, <1>4 DEF TracesInv, Typed
<1>6. r \notin Range(waiting) /\ r \notin Stored /\ r \notin reader.must
  BY <1>1 DEF TracesInv, Once, Reading
<1>7. Stored' = Stored /\ Clearing' = Clearing
  BY <1>2 DEF Stored, Clearing
<1>8. Range(waiting) \subseteq Requests /\ Stored \subseteq Requests /\ reader.must \subseteq Requests
  BY InStored DEF TracesInv, Typed, Readers, Range
<1>9. Once'
  BY <1>2, <1>4, <1>6, <1>7, <1>8 DEF TracesInv, Once
<1>10. Reading'
  BY <1>2, <1>4, <1>6, <1>8 DEF TracesInv, Reading
<1>11. Counting'
  BY <1>2, <1>7 DEF TracesInv, Counting, InWindow, TraceOf
<1>12. Passed'
  BY <1>2, <1>7 DEF TracesInv, Passed, Of
<1>13. Filling'
  BY <1>2 DEF TracesInv, Filling, Full
<1>14. QED
  BY <1>5, <1>9, <1>10, <1>11, <1>12, <1>13 DEF TracesInv


\* The first of the waiting traces is written to the next shard, at most one
\* record more than it had.
LEMMA WritesOne ==
    ASSUME TracesInv, waiting # <<>>,
           NEW s, s = NextShard(manager),
           NEW records, records = Kept(Append(shards[s], Head(waiting)))
    PROVE  /\ s \in Shards /\ Head(waiting) \in Requests /\ Head(waiting) \in Range(waiting)
           /\ Tail(waiting) \in Seq(Requests) /\ IsInjective(Tail(waiting))
           /\ Range(Tail(waiting)) \subseteq Range(waiting) /\ Head(waiting) \notin Range(Tail(waiting))
           /\ records \in Seq(Requests) /\ IsInjective(records)
           /\ Range(records) \subseteq Range(shards[s]) \cup {Head(waiting)}
           /\ Len(shards[s]) \in 0..RecordsPerShard
           /\ Len(records) = IF Len(shards[s]) = RecordsPerShard THEN RecordsPerShard
                             ELSE Len(shards[s]) + 1
           /\ Len(shards[s]) # RecordsPerShard =>
                 Range(records) = Range(shards[s]) \cup {Head(waiting)}
<1> DEFINE h == Head(waiting)
           more == Append(shards[s], h)
<1>1. /\ waiting \in Seq(Requests) /\ IsInjective(waiting) /\ manager \in Managers
      /\ \A q \in Range(waiting) : q \notin Stored
      /\ RecordsPerShard \in Nat
  BY Constants DEF TracesInv, Typed, Once
<1>2. /\ h \in Requests /\ h \in Range(waiting)
      /\ Tail(waiting) \in Seq(Requests) /\ IsInjective(Tail(waiting))
      /\ Range(Tail(waiting)) \subseteq Range(waiting) /\ h \notin Range(Tail(waiting))
  BY <1>1, FirstAndRest
<1>3. s \in Shards
  BY <1>1, NextShardOK
<1>4. /\ shards[s] \in Seq(Requests) /\ Len(shards[s]) <= RecordsPerShard
      /\ IsInjective(shards[s]) /\ h \notin Range(shards[s])
  BY <1>1, <1>2, <1>3, InStored DEF TracesInv, Typed, Once
<1>5. Len(shards[s]) \in 0..RecordsPerShard
  BY <1>1, <1>4
<1> HIDE DEF h
<1>6. /\ more \in Seq(Requests) /\ Len(more) = Len(shards[s]) + 1
      /\ Range(more) = Range(shards[s]) \cup {h} /\ IsInjective(more)
  BY <1>2, <1>4, OneMore
<1>7. records = Kept(more)
  BY DEF h
<1> HIDE DEF more
<1>8. /\ records \in Seq(Requests) /\ Range(records) \subseteq Range(more)
      /\ Len(records) = IF Len(more) > RecordsPerShard THEN RecordsPerShard ELSE Len(more)
      /\ Len(more) <= RecordsPerShard => records = more
      /\ IsInjective(records)
  BY <1>6, <1>7, KeptProperties
<1>9. /\ Len(records) = IF Len(shards[s]) = RecordsPerShard THEN RecordsPerShard ELSE Len(shards[s]) + 1
      /\ Len(shards[s]) # RecordsPerShard => records = more
  BY <1>1, <1>5, <1>6, <1>8
<1>10. QED
  BY <1>2, <1>3, <1>5, <1>6, <1>8, <1>9 DEF h

\* The shards are full, or the one written next is the first that is not.
LEMMA FillsNext ==
    ASSUME TracesInv, whole, NEW s, s = NextShard(manager)
    PROVE  \/ Full
           \/ /\ Len(shards[s]) # RecordsPerShard
              /\ \A t \in Shards : /\ t < s => Len(shards[t]) = RecordsPerShard
                                   /\ t > s => Len(shards[t]) = 0
<1> DEFINE c == manager.current
<1>1. /\ manager \in Managers /\ c \in Shards /\ c \in Nat /\ c < MaxShards /\ s \in Shards
      /\ manager.counts[c] = Len(shards[c])
      /\ \A t \in Shards : t \in Nat /\ t < MaxShards /\ Len(shards[t]) \in 0..RecordsPerShard
      /\ MaxShards \in Nat /\ RecordsPerShard \in Nat \ {0}
  <2>1. manager \in Managers /\ c \in Shards
    BY DEF TracesInv, Typed, Managers
  <2>2. \A t \in Shards : Len(shards[t]) \in Nat /\ Len(shards[t]) <= RecordsPerShard
    BY DEF TracesInv, Typed
  <2>3. s \in Shards /\ manager.counts[c] = Len(shards[c])
    BY <2>1, NextShardOK DEF TracesInv, Filling
  <2>4. \A t \in Shards : t \in Nat /\ t < MaxShards
    BY Constants
  <2>5. MaxShards \in Nat /\ RecordsPerShard \in Nat \ {0}
    BY Constants
  <2>6. \A t \in Shards : Len(shards[t]) \in 0..RecordsPerShard
    BY <2>2, <2>5
  <2> HIDE DEF c
  <2>7. QED
    BY <2>1, <2>3, <2>4, <2>5, <2>6
<1>2. /\ Len(shards[c]) # RecordsPerShard => s = c
      /\ Len(shards[c]) = RecordsPerShard => s = IF c + 1 = MaxShards THEN 0 ELSE c + 1
  <2>1. Len(shards[c]) \in 0..RecordsPerShard
    BY <1>1
  <2>2. QED
    BY <1>1, <2>1, NextShardOK
<1>3. CASE Full
  BY <1>3
<1>4. CASE \A t \in Shards : /\ t < c => Len(shards[t]) = RecordsPerShard
                             /\ t > c => Len(shards[t]) = 0
  <2>1. CASE Len(shards[c]) # RecordsPerShard
    BY <1>2, <1>4, <2>1
  <2>2. CASE Len(shards[c]) = RecordsPerShard /\ c + 1 = MaxShards
    <3>1. \A t \in Shards : t < c \/ t = c
      BY <1>1, <2>2
    <3>2. QED
      BY <1>4, <2>2, <3>1 DEF Full
  <2>3. CASE Len(shards[c]) = RecordsPerShard /\ c + 1 # MaxShards
    <3>1. s = c + 1
      BY <1>2, <2>3
    <3>2. \A t \in Shards : (t < s <=> t < c \/ t = c) /\ (t > s => t > c)
      BY <1>1, <3>1
    <3>3. s > c
      BY <1>1, <3>1
    <3> HIDE DEF c
    <3>4. Len(shards[s]) = 0
      BY <1>1, <1>4, <3>3
    <3>5. QED
      BY <1>1, <1>4, <2>3, <3>2, <3>4
  <2>4. QED
    BY <2>1, <2>2, <2>3
<1>5. QED
  BY <1>3, <1>4 DEF TracesInv, Filling

LEMMA SaveShardInv ==
    ASSUME TracesInv, SaveShard
    PROVE  TracesInv'
<1> DEFINE s == NextShard(manager)
           h == Head(waiting)
           records == Kept(Append(shards[s], h))
<1>1. /\ holder = Free /\ waiting # <<>>
      /\ shards' = [shards EXCEPT ![s] = records]
      /\ manager' = [manager EXCEPT !.current = s, !.counts[s] = Len(records)]
      /\ holder' = [Free EXCEPT !.task = "save"]
      /\ waiting' = Tail(waiting)
      /\ call' = call /\ phase' = phase /\ day' = day /\ counted' = counted /\ active' = active
      /\ meta' = meta /\ reader' = reader /\ today' = today /\ whole' = whole
  BY DEF SaveShard
<1>2. /\ s \in Shards /\ h \in Requests /\ h \in Range(waiting)
      /\ waiting' \in Seq(Requests) /\ IsInjective(waiting')
      /\ Range(waiting') \subseteq Range(waiting) /\ h \notin Range(waiting')
      /\ records \in Seq(Requests) /\ IsInjective(records)
      /\ Range(records) \subseteq Range(shards[s]) \cup {h}
      /\ Len(shards[s]) \in 0..RecordsPerShard
      /\ Len(records) = IF Len(shards[s]) = RecordsPerShard THEN RecordsPerShard
                        ELSE Len(shards[s]) + 1
  BY <1>1, WritesOne
<1>3. whole => \/ Full
               \/ /\ Len(shards[s]) # RecordsPerShard
                  /\ \A t \in Shards : /\ t < s => Len(shards[t]) = RecordsPerShard
                                       /\ t > s => Len(shards[t]) = 0
  BY FillsNext
<1> HIDE DEF s, h, records
<1>4. RecordsPerShard \in Nat \ {0} /\ Len(records) \in 0..RecordsPerShard
  BY <1>2, Constants
<1>5. /\ shards' \in [Shards -> Seq(Requests)] /\ shards'[s] = records
      /\ \A t \in Shards \ {s} : shards'[t] = shards[t]
      /\ \A t \in Shards : Len(shards'[t]) <= RecordsPerShard
  <2>1. shards \in [Shards -> Seq(Requests)] /\ \A t \in Shards : Len(shards[t]) <= RecordsPerShard
    BY DEF TracesInv, Typed
  <2>2. QED
    BY <1>1, <1>2, <1>4, <2>1
<1>6. /\ manager' \in Managers /\ manager'.current = s
      /\ \A t \in Shards : manager'.counts[t] = IF t = s THEN Len(records) ELSE manager.counts[t]
  <2>1. manager \in Managers
    BY DEF TracesInv, Typed
  <2>2. QED
    BY <1>1, <1>2, <1>4, <2>1 DEF Managers
<1>7. holder' \in [task : Tasks, step : 0 .. MaxShards, reset : BOOLEAN] /\ holder'.task = "save"
  <2>1. holder' = [task |-> "save", step |-> 0, reset |-> FALSE]
    BY <1>1 DEF Free
  <2>2. 0 \in 0..MaxShards /\ "save" \in Tasks
    BY Constants DEF Tasks
  <2>3. QED
    BY <2>1, <2>2
<1>8. Typed'
  BY <1>1, <1>2, <1>5, <1>6, <1>7 DEF TracesInv, Typed
<1>9. \A q : q \in Stored' => q \in Stored \/ q = h
  <2>1. \A q : q \in Stored' <=> \E t \in Shards : q \in Range(shards'[t])
    BY DEF Stored
  <2>2. QED
    BY <1>2, <1>5, <2>1, InStored
<1>10. phase[h] = "ended" /\ h \notin Stored /\ ~ Settled(h) /\ h \notin reader.must
  BY <1>2 DEF TracesInv, Once, Settled, Reading
<1>11. Once'
  <2>1. \A q \in Range(waiting') : phase'[q] = "ended" /\ q \notin Stored'
    BY <1>1, <1>2, <1>9 DEF TracesInv, Once
  <2>2. \A t \in Shards : IsInjective(shards'[t])
    BY <1>2, <1>5 DEF TracesInv, Once
  <2>3. \A t, u \in Shards : t # u => Range(shards'[t]) \cap Range(shards'[u]) = {}
    <3>1. \A t \in Shards : h \notin Range(shards[t])
      BY <1>10, InStored
    <3>2. \A t, u \in Shards : t # u => Range(shards[t]) \cap Range(shards[u]) = {}
      BY DEF TracesInv, Once
    <3>3. \A t \in Shards \ {s} : Range(shards'[t]) \cap Range(records) = {}
      BY <1>2, <1>5, <3>1, <3>2
    <3>4. SUFFICES ASSUME NEW t \in Shards, NEW u \in Shards, t # u
                   PROVE  Range(shards'[t]) \cap Range(shards'[u]) = {}
      OBVIOUS
    <3>5. CASE t = s
      <4>1. u \in Shards \ {s}
        BY <3>4, <3>5
      <4>2. Range(shards'[u]) \cap Range(records) = {}
        BY <3>3, <4>1
      <4>3. QED
        BY <1>5, <3>5, <4>2
    <3>6. CASE u = s
      <4>1. t \in Shards \ {s}
        BY <3>4, <3>6
      <4>2. Range(shards'[t]) \cap Range(records) = {}
        BY <3>3, <4>1
      <4>3. QED
        BY <1>5, <3>6, <4>2
    <3>7. CASE t # s /\ u # s
      BY <1>5, <3>2, <3>4, <3>7
    <3>8. QED
      BY <3>5, <3>6, <3>7
  <2>4. \A q \in Stored' : phase'[q] = "ended"
    BY <1>1, <1>9, <1>10 DEF TracesInv, Once
  <2>5. QED
    BY <1>2, <2>1, <2>2, <2>3, <2>4 DEF Once
<1>12. Counting'
  <2>1. ASSUME NEW q \in Stored' \cup Range(waiting'), InWindow(q)'
        PROVE  TraceOf(q)' \in today'
    <3>1. q \in Stored \cup Range(waiting) /\ InWindow(q) /\ TraceOf(q)' = TraceOf(q)
      BY <1>1, <1>2, <1>9, <2>1 DEF InWindow, TraceOf
    <3>2. QED
      BY <1>1, <3>1 DEF TracesInv, Counting
  <2>2. QED
    BY <1>1, <2>1 DEF TracesInv, Counting
<1>13. Passed'
  BY <1>7, Constants DEF Passed, Clearing
<1>14. Reading'
  <2>1. \A q \in reader.must : phase[q] = "ended" /\ q \notin Range(waiting')
    BY <1>2 DEF TracesInv, Reading
  <2>2. \A t \in Shards \ reader.skipped : t < reader.next => reader.must \cap Range(shards'[t]) \subseteq reader.got
    <3>1. \A t \in Shards : Range(shards'[t]) \subseteq Range(shards[t]) \cup {h}
      BY <1>2, <1>5
    <3>2. QED
      BY <1>10, <3>1 DEF TracesInv, Reading
  <2>3. QED
    BY <1>1, <2>1, <2>2 DEF Reading
<1>15. Filling'
  <2>1. SUFFICES ASSUME whole
                 PROVE  /\ \A t \in Shards : manager'.counts[t] = Len(shards'[t])
                        /\ \/ Full'
                           \/ \A t \in Shards : /\ t < s => Len(shards'[t]) = RecordsPerShard
                                                /\ t > s => Len(shards'[t]) = 0
    BY <1>1, <1>6, <1>7 DEF Filling
  <2>2. \A t \in Shards : manager'.counts[t] = Len(shards'[t])
    BY <1>5, <1>6, <2>1 DEF TracesInv, Filling
  <2>3. CASE Full
    <3>1. \A t \in Shards : Len(shards'[t]) = RecordsPerShard
      BY <1>2, <1>5, <2>3 DEF Full
    <3>2. QED
      BY <2>2, <3>1 DEF Full
  <2>4. CASE \A t \in Shards : /\ t < s => Len(shards[t]) = RecordsPerShard
                               /\ t > s => Len(shards[t]) = 0
    <3>1. \A t \in Shards : t \in Nat /\ s \in Nat
      BY <1>2, Constants
    <3>2. \A t \in Shards : t < s \/ t > s => t # s
      BY <3>1
    <3>3. QED
      BY <1>5, <2>2, <2>4, <3>2
  <2>5. QED
    BY <1>3, <2>1, <2>3, <2>4
<1>16. QED
  BY <1>8, <1>11, <1>12, <1>13, <1>14, <1>15 DEF TracesInv


LEMMA SaveMetaInv ==
    ASSUME TracesInv, SaveMeta
    PROVE  TracesInv'
<1>1. /\ meta' = manager /\ holder' = Free
      /\ call' = call /\ phase' = phase /\ day' = day /\ counted' = counted /\ active' = active
      /\ waiting' = waiting /\ shards' = shards /\ manager' = manager
      /\ reader' = reader /\ today' = today /\ whole' = whole
  BY DEF SaveMeta
<1>2. holder' \in [task : Tasks, step : 0 .. MaxShards, reset : BOOLEAN] /\ holder'.task = Nobody
  BY <1>1, Constants DEF Free, Tasks
<1>3. Typed'
  BY <1>1, <1>2 DEF TracesInv, Typed
<1>4. Once' /\ Counting' /\ Reading'
  BY <1>1 DEF TracesInv, Once, Counting, Reading, Stored, InWindow, TraceOf
<1>5. Passed'
  BY <1>2, Constants DEF Passed, Clearing
<1>6. Filling'
  BY <1>1, <1>2 DEF TracesInv, Filling, Full
<1>7. QED
  BY <1>3, <1>4, <1>5, <1>6 DEF TracesInv

LEMMA SaveFailsInv ==
    ASSUME TracesInv, SaveFails
    PROVE  TracesInv'
<1>1. /\ whole' = FALSE
      /\ call' = call /\ phase' = phase /\ day' = day /\ counted' = counted /\ active' = active
      /\ shards' = shards /\ meta' = meta /\ reader' = reader /\ today' = today
  BY DEF SaveFails
<1>2. \/ /\ holder = Free /\ waiting # <<>>
         /\ manager' = [manager EXCEPT !.current = NextShard(manager)]
         /\ waiting' = Tail(waiting) /\ holder' = holder
      \/ holder' = Free /\ manager' = manager /\ waiting' = waiting
  BY DEF SaveFails
<1>3. /\ waiting' \in Seq(Requests) /\ IsInjective(waiting')
      /\ Range(waiting') \subseteq Range(waiting)
  <2>1. /\ waiting \in Seq(Requests) /\ IsInjective(waiting)
    BY DEF TracesInv, Typed, Once
  <2>2. CASE waiting' = waiting
    BY <2>1, <2>2
  <2>3. CASE waiting # <<>> /\ waiting' = Tail(waiting)
    BY <2>1, <2>3, FirstAndRest
  <2>4. QED
    BY <1>2, <2>2, <2>3
<1>4. manager' \in Managers
  <2>1. manager \in Managers
    BY DEF TracesInv, Typed
  <2>2. [manager EXCEPT !.current = NextShard(manager)] \in Managers
    BY <2>1, NextShardOK DEF Managers
  <2>3. QED
    BY <1>2, <2>1, <2>2
<1>5. holder' = Free
  BY <1>2
<1>6. holder' \in [task : Tasks, step : 0 .. MaxShards, reset : BOOLEAN] /\ holder'.task = Nobody
  BY <1>5, Constants DEF Free, Tasks
<1>7. Typed'
  BY <1>1, <1>3, <1>4, <1>6 DEF TracesInv, Typed
<1>8. Stored' = Stored
  BY <1>1 DEF Stored
<1>9. Once'
  BY <1>1, <1>3, <1>8 DEF TracesInv, Once
<1>10. Reading'
  BY <1>1, <1>3 DEF TracesInv, Reading
<1>11. Counting'
  BY <1>1, <1>3, <1>8 DEF TracesInv, Counting, InWindow, TraceOf
<1>12. Passed' /\ Filling'
  BY <1>1, <1>6, Constants DEF Passed, Clearing, Filling
<1>13. QED
  BY <1>7, <1>9, <1>10, <1>11, <1>12 DEF TracesInv

LEMMA ResetInv ==
    ASSUME TracesInv, NEW k \in Keys \cup {All}, Reset(k)
    PROVE  TracesInv'
<1>1. /\ counted' = {x \in counted : ~ Of(k, x)}
      /\ today' = {x \in today : x.n = 0 \/ ~ Of(k, x)}
      /\ holder' = [task |-> k, step |-> 0, reset |-> TRUE]
      /\ whole' = FALSE
      /\ call' = call /\ phase' = phase /\ day' = day /\ active' = active
      /\ waiting' = waiting /\ shards' = shards /\ manager' = manager /\ meta' = meta
      /\ reader' = reader
  BY DEF Reset
<1>2. holder' \in [task : Tasks, step : 0 .. MaxShards, reset : BOOLEAN] /\ holder'.step = 0
  BY <1>1, Constants DEF Tasks
<1>3. Typed'
  <2>1. today' \subseteq Items /\ IsFiniteSet(today')
    BY <1>1, FS_Subset DEF TracesInv, Typed
  <2>2. QED
    BY <1>1, <1>2, <2>1 DEF TracesInv, Typed
<1>4. Once' /\ Reading'
  BY <1>1 DEF TracesInv, Once, Reading, Stored
<1>5. Counting'
  <2>1. counted' \subseteq today' /\ \A x \in counted' : x.n > 0
    BY <1>1 DEF TracesInv, Counting
  <2>2. \A q : TraceOf(q)' = TraceOf(q) /\ TraceOf(q).n = 0 /\ InWindow(q)' = InWindow(q)
    BY <1>1 DEF TraceOf, InWindow
  <2>3. QED
    BY <1>1, <2>1, <2>2 DEF TracesInv, Counting, Stored
<1>6. Passed'
  <2>1. \A s \in Shards : ~ (s < 0)
    BY Constants
  <2>2. QED
    BY <1>2, <2>1 DEF Passed
<1>7. Filling'
  BY <1>1 DEF Filling
<1>8. QED
  BY <1>3, <1>4, <1>5, <1>6, <1>7 DEF TracesInv

LEMMA ClearInv ==
    ASSUME TracesInv, Clear
    PROVE  TracesInv'
<1>1. /\ holder' = [Free EXCEPT !.task = All] /\ whole' = FALSE
      /\ call' = call /\ phase' = phase /\ day' = day /\ counted' = counted /\ active' = active
      /\ waiting' = waiting /\ shards' = shards /\ manager' = manager /\ meta' = meta
      /\ reader' = reader /\ today' = today
  BY DEF Clear
<1>2. holder' \in [task : Tasks, step : 0 .. MaxShards, reset : BOOLEAN] /\ holder'.step = 0
  <2>1. holder' = [task |-> All, step |-> 0, reset |-> FALSE]
    BY <1>1 DEF Free
  <2>2. 0 \in 0..MaxShards /\ All \in Tasks
    BY Constants DEF Tasks
  <2>3. QED
    BY <2>1, <2>2
<1>3. Typed'
  BY <1>1, <1>2 DEF TracesInv, Typed
<1>4. Once' /\ Reading' /\ Counting'
  BY <1>1 DEF TracesInv, Once, Reading, Counting, Stored, InWindow, TraceOf
<1>5. Passed'
  <2>1. \A s \in Shards : ~ (s < 0)
    BY Constants
  <2>2. QED
    BY <1>2, <2>1 DEF Passed
<1>6. Filling'
  BY <1>1 DEF Filling
<1>7. QED
  BY <1>3, <1>4, <1>5, <1>6 DEF TracesInv

LEMMA ClearShardInv ==
    ASSUME TracesInv, ClearShard
    PROVE  TracesInv'
<1> DEFINE s == holder.step
           others == {r \in Requests : ~Of(holder.task, call[r])}
           left == Sublist(shards[s], others)
<1>1. /\ Clearing /\ s < MaxShards
      /\ shards' = [shards EXCEPT ![s] = left]
      /\ manager' = IF left = shards[s] \/ holder.task = All THEN manager
                    ELSE [manager EXCEPT !.counts[s] = Len(left)]
      /\ holder' = [holder EXCEPT !.step = @ + 1]
      /\ call' = call /\ phase' = phase /\ day' = day /\ counted' = counted /\ active' = active
      /\ waiting' = waiting /\ meta' = meta /\ reader' = reader /\ today' = today /\ whole' = whole
  BY DEF ClearShard
<1>2. /\ holder \in [task : Tasks, step : 0 .. MaxShards, reset : BOOLEAN]
      /\ shards \in [Shards -> Seq(Requests)] /\ manager \in Managers
      /\ \A t \in Shards : Len(shards[t]) <= RecordsPerShard /\ IsInjective(shards[t])
  BY DEF TracesInv, Typed, Once
<1>3. s \in Shards /\ s \in Nat /\ s + 1 \in 0..MaxShards
  BY <1>1, <1>2, Constants DEF Shards
<1>4. /\ left \in Seq(Requests) /\ IsInjective(left) /\ Len(left) <= Len(shards[s])
      /\ Range(left) = Range(shards[s]) \cap others
  BY <1>2, <1>3, SublistProperties
<1> HIDE DEF s, left
<1>5. Len(left) \in 0..RecordsPerShard
  <2>1. Len(left) \in Nat /\ Len(shards[s]) \in Nat /\ RecordsPerShard \in Nat
    BY <1>2, <1>3, <1>4, Constants
  <2>2. QED
    BY <1>2, <1>3, <1>4, <2>1
<1>6. /\ shards' \in [Shards -> Seq(Requests)] /\ shards'[s] = left
      /\ \A t \in Shards \ {s} : shards'[t] = shards[t]
      /\ \A t \in Shards : Len(shards'[t]) <= RecordsPerShard
  BY <1>1, <1>2, <1>3, <1>4, <1>5
<1>7. manager' \in Managers
  <2>1. [manager EXCEPT !.counts[s] = Len(left)] \in Managers
    BY <1>2, <1>3, <1>5 DEF Managers
  <2>2. QED
    BY <1>1, <1>2, <2>1
<1>8. /\ holder' \in [task : Tasks, step : 0 .. MaxShards, reset : BOOLEAN]
      /\ holder'.task = holder.task /\ holder'.step = s + 1
  BY <1>1, <1>2, <1>3 DEF s
<1>9. Typed'
  BY <1>1, <1>6, <1>7, <1>8 DEF TracesInv, Typed
<1>10. /\ \A t \in Shards : Range(shards'[t]) \subseteq Range(shards[t])
       /\ \A q : q \in Stored' => q \in Stored
  <2>1. \A t \in Shards : Range(shards'[t]) \subseteq Range(shards[t])
    BY <1>4, <1>6
  <2>2. \A q : q \in Stored' <=> \E t \in Shards : q \in Range(shards'[t])
    BY DEF Stored
  <2>3. QED
    BY <2>1, <2>2, InStored
<1>11. Once'
  <2>1. \A t \in Shards : IsInjective(shards'[t])
    BY <1>2, <1>4, <1>6
  <2>2. \A t, u \in Shards : t # u => Range(shards'[t]) \cap Range(shards'[u]) = {}
    BY <1>10 DEF TracesInv, Once
  <2>3. QED
    BY <1>1, <1>10, <2>1, <2>2 DEF TracesInv, Once
<1>12. Counting'
  BY <1>1, <1>10 DEF TracesInv, Counting, InWindow, TraceOf
<1>13. Passed'
  <2>1. SUFFICES ASSUME NEW t \in Shards, t < s + 1, NEW q \in Range(shards'[t])
                 PROVE  ~ Of(holder.task, call[q])
    BY <1>1, <1>8 DEF Passed
  <2>2. CASE t = s
    BY <1>4, <1>6, <2>1, <2>2
  <2>3. CASE t # s
    <3>1. t < s
      BY <1>3, <2>1, <2>3, Constants
    <3>2. q \in Range(shards[t])
      BY <1>10, <2>1
    <3>3. QED
      BY <1>1, <3>1, <3>2 DEF TracesInv, Passed, s
  <2>4. QED
    BY <2>2, <2>3
<1>14. Reading'
  BY <1>1, <1>10 DEF TracesInv, Reading
<1>15. Filling'
  BY <1>1, Constants DEF TracesInv, Filling, Clearing
<1>16. QED
  BY <1>9, <1>11, <1>12, <1>13, <1>14, <1>15 DEF TracesInv

LEMMA ClearMetaInv ==
    ASSUME TracesInv, ClearMeta
    PROVE  TracesInv'
<1>1. /\ Clearing /\ holder.step = MaxShards
      /\ manager' = IF holder.task = All THEN NewManager ELSE manager
      /\ meta' = manager'
      /\ today' = IF holder.reset
                  THEN {x \in today : x.n > 0 \/ ~Settled(x.req) \/ ~Of(holder.task, x)} ELSE today
      /\ holder' = Free
      /\ call' = call /\ phase' = phase /\ day' = day /\ counted' = counted /\ active' = active
      /\ waiting' = waiting /\ shards' = shards /\ reader' = reader /\ whole' = whole
  BY DEF ClearMeta
<1>2. holder' \in [task : Tasks, step : 0 .. MaxShards, reset : BOOLEAN] /\ holder'.task = Nobody
  BY <1>1, Constants DEF Free, Tasks
<1>3. manager' \in Managers
  <2>1. NewManager \in Managers
    <3>1. 0 \in Shards /\ 0 \in 0..RecordsPerShard
      BY Constants
    <3>2. QED
      BY <3>1 DEF NewManager, Managers
  <2>2. QED
    BY <1>1, <2>1 DEF TracesInv, Typed
<1>4. Typed'
  <2>1. today' \subseteq Items /\ IsFiniteSet(today')
    BY <1>1, FS_Subset DEF TracesInv, Typed
  <2>2. QED
    BY <1>1, <1>2, <1>3, <2>1 DEF TracesInv, Typed
<1>5. Once' /\ Reading'
  BY <1>1 DEF TracesInv, Once, Reading, Stored
<1>6. Counting'
  <2>1. counted' \subseteq today' /\ \A x \in counted' : x.n > 0
    BY <1>1 DEF TracesInv, Counting
  <2>2. ASSUME NEW q \in Stored \cup Range(waiting), InWindow(q)
        PROVE  TraceOf(q) \in today'
    <3>1. TraceOf(q) \in today /\ TraceOf(q).req = q /\ TraceOf(q).key = call[q].key
      BY <2>2 DEF TracesInv, Counting, TraceOf
    <3>2. q \in Range(waiting) => ~Settled(q)
      BY DEF Settled
    <3>3. q \in Stored => ~Of(holder.task, call[q])
      BY <1>1, InStored, Constants DEF TracesInv, Passed
    <3>4. QED
      BY <1>1, <2>2, <3>1, <3>2, <3>3 DEF Of
  <2>3. QED
    BY <1>1, <2>1, <2>2 DEF TracesInv, Counting, InWindow, TraceOf, Stored
<1>7. Passed'
  BY <1>2, Constants DEF Passed, Clearing
<1>8. Filling'
  BY <1>1, Constants DEF TracesInv, Filling, Clearing
<1>9. QED
  BY <1>4, <1>5, <1>6, <1>7, <1>8 DEF TracesInv


\* A step of the reader leaves what is not said of it as it was.
LEMMA ReaderAlone ==
    ASSUME TracesInv,
           UNCHANGED <<call, phase, day, counted, active, waiting, storeVars, today, whole>>
    PROVE  Once' /\ Counting' /\ Passed' /\ Filling'
<1>1. /\ call' = call /\ phase' = phase /\ day' = day /\ counted' = counted
      /\ waiting' = waiting /\ holder' = holder /\ shards' = shards /\ manager' = manager
      /\ today' = today /\ whole' = whole
  BY DEF storeVars
<1>2. Once'
  BY <1>1 DEF TracesInv, Once, Stored
<1>3. Counting'
  BY <1>1 DEF TracesInv, Counting, Stored, InWindow, TraceOf
<1>4. Passed'
  BY <1>1 DEF TracesInv, Passed, Clearing, Of
<1>5. Filling'
  BY <1>1 DEF TracesInv, Filling, Full
<1>6. QED
  BY <1>2, <1>3, <1>4, <1>5

LEMMA ReadBeginsInv ==
    ASSUME TracesInv, ReadBegins
    PROVE  TracesInv'
<1>1. /\ reader' = [next |-> 0, got |-> {}, must |-> Stored, skipped |-> {}]
      /\ call' = call /\ phase' = phase /\ day' = day /\ counted' = counted /\ active' = active
      /\ waiting' = waiting /\ holder' = holder /\ shards' = shards /\ manager' = manager
      /\ meta' = meta /\ today' = today /\ whole' = whole
  BY DEF ReadBegins, NoReader, storeVars
<1>2. Stored \subseteq Requests
  BY InStored DEF TracesInv, Typed, Range
<1>3. Typed'
  BY <1>1, <1>2, Constants DEF TracesInv, Typed, Readers
<1>4. Once' /\ Counting' /\ Passed' /\ Filling'
  BY ReaderAlone DEF ReadBegins
<1>5. Reading'
  <2>1. \A s \in Shards : ~ (s < 0)
    BY Constants
  <2>2. QED
    BY <1>1, <2>1 DEF TracesInv, Once, Reading
<1>6. QED
  BY <1>3, <1>4, <1>5 DEF TracesInv

LEMMA ReadShardInv ==
    ASSUME TracesInv, ReadShard
    PROVE  TracesInv'
<1> DEFINE n == reader.next
<1>1. /\ n < MaxShards
      /\ reader' = [reader EXCEPT !.next = n + 1,
                       !.got = IF n \in Shards THEN reader.got \cup Range(shards[n]) ELSE reader.got]
      /\ call' = call /\ phase' = phase /\ day' = day /\ counted' = counted /\ active' = active
      /\ waiting' = waiting /\ holder' = holder /\ shards' = shards /\ manager' = manager
      /\ meta' = meta /\ today' = today /\ whole' = whole
  BY DEF ReadShard, ReadShards, storeVars
<1>2. /\ reader \in Readers
      /\ \A s \in Shards : Range(shards[s]) \subseteq Requests
  BY DEF TracesInv, Typed, Range
<1>3. n \in Shards /\ n \in Nat /\ n + 1 \in 0..MaxShards
  BY <1>1, <1>2, Constants DEF Shards, Readers
<1>4. /\ reader'.next = n + 1 /\ reader'.got = reader.got \cup Range(shards[n])
      /\ reader'.must = reader.must /\ reader'.skipped = reader.skipped
      /\ reader' \in Readers
  <2> HIDE DEF n
  <2>1. QED
    BY <1>1, <1>2, <1>3 DEF Readers
<1>5. Typed'
  BY <1>1, <1>4 DEF TracesInv, Typed
<1>6. Once' /\ Counting' /\ Passed' /\ Filling'
  BY ReaderAlone DEF ReadShard
<1>7. Reading'
  <2>1. ASSUME NEW s \in Shards \ reader.skipped, s < n + 1
        PROVE  reader.must \cap Range(shards[s]) \subseteq reader.got \cup Range(shards[n])
    <3>1. s = n \/ s < n
      BY <1>3, <2>1, Constants
    <3>2. QED
      BY <3>1 DEF TracesInv, Reading
  <2>2. QED
    BY <1>1, <1>4, <2>1 DEF TracesInv, Reading
<1>8. QED
  BY <1>5, <1>6, <1>7 DEF TracesInv

LEMMA ReadFailsInv ==
    ASSUME TracesInv, ReadFails
    PROVE  TracesInv'
<1> DEFINE n == reader.next
<1>1. /\ n < MaxShards
      /\ reader' = [reader EXCEPT !.next = n + 1, !.skipped = reader.skipped \cup {n}]
      /\ call' = call /\ phase' = phase /\ day' = day /\ counted' = counted /\ active' = active
      /\ waiting' = waiting /\ holder' = holder /\ shards' = shards /\ manager' = manager
      /\ meta' = meta /\ today' = today /\ whole' = whole
  BY DEF ReadFails, storeVars
<1>2. reader \in Readers
  BY DEF TracesInv, Typed
<1>3. n \in Shards /\ n \in Nat /\ n + 1 \in 0..MaxShards
  BY <1>1, <1>2, Constants DEF Shards, Readers
<1>4. /\ reader'.next = n + 1 /\ reader'.got = reader.got
      /\ reader'.must = reader.must /\ reader'.skipped = reader.skipped \cup {n}
      /\ reader' \in Readers
  <2> HIDE DEF n
  <2>1. QED
    BY <1>1, <1>2, <1>3 DEF Readers
<1>5. Typed'
  BY <1>1, <1>4 DEF TracesInv, Typed
<1>6. Once' /\ Counting' /\ Passed' /\ Filling'
  BY ReaderAlone DEF ReadFails
<1>7. Reading'
  <2>1. ASSUME NEW s \in Shards \ reader'.skipped, s < n + 1
        PROVE  reader.must \cap Range(shards[s]) \subseteq reader.got
    <3>1. s \in Shards \ reader.skipped /\ s < n
      BY <1>3, <1>4, <2>1, Constants
    <3>2. QED
      BY <3>1 DEF TracesInv, Reading
  <2>2. QED
    BY <1>1, <1>4, <2>1 DEF TracesInv, Reading
<1>8. QED
  BY <1>5, <1>6, <1>7 DEF TracesInv

LEMMA ReadEndsInv ==
    ASSUME TracesInv, ReadEnds
    PROVE  TracesInv'
<1>1. /\ reader' = [next |-> MaxShards, got |-> {}, must |-> {}, skipped |-> {}]
      /\ call' = call /\ phase' = phase /\ day' = day /\ counted' = counted /\ active' = active
      /\ waiting' = waiting /\ holder' = holder /\ shards' = shards /\ manager' = manager
      /\ meta' = meta /\ today' = today /\ whole' = whole
  BY DEF ReadEnds, NoReader, storeVars
<1>2. Typed'
  BY <1>1, Constants DEF TracesInv, Typed, Readers
<1>3. Once' /\ Counting' /\ Passed' /\ Filling'
  BY ReaderAlone DEF ReadEnds
<1>4. Reading'
  BY <1>1 DEF Reading
<1>5. QED
  BY <1>2, <1>3, <1>4 DEF TracesInv

LEMMA NewDayInv ==
    ASSUME TracesInv, NewDay
    PROVE  TracesInv'
<1>1. /\ day' = day + 1 /\ counted' = {} /\ today' = {}
      /\ call' = call /\ phase' = phase /\ active' = active
      /\ waiting' = waiting /\ holder' = holder /\ shards' = shards /\ manager' = manager
      /\ meta' = meta /\ reader' = reader /\ whole' = whole
  BY DEF NewDay, storeVars
<1>2. day \in Nat /\ day' \in Nat
  BY <1>1 DEF TracesInv, Typed
<1>3. Typed'
  BY <1>1, <1>2, FS_EmptySet DEF TracesInv, Typed
<1>4. Once' /\ Reading' /\ Passed' /\ Filling'
  <2>1. Once' /\ Reading'
    BY <1>1 DEF TracesInv, Once, Reading, Stored
  <2>2. Passed'
    BY <1>1 DEF TracesInv, Passed, Clearing
  <2>3. Filling'
    BY <1>1 DEF TracesInv, Filling, Full
  <2>4. QED
    BY <2>1, <2>2, <2>3
<1>5. Counting'
  <2>1. ASSUME NEW q \in Requests
        PROVE  call'[q].day <= day' /\ ~ InWindow(q)'
    <3>1. call'[q] = call[q] /\ call[q].day <= day /\ call[q].day \in Int
      BY <1>1 DEF TracesInv, Typed, Counting, Calls, Unrecorded
    <3>2. QED
      BY <1>1, <1>2, <3>1 DEF InWindow
  <2>2. (Stored \cup Range(waiting))' \subseteq Requests
    BY <1>1, InStored DEF TracesInv, Typed, Range, Stored
  <2>3. QED
    BY <1>1, <2>1, <2>2 DEF Counting
<1>6. QED
  BY <1>3, <1>4, <1>5 DEF TracesInv

LEMMA CrashInv ==
    ASSUME TracesInv, Crash
    PROVE  TracesInv'
<1>1. /\ whole' = FALSE /\ counted' \in SUBSET counted
      /\ active' = {} /\ waiting' = <<>> /\ holder' = Free
      /\ manager' = meta
      /\ reader' = [next |-> MaxShards, got |-> {}, must |-> {}, skipped |-> {}]
      /\ phase' = [r \in Requests |-> IF UnderWay(r) THEN "left" ELSE phase[r]]
      /\ call' = call /\ day' = day /\ shards' = shards /\ meta' = meta /\ today' = today
  BY DEF Crash, NoReader
<1>2. /\ phase \in [Requests -> Phases] /\ phase' \in [Requests -> Phases]
      /\ \A q \in Requests : phase[q] \in {"new", "ended", "left"} => phase'[q] = phase[q]
      /\ \A q \in Requests : phase[q] \in {"trying", "called", "streaming"} => phase'[q] = "left"
  BY <1>1 DEF TracesInv, Typed, Phases, UnderWay
<1>3. <<>> \in Seq(Requests) /\ IsInjective(<<>>) /\ Range(<<>>) = {}
  BY DEF IsInjective, Range
<1>4. holder' \in [task : Tasks, step : 0 .. MaxShards, reset : BOOLEAN] /\ holder'.task = Nobody
  BY <1>1, Constants DEF Free, Tasks
<1>5. Typed'
  <2>1. reader' \in Readers
    BY <1>1, Constants DEF Readers
  <2>2. active' \subseteq Requests /\ waiting' \in Seq(Requests)
    BY <1>1, <1>3
  <2>3. \A q \in Requests : phase'[q] # "new" => call'[q].model \in Models
    BY <1>1, <1>2 DEF TracesInv, Typed, Phases
  <2>4. QED
    BY <1>1, <1>2, <1>4, <2>1, <2>2, <2>3 DEF TracesInv, Typed
<1>6. Stored' = Stored /\ Stored \subseteq Requests
  BY <1>1, InStored DEF Stored, TracesInv, Typed, Range
<1>7. Once'
  <2>1. \A q \in Stored : phase'[q] = "ended"
    BY <1>2, <1>6 DEF TracesInv, Once
  <2>2. QED
    BY <1>1, <1>3, <1>6, <2>1 DEF TracesInv, Once
<1>8. Reading'
  BY <1>1 DEF Reading
<1>9. Counting'
  BY <1>1, <1>3, <1>6 DEF TracesInv, Counting, InWindow, TraceOf
<1>10. Passed'
  BY <1>4, Constants DEF Passed, Clearing
<1>11. Filling'
  BY <1>1 DEF Filling
<1>12. QED
  BY <1>5, <1>7, <1>8, <1>9, <1>10, <1>11 DEF TracesInv

LEMMA StutterInv ==
    ASSUME TracesInv, UNCHANGED vars
    PROVE  TracesInv'
<1>1. /\ call' = call /\ phase' = phase /\ day' = day /\ counted' = counted /\ active' = active
      /\ waiting' = waiting /\ holder' = holder /\ shards' = shards /\ manager' = manager
      /\ meta' = meta /\ reader' = reader /\ today' = today /\ whole' = whole
  BY DEF vars, storeVars
<1>2. QED
  BY <1>1 DEF TracesInv, Typed, Once, Counting, Passed, Reading, Filling, Full, Stored, InWindow,
              TraceOf, Clearing

LEMMA NextInv ==
    ASSUME TracesInv, [Next]_vars
    PROVE  TracesInv'
<1>1. CASE \E r \in Requests : RequestStep(r)
  BY <1>1, RaiseInv, CallInv, EndInv, LeaveInv DEF RequestStep
<1>2. CASE SaveStep
  BY <1>2, SaveShardInv, SaveMetaInv DEF SaveStep
<1>3. CASE SaveFails
  BY <1>3, SaveFailsInv
<1>4. CASE AdminStep
  BY <1>4, ResetInv, ClearInv, ClearShardInv, ClearMetaInv DEF AdminStep
<1>5. CASE ReadStep
  BY <1>5, ReadBeginsInv, ReadShardInv, ReadFailsInv, ReadEndsInv DEF ReadStep
<1>6. CASE NewDay
  BY <1>6, NewDayInv
<1>7. CASE Crash
  BY <1>7, CrashInv
<1>8. CASE UNCHANGED vars
  BY <1>8, StutterInv
<1>9. QED
  BY <1>1, <1>2, <1>3, <1>4, <1>5, <1>6, <1>7, <1>8 DEF Next

LEMMA TracesInvariant == Spec => []TracesInv
<1>1. Init => TracesInv
  BY InitInv
<1>2. TracesInv /\ [Next]_vars => TracesInv'
  BY NextInv
<1>3. QED
  BY <1>1, <1>2, PTL DEF Spec

-----------------------------------------------------------------------------
(* Theorems                                                                  *)

\* Every variable has its type: no shard holds more than it may, and the
\* manager never points beyond the shards.
THEOREM TracesTypeCorrect == Spec => []TypeOK
<1>1. TracesInv => TypeOK
  <2>1. TracesInv => active \subseteq Requests /\ counted \cup today \subseteq Items /\ Range(waiting) \subseteq Requests
    BY DEF TracesInv, Typed, Counting, Range
  <2>2. TracesInv => \A s \in Shards : Len(shards[s]) <= RecordsPerShard /\ Range(shards[s]) \subseteq Requests
    BY DEF TracesInv, Typed, Range
  <2>3. TracesInv => holder \in [task : {Nobody, "save", All} \cup Keys, step : 0 .. MaxShards, reset : BOOLEAN]
    BY DEF TracesInv, Typed, Tasks
  <2>4. TracesInv => {manager, meta} \subseteq [current : Shards, counts : [Shards -> 0 .. RecordsPerShard]]
    BY DEF TracesInv, Typed, Managers
  <2>5. TracesInv => reader.next \in 0 .. MaxShards /\ reader.skipped \subseteq Shards
    BY DEF TracesInv, Typed, Readers
  <2>6. QED
    BY <2>1, <2>2, <2>3, <2>4, <2>5 DEF TypeOK, Items
<1>2. QED
  BY <1>1, TracesInvariant, PTL

\* The statistics miss no trace that was stored when their computation began
\* and still is, unless its shard could not be read (_load_all_traces).
THEOREM StatisticsAreComplete == Spec => []StatsMissNothing
<1>1. TracesInv => StatsMissNothing
  <2>1. SUFFICES ASSUME TracesInv, reader.next = MaxShards, NEW q \in reader.must, q \in Stored
                 PROVE  q \in reader.got \cup UNION {Range(shards[s]) : s \in reader.skipped}
    BY DEF StatsMissNothing
  <2>2. PICK s \in Shards : q \in Range(shards[s])
    BY <2>1, InStored
  <2>3. s < reader.next
    BY <2>1, Constants
  <2>4. QED
    BY <2>1, <2>2, <2>3 DEF TracesInv, Reading
<1>2. QED
  BY <1>1, TracesInvariant, PTL


\* As many elements as the list is long, if none is repeated.
LEMMA ElementsOfAList ==
    ASSUME NEW A, NEW list \in Seq(A), IsInjective(list)
    PROVE  IsFiniteSet(Range(list)) /\ Cardinality(Range(list)) = Len(list)
<1> DEFINE n == Len(list)
           S == 1..n
           T == Range(list)
<1>1. n \in Nat /\ DOMAIN list = S /\ list \in [S -> A]
  OBVIOUS
<1>2. list \in [S -> T] /\ \A t \in T : \E i \in S : list[i] = t
  BY <1>1 DEF Range
<1>3. list \in Surjection(S, T)
  BY <1>2 DEF Surjection
<1>4. list \in Injection(S, T)
  BY <1>1, <1>2 DEF Injection, IsInjective
<1>5. IsFiniteSet(S) /\ Cardinality(S) = n
  BY <1>1, FS_Interval
<1> HIDE DEF S, T, n
<1>6. IsFiniteSet(T) /\ (Cardinality(T) = Cardinality(S) <=> list \in Injection(S, T))
  BY <1>3, <1>5, FS_Surjection
<1>7. QED
  BY <1>4, <1>5, <1>6 DEF T, n

\* Shards that are full hold as many traces as there is room for.
LEMMA FullHoldsAll ==
    ASSUME TracesInv, Full
    PROVE  Cardinality(Stored) = MaxShards * RecordsPerShard
<1> DEFINE R == RecordsPerShard
           First(n) == UNION {Range(shards[s]) : s \in 0 .. n - 1}
           T == {n \in 0 .. MaxShards : IsFiniteSet(First(n)) /\ Cardinality(First(n)) = n * R}
<1>1. MaxShards \in Nat /\ R \in Nat /\ Shards = 0 .. MaxShards - 1
  BY Constants DEF Shards
<1>2. 0 \in T
  <2>1. First(0) = {}
    OBVIOUS
  <2>2. IsFiniteSet({}) /\ Cardinality({}) = 0 /\ 0 * R = 0 /\ 0 \in 0 .. MaxShards
    BY <1>1, FS_EmptySet
  <2> HIDE DEF First
  <2>3. QED
    BY <2>1, <2>2
<1>3. ASSUME NEW n \in 1 .. MaxShards, n - 1 \in T
      PROVE  n \in T
  <2> DEFINE last == Range(shards[n - 1])
  <2>1. n - 1 \in Shards /\ \A s \in 0 .. (n - 1) - 1 : s \in Shards /\ s # n - 1
    BY <1>1
  <2>2. IsFiniteSet(last) /\ Cardinality(last) = R
    <3>1. /\ shards[n - 1] \in Seq(Requests) /\ IsInjective(shards[n - 1])
          /\ Len(shards[n - 1]) = R
      BY <2>1 DEF TracesInv, Typed, Once, Full
    <3>2. QED
      BY <3>1, ElementsOfAList
  <2>3. First(n) = First(n - 1) \cup last
    <3>1. \A s : s \in 0 .. n - 1 <=> s \in 0 .. (n - 1) - 1 \/ s = n - 1
      BY <1>1
    <3>2. QED
      BY <3>1
  <2>4. First(n - 1) \cap last = {}
    BY <2>1 DEF TracesInv, Once
  <2>5. IsFiniteSet(First(n - 1)) /\ Cardinality(First(n - 1)) = (n - 1) * R
    BY <1>3
  <2> HIDE DEF First, last
  <2>6. /\ IsFiniteSet(First(n - 1) \cup last)
        /\ Cardinality(First(n - 1) \cup last) =
              Cardinality(First(n - 1)) + Cardinality(last) - Cardinality(First(n - 1) \cap last)
    BY <2>2, <2>5, FS_Union
  <2>7. Cardinality({}) = 0
    BY FS_EmptySet
  <2> DEFINE before == (n - 1) * R
             all == n * R
  <2>8. before + R = all /\ before \in Nat /\ n \in 0 .. MaxShards
    BY <1>1
  <2>9. Cardinality(First(n - 1)) = before
    BY <2>5
  <2> HIDE DEF before, all, R
  <2>10. Cardinality(First(n)) = all
    <3>1. Cardinality(First(n)) = before + R - 0
      BY <2>2, <2>3, <2>4, <2>6, <2>7, <2>9
    <3>2. QED
      BY <1>1, <2>8, <3>1
  <2>11. IsFiniteSet(First(n)) /\ Cardinality(First(n)) = n * R
    BY <2>3, <2>6, <2>10 DEF all
  <2>12. QED
    BY <2>8, <2>11
<1>4. MaxShards \in T
  <2> HIDE DEF T
  <2>1. 0 .. MaxShards \subseteq T
    BY <1>1, <1>2, <1>3, UpTo
  <2>2. QED
    BY <1>1, <2>1
<1>5. First(MaxShards) = Stored
  BY <1>1 DEF Stored
<1>6. QED
  BY <1>4, <1>5

\* Without a failure or a clear a trace leaves the shards only when they are
\* all full, and then as many are stored as there is room for
\* (get_next_write_shard).
THEOREM TracesMakeRoom == Spec => DroppedOnlyWhenFull
<1>1. ASSUME TracesInv, [Next]_vars, whole', ~ (Stored \subseteq Stored')
      PROVE  Cardinality(Stored) = MaxShards * RecordsPerShard
  <2>1. shards' # shards
    BY <1>1 DEF Stored
  <2>2. SaveShard \/ ClearShard
    <3>1. Next
      BY <1>1, <2>1 DEF vars, storeVars
    <3>2. \A r \in Requests : RequestStep(r) => shards' = shards
      BY DEF RequestStep, Raise, Call, End, Leave, storeVars
    <3>3. SaveMeta \/ SaveFails => shards' = shards
      BY DEF SaveMeta, SaveFails
    <3>4. (\E k \in Keys \cup {All} : Reset(k)) \/ Clear \/ ClearMeta => shards' = shards
      BY DEF Reset, Clear, ClearMeta
    <3>5. ReadStep => shards' = shards
      BY DEF ReadStep, ReadBegins, ReadShard, ReadFails, ReadEnds, storeVars
    <3>6. NewDay \/ Crash => shards' = shards
      BY DEF NewDay, Crash, storeVars
    <3>7. QED
      BY <2>1, <3>1, <3>2, <3>3, <3>4, <3>5, <3>6 DEF Next, SaveStep, AdminStep
  <2>3. CASE ClearShard
    <3>1. whole
      BY <1>1, <2>3 DEF ClearShard
    <3>2. QED
      BY <1>1, <2>3, <3>1, Constants DEF ClearShard, TracesInv, Filling, Clearing
  <2>4. CASE SaveShard
    <3> DEFINE s == NextShard(manager)
               records == Kept(Append(shards[s], Head(waiting)))
    <3>1. whole /\ waiting # <<>> /\ shards' = [shards EXCEPT ![s] = records]
      BY <1>1, <2>4 DEF SaveShard
    <3>2. /\ s \in Shards
          /\ Len(shards[s]) # RecordsPerShard => Range(shards[s]) \subseteq Range(records)
      BY <1>1, <3>1, WritesOne
    <3>3. Full \/ Len(shards[s]) # RecordsPerShard
      BY <1>1, <3>1, FillsNext
    <3> HIDE DEF s, records
    <3>4. CASE Len(shards[s]) # RecordsPerShard
      <4>1. /\ shards \in [Shards -> Seq(Requests)]
            /\ \A q : q \in Stored' <=> \E t \in Shards : q \in Range(shards'[t])
        BY <1>1 DEF TracesInv, Typed, Stored
      <4>2. shards'[s] = records /\ \A t \in Shards \ {s} : shards'[t] = shards[t]
        BY <3>1, <3>2, <4>1
      <4>3. \A t \in Shards : Range(shards[t]) \subseteq Range(shards'[t])
        BY <3>2, <3>4, <4>2
      <4>4. QED
        BY <1>1, <4>1, <4>3, InStored
    <3>5. QED
      BY <1>1, <3>3, <3>4, FullHoldsAll
  <2>5. QED
    BY <2>2, <2>3, <2>4
<1>2. TracesInv /\ [Next]_vars
      => [whole' /\ ~(Stored \subseteq Stored')
          => Cardinality(Stored) = MaxShards * RecordsPerShard]_vars
  BY <1>1
<1>3. QED
  BY <1>2, TracesInvariant, PTL DEF Spec, DroppedOnlyWhenFull

\* A trace that is stored has either a call in its cell, its own, or is alone
\* there: so there are no more of them than of these.
LEMMA TracesMatched ==
    ASSUME NEW calls, NEW rest, NEW traces \in SUBSET rest,
           IsFiniteSet(calls), IsFiniteSet(rest), calls \cap rest = {},
           \A x, y \in traces : x.req = y.req => x = y
    PROVE  /\ IsFiniteSet(traces)
           /\ Cardinality(traces) <= Cardinality(calls) + Cardinality(AloneIn(rest, calls))
<1> DEFINE alone == AloneIn(rest, calls)
           own(x) == CHOOSE y \in calls : y.req = x.req
           f == [x \in traces |-> IF x \in alone THEN x ELSE own(x)]
<1>1. \A x \in traces : x \notin alone => own(x) \in calls /\ own(x).req = x.req
  BY DEF AloneIn
<1>2. alone \in SUBSET rest
  BY DEF AloneIn
<1>3. IsFiniteSet(alone) /\ calls \cap alone = {}
  BY <1>2, FS_Subset
<1> HIDE DEF own, alone
<1>4. f \in Injection(traces, calls \cup alone)
  <2>1. f \in [traces -> calls \cup alone]
    BY <1>1
  <2>2. ASSUME NEW x \in traces, NEW y \in traces, f[x] = f[y]
        PROVE  x = y
    BY <1>1, <1>3, <2>2
  <2>3. QED
    BY <2>1, <2>2 DEF Injection, IsInjective
<1> HIDE DEF f
<1>5. IsFiniteSet(calls \cup alone) /\ Cardinality(calls \cup alone) = Cardinality(calls) + Cardinality(alone)
  <2>1. Cardinality(calls \cap alone) = 0
    BY <1>3, FS_EmptySet
  <2>2. Cardinality(calls) \in Nat /\ Cardinality(alone) \in Nat
    BY <1>3, FS_CardinalityType
  <2>3. /\ IsFiniteSet(calls \cup alone)
        /\ Cardinality(calls \cup alone) = Cardinality(calls) + Cardinality(alone) - Cardinality(calls \cap alone)
    BY <1>3, FS_Union
  <2>4. QED
    BY <2>1, <2>2, <2>3
<1>6. QED
  BY <1>4, <1>5, FS_Injection DEF alone

\* The usage page counts nothing twice: what it shows of a key, a model and an
\* outcome is at most the calls of the day, with the traces of the day that no
\* call there belongs to, whether the counters, the traces or both know them
\* (_merge_trace_usage_summary).
THEOREM PageCountsOnce == Spec => []CountedOnce
<1>1. TracesInv => CountedOnce
  <2>1. SUFFICES ASSUME TracesInv, NEW k \in Keys, NEW m \in Models, NEW ok \in BOOLEAN
                 PROVE  LET items == CellOf(today, k, m, ok)
                            calls == {x \in items : x.n > 0}
                        IN  Page[k][m][ok] <= Cardinality(calls) + Cardinality(AloneIn(items \ calls, calls))
    BY DEF CountedOnce
  <2> DEFINE items == CellOf(today, k, m, ok)
             calls == {x \in items : x.n > 0}
             rest == items \ calls
             counts == CellOf(counted, k, m, ok)
             traces == CellOf(Traced, k, m, ok)
             a == Cardinality(counts)
             b == Cardinality(traces)
             c == Cardinality(calls)
             d == Cardinality(AloneIn(rest, calls))
  <2>2. IsFiniteSet(items) /\ calls \in SUBSET items /\ rest \in SUBSET items /\ calls \cap rest = {}
    <3>1. items \in SUBSET today
      BY DEF CellOf
    <3>2. IsFiniteSet(today)
      BY <2>1 DEF TracesInv, Typed
    <3> HIDE DEF items
    <3>3. QED
      BY <3>1, <3>2, FS_Subset
  <2>3. counts \in SUBSET calls
    BY <2>1 DEF CellOf, TracesInv, Counting
  <2>4. traces \in SUBSET rest /\ \A x, y \in traces : x.req = y.req => x = y
    <3>1. \A x \in Traced : x \in today /\ x = TraceOf(x.req) /\ x.n = 0
      BY <2>1 DEF Traced, TraceOf, TracesInv, Counting
    <3>2. QED
      BY <3>1 DEF CellOf
  <2>5. Page[k][m][ok] = Max({a, b})
    BY <2>1 DEF Page, Merge, CountsOf
  <2> HIDE DEF items, calls, rest, counts, traces
  <2>6. IsFiniteSet(calls) /\ IsFiniteSet(rest) /\ IsFiniteSet(AloneIn(rest, calls))
    <3>1. AloneIn(rest, calls) \in SUBSET rest
      BY DEF AloneIn
    <3>2. QED
      BY <2>2, <3>1, FS_Subset
  <2>7. IsFiniteSet(counts) /\ a <= c
    BY <2>3, <2>6, FS_Subset
  <2>8. IsFiniteSet(traces) /\ b <= c + d
    BY <2>2, <2>4, <2>6, TracesMatched
  <2>9. a \in Nat /\ b \in Nat /\ c \in Nat /\ d \in Nat
    BY <2>6, <2>7, <2>8, FS_CardinalityType
  <2> HIDE DEF a, b, c, d
  <2>10. Max({a, b}) \in {a, b}
    <3>1. \E x \in {a, b} : \A y \in {a, b} : x >= y
      BY <2>9
    <3>2. QED
      BY <3>1 DEF Max
  <2>11. Page[k][m][ok] <= c + d
    BY <2>5, <2>7, <2>8, <2>9, <2>10
  <2>12. QED
    BY <2>11 DEF c, d, rest, calls, items
<1>2. QED
  BY <1>1, TracesInvariant, PTL

-----------------------------------------------------------------------------
(* Sums and filters of the usage page                                        *)

\* A sum of zeros is zero.
LEMMA SumOfZeros ==
    ASSUME NEW S, IsFiniteSet(S)
    PROVE  SumFunction([x \in S |-> 0]) = 0
<1> DEFINE f == [x \in S |-> 0]
           one(s) == CHOOSE x \in s : TRUE
           Def(iter) == iter = [s \in SUBSET S |-> IF s = {} THEN 0 ELSE f[one(s)] + iter[s \ {one(s)}]]
           sum == CHOOSE iter : Def(iter)
           zero == [s \in SUBSET S |-> 0]
<1>1. SumFunction(f) = sum[S]
  BY DEF SumFunction, SumFunctionOnSet, FoldFunctionOnSet, MapThenFoldSet
<1>2. \A s \in SUBSET S : s # {} => one(s) \in s /\ s \ {one(s)} \in SUBSET S
  OBVIOUS
<1> HIDE DEF one
<1>3. Def(zero)
  <2>1. ASSUME NEW s \in SUBSET S
        PROVE  0 = IF s = {} THEN 0 ELSE f[one(s)] + zero[s \ {one(s)}]
    BY <1>2
  <2>2. QED
    BY <2>1
<1>4. Def(sum)
  <2> HIDE DEF Def, zero
  <2>1. QED
    BY <1>3
<1>5. \A s \in SUBSET S : sum[s] = IF s = {} THEN 0 ELSE f[one(s)] + sum[s \ {one(s)}]
  <2> HIDE DEF sum, f
  <2>1. QED
    BY <1>4
<1> HIDE DEF sum, Def
<1> DEFINE n == Cardinality(S)
           T == {i \in 0..n : \A s \in SUBSET S : Cardinality(s) = i => sum[s] = 0}
<1>6. n \in Nat
  BY FS_CardinalityType
<1>7. \A s \in SUBSET S : IsFiniteSet(s)
  BY FS_Subset
<1>8. 0 \in T
  <2>1. \A s \in SUBSET S : Cardinality(s) = 0 => s = {}
    BY <1>7, FS_EmptySet
  <2>2. QED
    BY <1>5, <1>6, <2>1
<1>9. ASSUME NEW i \in 1..n, i - 1 \in T
      PROVE  i \in T
  <2>1. ASSUME NEW s \in SUBSET S, Cardinality(s) = i
        PROVE  sum[s] = 0
    <3>1. s # {}
      BY <2>1, FS_EmptySet
    <3>2. one(s) \in s /\ s \ {one(s)} \in SUBSET S
      BY <1>2, <3>1
    <3>3. Cardinality(s \ {one(s)}) = i - 1
      BY <1>7, <2>1, <3>2, FS_RemoveElement
    <3>4. sum[s \ {one(s)}] = 0
      BY <1>9, <3>2, <3>3
    <3>5. f[one(s)] = 0
      BY <3>2
    <3>6. QED
      BY <1>5, <3>1, <3>4, <3>5
  <2>2. QED
    BY <2>1
<1>10. 0..n \subseteq T
  <2> HIDE DEF T, n
  <2>1. QED
    BY <1>6, <1>8, <1>9, UpTo
<1>11. QED
  BY <1>1, <1>6, <1>10

\* Counts per key, model and outcome.
Cells == [Keys -> [Models -> [BOOLEAN -> Int]]]

LEMMA CellsEqual ==
    ASSUME NEW c \in Cells, NEW d \in Cells,
           \A k \in Keys, m \in Models, ok \in BOOLEAN : c[k][m][ok] = d[k][m][ok]
    PROVE  c = d
<1>1. ASSUME NEW k \in Keys
      PROVE  c[k] = d[k]
  <2>1. c[k] \in [Models -> [BOOLEAN -> Int]] /\ d[k] \in [Models -> [BOOLEAN -> Int]]
    BY DEF Cells
  <2>2. ASSUME NEW m \in Models
        PROVE  c[k][m] = d[k][m]
    <3>1. c[k][m] \in [BOOLEAN -> Int] /\ d[k][m] \in [BOOLEAN -> Int]
      BY <2>1
    <3>2. \A ok \in BOOLEAN : c[k][m][ok] = d[k][m][ok]
      OBVIOUS
    <3>3. QED
      BY <3>1, <3>2
  <2>3. QED
    BY <2>1, <2>2
<1>2. QED
  BY <1>1 DEF Cells

LEMMA ZeroedCells ==
    ASSUME NEW c \in Cells, NEW kept
    PROVE  /\ Zeroed(c, kept) \in Cells
           /\ \A k \in Keys, m \in Models, ok \in BOOLEAN :
                Zeroed(c, kept)[k][m][ok] = IF <<k, m, ok>> \in kept THEN c[k][m][ok] ELSE 0
  BY DEF Zeroed, Cells

\* What one filter leaves of what another left.
LEMMA ZeroedTwice ==
    ASSUME NEW c \in Cells, NEW kept, NEW also
    PROVE  Zeroed(Zeroed(c, kept), also) = Zeroed(c, kept \cap also)
<1>1. Zeroed(c, kept) \in Cells /\ Zeroed(c, kept \cap also) \in Cells
  BY ZeroedCells
<1>2. Zeroed(Zeroed(c, kept), also) \in Cells
  BY <1>1, ZeroedCells
<1>3. \A k \in Keys, m \in Models, ok \in BOOLEAN :
         Zeroed(Zeroed(c, kept), also)[k][m][ok] = Zeroed(c, kept \cap also)[k][m][ok]
  <2> TAKE k \in Keys, m \in Models, ok \in BOOLEAN
  <2>1. Zeroed(Zeroed(c, kept), also)[k][m][ok]
          = IF <<k, m, ok>> \in also THEN Zeroed(c, kept)[k][m][ok] ELSE 0
    BY <1>1, ZeroedCells
  <2>2. Zeroed(c, kept)[k][m][ok] = IF <<k, m, ok>> \in kept THEN c[k][m][ok] ELSE 0
    BY ZeroedCells
  <2>3. Zeroed(c, kept \cap also)[k][m][ok]
          = IF <<k, m, ok>> \in kept \cap also THEN c[k][m][ok] ELSE 0
    BY ZeroedCells
  <2>4. QED
    BY <2>1, <2>2, <2>3
<1>4. QED
  BY <1>1, <1>2, <1>3, CellsEqual

\* The sums of Shown: over the keys of K, and over the models.
OverKeys(c, K, m, ok) == SumFunction([k \in Keys |-> IF k \in K THEN c[k][m][ok] ELSE 0])
OverModels(lines, ok) == SumFunction([m \in Models |-> lines[m][ok]])

LEMMA OverKeysEqual ==
    ASSUME NEW c, NEW K, NEW d, NEW L, NEW m, NEW ok,
           \A k \in Keys : (IF k \in K THEN c[k][m][ok] ELSE 0) = IF k \in L THEN d[k][m][ok] ELSE 0
    PROVE  OverKeys(c, K, m, ok) = OverKeys(d, L, m, ok)
<1>1. [k \in Keys |-> IF k \in K THEN c[k][m][ok] ELSE 0] = [k \in Keys |-> IF k \in L THEN d[k][m][ok] ELSE 0]
  OBVIOUS
<1>2. QED
  BY <1>1 DEF OverKeys

LEMMA OverModelsEqual ==
    ASSUME NEW f, NEW g, NEW ok, \A m \in Models : f[m][ok] = g[m][ok]
    PROVE  OverModels(f, ok) = OverModels(g, ok)
<1>1. [m \in Models |-> f[m][ok]] = [m \in Models |-> g[m][ok]]
  OBVIOUS
<1>2. QED
  BY <1>1 DEF OverModels

LEMMA OverKeysZero ==
    ASSUME NEW c, NEW m, NEW ok, \A k \in Keys : c[k][m][ok] = 0
    PROVE  OverKeys(c, Keys, m, ok) = 0
<1>1. [k \in Keys |-> IF k \in Keys THEN c[k][m][ok] ELSE 0] = [k \in Keys |-> 0]
  OBVIOUS
<1>2. QED
  BY <1>1, SumOfZeros, TracesAssumption DEF OverKeys

LEMMA OverModelsZero ==
    ASSUME NEW f, NEW ok, \A m \in Models : f[m][ok] = 0
    PROVE  OverModels(f, ok) = 0
<1>1. [m \in Models |-> f[m][ok]] = [m \in Models |-> 0]
  OBVIOUS
<1>2. QED
  BY <1>1, SumOfZeros, TracesAssumption DEF OverModels

\* What Shown says of the models and in all.
LEMMA ShownParts ==
    ASSUME NEW c
    PROVE  /\ Shown(c).cells = c
           /\ Shown(c) = [cells |-> c, models |-> Shown(c).models, total |-> Shown(c).total]
           /\ Shown(c).models = [m \in Models |-> [ok \in BOOLEAN |-> OverKeys(c, Keys, m, ok)]]
           /\ Shown(c).total = [ok \in BOOLEAN |-> OverModels(Shown(c).models, ok)]
<1>1. [m \in Models |-> [ok \in BOOLEAN |-> OverKeys(c, Keys, m, ok)]]
        = [m \in Models |-> [ok \in BOOLEAN |-> SumFunction([k \in Keys |-> c[k][m][ok]])]]
  <2>1. \A m, ok : OverKeys(c, Keys, m, ok) = SumFunction([k \in Keys |-> c[k][m][ok]])
    <3> TAKE m, ok
    <3>1. [k \in Keys |-> IF k \in Keys THEN c[k][m][ok] ELSE 0] = [k \in Keys |-> c[k][m][ok]]
      OBVIOUS
    <3>2. QED
      BY <3>1 DEF OverKeys
  <2>2. QED
    BY <2>1
<1> DEFINE lines == [m \in Models |-> [ok \in BOOLEAN |-> SumFunction([k \in Keys |-> c[k][m][ok]])]]
           all == [ok \in BOOLEAN |-> SumFunction([m \in Models |-> lines[m][ok]])]
<1>2. Shown(c) = [cells |-> c, models |-> lines, total |-> all]
  BY DEF Shown
<1>3. all = [ok \in BOOLEAN |-> OverModels(lines, ok)]
  BY DEF OverModels
<1> HIDE DEF lines, all
<1>4. QED
  BY <1>1, <1>2, <1>3 DEF lines

LEMMA ShownAt ==
    ASSUME NEW c, NEW ok \in BOOLEAN
    PROVE  /\ \A m \in Models : Shown(c).models[m][ok] = OverKeys(c, Keys, m, ok)
           /\ Shown(c).total[ok] = OverModels(Shown(c).models, ok)
<1> DEFINE f == Shown(c).models
           g == Shown(c).total
<1>1. f = [m \in Models |-> [o \in BOOLEAN |-> OverKeys(c, Keys, m, o)]]
  BY ShownParts
<1>2. g = [o \in BOOLEAN |-> OverModels(f, o)]
  BY ShownParts
<1> HIDE DEF f, g
<1>3. \A m \in Models : f[m] = [o \in BOOLEAN |-> OverKeys(c, Keys, m, o)]
  BY <1>1
<1>4. g[ok] = OverModels(f, ok)
  BY <1>2
<1>5. QED
  BY <1>3, <1>4 DEF f, g

\* The line of a model is a function of the outcome, and equal values make
\* equal lines.
LEMMA LinesEqual ==
    ASSUME NEW c, NEW f, f = [m \in Models |-> [ok \in BOOLEAN |-> f[m][ok]]],
           \A m \in Models, ok \in BOOLEAN : Shown(c).models[m][ok] = f[m][ok]
    PROVE  Shown(c).models = f
<1> DEFINE g == Shown(c).models
<1>1. g = [m \in Models |-> [ok \in BOOLEAN |-> g[m][ok]]]
  <2>1. g = [m \in Models |-> [ok \in BOOLEAN |-> OverKeys(c, Keys, m, ok)]]
    BY ShownParts
  <2> HIDE DEF g
  <2>2. QED
    BY <2>1
<1>2. \A m \in Models, ok \in BOOLEAN : g[m][ok] = f[m][ok]
  OBVIOUS
<1> HIDE DEF g
<1>3. [m \in Models |-> [ok \in BOOLEAN |-> g[m][ok]]] = [m \in Models |-> [ok \in BOOLEAN |-> f[m][ok]]]
  BY <1>2
<1>4. QED
  BY <1>1, <1>3 DEF g

\* Nothing is zeroed when everything passes.
LEMMA ZeroedNone ==
    ASSUME NEW c \in Cells
    PROVE  Zeroed(c, Keys \X Models \X BOOLEAN) = c
<1>1. Zeroed(c, Keys \X Models \X BOOLEAN) \in Cells
  BY ZeroedCells
<1>2. \A k \in Keys, m \in Models, ok \in BOOLEAN :
         Zeroed(c, Keys \X Models \X BOOLEAN)[k][m][ok] = c[k][m][ok]
  <2> TAKE k \in Keys, m \in Models, ok \in BOOLEAN
  <2>1. <<k, m, ok>> \in Keys \X Models \X BOOLEAN
    OBVIOUS
  <2> DEFINE all == Keys \X Models \X BOOLEAN
  <2>2. Zeroed(c, all)[k][m][ok] = IF <<k, m, ok>> \in all THEN c[k][m][ok] ELSE 0
    <3> HIDE DEF all
    <3>1. QED
      BY ZeroedCells
  <2>3. QED
    BY <2>1, <2>2
<1>3. QED
  BY <1>1, <1>2, CellsEqual

\* What the filters let pass: the keys in K, the models in M, the outcomes in O.
Left(c, K, M, O) == Zeroed(c, K \X M \X O)

LEMMA LeftCells ==
    ASSUME NEW c \in Cells, NEW K, NEW M, NEW O
    PROVE  /\ Left(c, K, M, O) \in Cells
           /\ \A k \in Keys, m \in Models, ok \in BOOLEAN :
                Left(c, K, M, O)[k][m][ok] = IF k \in K /\ m \in M /\ ok \in O THEN c[k][m][ok] ELSE 0
<1> DEFINE z == Zeroed(c, K \X M \X O)
<1>1. z \in Cells
  BY ZeroedCells
<1>2. ASSUME NEW k \in Keys, NEW m \in Models, NEW ok \in BOOLEAN
      PROVE  z[k][m][ok] = IF k \in K /\ m \in M /\ ok \in O THEN c[k][m][ok] ELSE 0
  <2>1. z[k][m][ok] = IF <<k, m, ok>> \in K \X M \X O THEN c[k][m][ok] ELSE 0
    BY ZeroedCells
  <2>2. <<k, m, ok>> \in K \X M \X O <=> k \in K /\ m \in M /\ ok \in O
    OBVIOUS
  <2> HIDE DEF z
  <2>3. QED
    BY <2>1, <2>2
<1>3. QED
  BY <1>1, <1>2 DEF Left

\* The line of a model, where only some cells are left: as it was, or zero.
LEMMA ModelsOfLeft ==
    ASSUME NEW c \in Cells, NEW K, NEW M, NEW O, NEW m \in Models, NEW ok \in BOOLEAN
    PROVE  Shown(Left(c, K, M, O)).models[m][ok] =
             IF m \in M /\ ok \in O THEN OverKeys(c, K, m, ok) ELSE 0
<1> DEFINE z == Left(c, K, M, O)
<1>1. \A k \in Keys : z[k][m][ok] = IF k \in K /\ m \in M /\ ok \in O THEN c[k][m][ok] ELSE 0
  BY LeftCells
<1> HIDE DEF z
<1>2. Shown(z).models[m][ok] = OverKeys(z, Keys, m, ok)
  BY ShownAt
<1>3. CASE m \in M /\ ok \in O
  <2>1. \A k \in Keys : (IF k \in Keys THEN z[k][m][ok] ELSE 0) = IF k \in K THEN c[k][m][ok] ELSE 0
    BY <1>1, <1>3
  <2>2. OverKeys(z, Keys, m, ok) = OverKeys(c, K, m, ok)
    BY <2>1, OverKeysEqual
  <2>3. QED
    BY <1>2, <1>3, <2>2 DEF z
<1>4. CASE ~ (m \in M /\ ok \in O)
  <2>1. \A k \in Keys : z[k][m][ok] = 0
    BY <1>1, <1>4
  <2>2. QED
    BY <1>2, <1>4, <2>1, OverKeysZero DEF z
<1>5. QED
  BY <1>3, <1>4

\* The filter by model: the line it keeps is the sum of the cells it leaves.
LEMMA ByModelPasses ==
    ASSUME NEW c \in Cells, NEW m \in Models
    PROVE  ByModel(Shown(c), m) = Shown(Left(c, Keys, {m}, BOOLEAN))
<1> DEFINE z == Left(c, Keys, {m}, BOOLEAN)
           lines == [n \in Models |-> [ok \in BOOLEAN |-> IF n = m THEN Shown(c).models[n][ok] ELSE 0]]
<1>1. ByModel(Shown(c), m) = [Shown(z) EXCEPT !.models = lines]
  <2>1. Shown(c).cells = c
    BY ShownParts
  <2>2. QED
    BY <2>1 DEF ByModel, Left
<1>2. \A n \in Models, ok \in BOOLEAN : Shown(z).models[n][ok] = lines[n][ok]
  <2> SUFFICES ASSUME NEW n \in Models, NEW ok \in BOOLEAN
               PROVE  Shown(z).models[n][ok] = IF n = m THEN Shown(c).models[n][ok] ELSE 0
    OBVIOUS
  <2>1. Shown(z).models[n][ok] =
          IF n \in {m} /\ ok \in BOOLEAN THEN OverKeys(c, Keys, n, ok) ELSE 0
    BY ModelsOfLeft
  <2>2. Shown(c).models[n][ok] = OverKeys(c, Keys, n, ok)
    BY ShownAt
  <2> HIDE DEF z
  <2>3. QED
    BY <2>1, <2>2
<1>3. Shown(z).models = lines
  <2>1. lines = [n \in Models |-> [ok \in BOOLEAN |-> lines[n][ok]]]
    OBVIOUS
  <2> HIDE DEF lines, z
  <2>2. QED
    BY <1>2, <2>1, LinesEqual
<1> HIDE DEF z, lines
<1>4. [Shown(z) EXCEPT !.models = lines] = Shown(z)
  <2> DEFINE v == Shown(z)
             g == v.models
             h == v.total
  <2>1. v = [cells |-> z, models |-> g, total |-> h]
    BY ShownParts
  <2> HIDE DEF v, g, h
  <2>2. [v EXCEPT !.models = g] = v
    BY <2>1
  <2>3. QED
    BY <1>3, <2>2 DEF v, g
<1>5. QED
  BY <1>1, <1>4 DEF z

\* The filter by key counts anew what is left.
LEMMA ByKeyPasses ==
    ASSUME NEW c \in Cells, NEW k \in Keys, NEW M, M \subseteq Models, NEW v,
           v.cells = Left(c, Keys, M, BOOLEAN)
    PROVE  ByKey(v, k) = Shown(Left(c, {k}, M, BOOLEAN))
<1>1. (Keys \X M \X BOOLEAN) \cap ({k} \X Models \X BOOLEAN) = {k} \X M \X BOOLEAN
  OBVIOUS
<1>2. Zeroed(v.cells, {k} \X Models \X BOOLEAN) = Left(c, {k}, M, BOOLEAN)
  BY <1>1, ZeroedTwice DEF Left
<1>3. QED
  BY <1>2 DEF ByKey

\* The filter by outcome empties the other column everywhere.
LEMMA OnlyPasses ==
    ASSUME NEW c \in Cells, NEW K, K \subseteq Keys, NEW M, M \subseteq Models, NEW o \in BOOLEAN
    PROVE  Only(Shown(Left(c, K, M, BOOLEAN)), o) = Shown(Left(c, K, M, {o}))
<1> DEFINE y == Left(c, K, M, BOOLEAN)
           z == Left(c, K, M, {o})
           lines == [m \in Models |-> [Shown(y).models[m] EXCEPT ![~o] = 0]]
           all == [Shown(y).total EXCEPT ![~o] = 0]
           other == ~o
<1>1. Only(Shown(y), o) = [cells |-> Zeroed(Shown(y).cells, Keys \X Models \X {o}),
                           models |-> lines, total |-> all]
  BY DEF Only
<1>2. Zeroed(Shown(y).cells, Keys \X Models \X {o}) = z
  <2>1. (K \X M \X BOOLEAN) \cap (Keys \X Models \X {o}) = K \X M \X {o}
    OBVIOUS
  <2>2. Shown(y).cells = y
    BY ShownParts
  <2>3. Zeroed(y, Keys \X Models \X {o}) = Zeroed(c, (K \X M \X BOOLEAN) \cap (Keys \X Models \X {o}))
    BY ZeroedTwice DEF Left
  <2>4. QED
    BY <2>1, <2>2, <2>3 DEF Left
<1>3. other \in BOOLEAN /\ other # o /\ \A ok \in BOOLEAN : ok = o \/ ok = other
  OBVIOUS
<1>4. \A m \in Models : /\ Shown(z).models[m][o] = Shown(y).models[m][o]
                        /\ Shown(z).models[m][other] = 0
  <2> SUFFICES ASSUME NEW m \in Models
               PROVE  /\ Shown(z).models[m][o] = Shown(y).models[m][o]
                      /\ Shown(z).models[m][other] = 0
    OBVIOUS
  <2>1. Shown(z).models[m][o] = IF m \in M /\ o \in {o} THEN OverKeys(c, K, m, o) ELSE 0
    BY ModelsOfLeft
  <2>2. Shown(y).models[m][o] = IF m \in M /\ o \in BOOLEAN THEN OverKeys(c, K, m, o) ELSE 0
    BY ModelsOfLeft
  <2>3. Shown(z).models[m][other] = IF m \in M /\ other \in {o} THEN OverKeys(c, K, m, other) ELSE 0
    <3> HIDE DEF other
    <3>1. QED
      BY <1>3, ModelsOfLeft
  <2> HIDE DEF y, z, other
  <2>4. QED
    BY <1>3, <2>1, <2>2, <2>3
<1> HIDE DEF y, z
<1>5. Shown(z).models = lines
  <2> DEFINE f == Shown(y).models
  <2>1. \A m \in Models : f[m] = [ok \in BOOLEAN |-> OverKeys(y, Keys, m, ok)]
    <3>1. f = [m \in Models |-> [ok \in BOOLEAN |-> OverKeys(y, Keys, m, ok)]]
      BY ShownParts
    <3> HIDE DEF f
    <3>2. QED
      BY <3>1
  <2> HIDE DEF f
  <2>2. \A m \in Models : /\ lines[m] = [ok \in BOOLEAN |-> lines[m][ok]]
                          /\ lines[m][o] = f[m][o] /\ lines[m][other] = 0
    <3> TAKE m \in Models
    <3>1. lines[m] = [f[m] EXCEPT ![other] = 0]
      BY DEF f
    <3>2. DOMAIN f[m] = BOOLEAN
      BY <2>1
    <3> HIDE DEF lines, other
    <3>3. QED
      BY <1>3, <3>1, <3>2
  <2>3. lines = [m \in Models |-> lines[m]]
    OBVIOUS
  <2> HIDE DEF lines, other
  <2>4. lines = [m \in Models |-> [ok \in BOOLEAN |-> lines[m][ok]]]
    BY <2>2, <2>3
  <2>5. \A m \in Models, ok \in BOOLEAN : Shown(z).models[m][ok] = lines[m][ok]
    <3> TAKE m \in Models, ok \in BOOLEAN
    <3>1. CASE ok = o
      BY <1>4, <2>2, <3>1 DEF f
    <3>2. CASE ok = other
      BY <1>4, <2>2, <3>2
    <3>3. QED
      BY <1>3, <3>1, <3>2
  <2>6. QED
    BY <2>4, <2>5, LinesEqual
<1>6. Shown(z).total = all
  <2> DEFINE f == Shown(y).total
             g == Shown(z).total
  <2>1. DOMAIN f = BOOLEAN /\ g = [ok \in BOOLEAN |-> g[ok]]
    <3>1. f = [ok \in BOOLEAN |-> OverModels(Shown(y).models, ok)]
      BY ShownParts
    <3>2. g = [ok \in BOOLEAN |-> OverModels(Shown(z).models, ok)]
      BY ShownParts
    <3> HIDE DEF f, g
    <3>3. QED
      BY <3>1, <3>2
  <2>2. g[o] = f[o]
    BY <1>4, ShownAt, OverModelsEqual
  <2>3. g[other] = 0
    <3> HIDE DEF other
    <3>1. QED
      BY <1>3, <1>4, ShownAt, OverModelsZero
  <2>4. all = [f EXCEPT ![other] = 0]
    OBVIOUS
  <2> HIDE DEF f, g, other
  <2>5. [f EXCEPT ![other] = 0] = g
    BY <1>3, <2>1, <2>2, <2>3
  <2>6. QED
    BY <2>4, <2>5 DEF g
<1> HIDE DEF lines, all
<1>7. QED
  BY <1>1, <1>2, <1>5, <1>6, ShownParts DEF y, z

\* Under every combination of the filters the page of usage_aggregated shows the
\* counts that pass them, and their sums.
LEMMA AggregatedPasses ==
    ASSUME NEW c \in Cells, NEW model \in Filters(Models), NEW key \in Filters(Keys),
           NEW outcome \in Filters(BOOLEAN)
    PROVE  Aggregated(c, model, key, outcome) = Passing(c, model, key, outcome)
<1> DEFINE M == Narrow(model, Models)
           K == Narrow(key, Keys)
           O == Narrow(outcome, BOOLEAN)
           all == Shown(c)
           one == CHOOSE m \in model : TRUE
           first == IF model = {} THEN all ELSE ByModel(all, one)
           fewer == IF key = {} THEN first ELSE ByKey(first, CHOOSE k \in key : TRUE)
<1>1. Aggregated(c, model, key, outcome)
        = IF outcome = {} THEN fewer ELSE Only(fewer, CHOOSE ok \in outcome : TRUE)
  BY DEF Aggregated, Narrowed
<1>2. Passing(c, model, key, outcome) = Shown(Left(c, K, M, O))
  BY DEF Passing, Left
<1>3. /\ (model = {} /\ M = Models) \/ \E m \in Models : model = {m} /\ M = {m} /\ one = m
      /\ M \subseteq Models
  BY DEF Filters, Narrow
<1>4. /\ (key = {} /\ K = Keys) \/ \E k \in Keys : key = {k} /\ K = {k} /\ (CHOOSE x \in key : TRUE) = k
      /\ K \subseteq Keys
  BY DEF Filters, Narrow
<1>5. \/ outcome = {} /\ O = BOOLEAN
      \/ \E ok \in BOOLEAN : outcome = {ok} /\ O = {ok} /\ (CHOOSE x \in outcome : TRUE) = ok
  BY DEF Filters, Narrow
<1>6. first = Shown(Left(c, Keys, M, BOOLEAN))
  <2>1. CASE model = {}
    <3>1. Left(c, Keys, Models, BOOLEAN) = c
      BY ZeroedNone DEF Left
    <3>2. M = Models
      BY <1>3, <2>1
    <3> HIDE DEF M
    <3>3. QED
      BY <2>1, <3>1, <3>2
  <2>2. CASE model # {}
    <3>1. PICK m \in Models : M = {m} /\ one = m
      BY <1>3, <2>2
    <3>2. first = ByModel(all, m)
      BY <2>2, <3>1
    <3>3. ByModel(all, m) = Shown(Left(c, Keys, {m}, BOOLEAN))
      BY ByModelPasses
    <3> HIDE DEF M, first
    <3>4. QED
      BY <3>1, <3>2, <3>3
  <2>3. QED
    BY <2>1, <2>2
<1> HIDE DEF M, first, all, one
<1>7. fewer = Shown(Left(c, K, M, BOOLEAN))
  <2>1. CASE key = {}
    <3>1. K = Keys
      BY <1>4, <2>1
    <3> HIDE DEF K
    <3>2. QED
      BY <1>6, <2>1, <3>1
  <2>2. CASE key # {}
    <3>1. PICK k \in Keys : K = {k} /\ (CHOOSE x \in key : TRUE) = k
      BY <1>4, <2>2
    <3>2. first.cells = Left(c, Keys, M, BOOLEAN)
      BY <1>6, ShownParts
    <3>3. ByKey(first, k) = Shown(Left(c, {k}, M, BOOLEAN))
      BY <1>3, <3>2, ByKeyPasses
    <3>4. fewer = ByKey(first, k)
      BY <2>2, <3>1
    <3> HIDE DEF K, fewer
    <3>5. QED
      BY <3>1, <3>3, <3>4
  <2>3. QED
    BY <2>1, <2>2
<1> HIDE DEF K, fewer
<1>8. CASE outcome = {}
  <2>1. O = BOOLEAN
    BY <1>5, <1>8
  <2> HIDE DEF O
  <2>2. QED
    BY <1>1, <1>2, <1>7, <1>8, <2>1
<1>9. CASE outcome # {}
  <2>1. PICK ok \in BOOLEAN : O = {ok} /\ (CHOOSE x \in outcome : TRUE) = ok
    BY <1>5, <1>9
  <2>2. Only(Shown(Left(c, K, M, BOOLEAN)), ok) = Shown(Left(c, K, M, {ok}))
    BY <1>3, <1>4, OnlyPasses
  <2>3. Aggregated(c, model, key, outcome) = Only(fewer, ok)
    BY <1>1, <1>9, <2>1
  <2> HIDE DEF O
  <2>4. QED
    BY <1>2, <1>7, <2>1, <2>2, <2>3
<1>10. QED
  BY <1>8, <1>9

\* usage_summary does the same as long as the keys have no failures with the
\* model that is chosen.
LEMMA SummaryAggregates ==
    ASSUME NEW c \in Cells, NEW model \in Filters(Models), NEW key, NEW outcome,
           \A k \in Keys : \A m \in model : c[k][m][FALSE] = 0
    PROVE  Summary(c, model, key, outcome) = Aggregated(c, model, key, outcome)
<1>1. CASE model = {}
  BY <1>1 DEF Summary, Aggregated
<1>2. CASE model # {}
  <2>1. PICK m \in Models : model = {m}
    BY <1>2 DEF Filters
  <2>2. (CHOOSE x \in model : TRUE) = m
    BY <2>1
  <2> DEFINE v == Shown(c)
             z == Left(c, Keys, {m}, BOOLEAN)
             T == {TRUE}
             y == Left(c, Keys, {m}, T)
  <2>3. y = z
    <3>1. y \in Cells /\ z \in Cells
      BY LeftCells
    <3>2. \A k \in Keys, n \in Models, ok \in BOOLEAN : y[k][n][ok] = z[k][n][ok]
      <4> TAKE k \in Keys, n \in Models, ok \in BOOLEAN
      <4>1. y[k][n][ok] = IF k \in Keys /\ n \in {m} /\ ok \in T THEN c[k][n][ok] ELSE 0
        <5> HIDE DEF T
        <5>1. QED
          BY LeftCells
      <4>2. z[k][n][ok] = IF k \in Keys /\ n \in {m} /\ ok \in BOOLEAN THEN c[k][n][ok] ELSE 0
        BY LeftCells
      <4>3. n = m /\ ~ ok => c[k][n][ok] = 0
        BY <2>1
      <4> HIDE DEF y, z
      <4>4. QED
        BY <4>1, <4>2, <4>3
    <3> HIDE DEF y, z
    <3>3. QED
      BY <3>1, <3>2, CellsEqual
  <2>4. ByModel(v, m) = Shown(z)
    BY ByModelPasses
  <2>5. ByModelSummed(v, m) = [Shown(y) EXCEPT !.models = ByModel(v, m).models]
    <3>1. v.cells = c
      BY ShownParts
    <3>2. QED
      BY <3>1 DEF ByModelSummed, Left
  <2> HIDE DEF v, y, z
  <2>6. [Shown(z) EXCEPT !.models = Shown(z).models] = Shown(z)
    <3> DEFINE w == Shown(z)
               f == w.models
               g == w.total
    <3>1. w = [cells |-> z, models |-> f, total |-> g]
      BY ShownParts
    <3> HIDE DEF w, f, g
    <3>2. [w EXCEPT !.models = f] = w
      BY <3>1
    <3>3. QED
      BY <3>2 DEF w, f
  <2>7. ByModelSummed(v, m) = ByModel(v, m)
    BY <2>3, <2>4, <2>5, <2>6
  <2>8. QED
    BY <1>2, <2>2, <2>7 DEF Summary, Aggregated, v
<1>3. QED
  BY <1>1, <1>2

LEMMA PageCells ==
    ASSUME TracesInv
    PROVE  Page \in Cells
<1>1. counted \subseteq today /\ Traced \subseteq today /\ IsFiniteSet(today)
  BY DEF TracesInv, Typed, Counting, Traced
<1>2. ASSUME NEW items, items \subseteq today
      PROVE  CountsOf(items) \in Cells
  <2>1. \A k \in Keys, m \in Models, ok \in BOOLEAN : Cardinality(CellOf(items, k, m, ok)) \in Int
    <3> TAKE k \in Keys, m \in Models, ok \in BOOLEAN
    <3>1. CellOf(items, k, m, ok) \subseteq today
      BY <1>2 DEF CellOf
    <3>2. IsFiniteSet(CellOf(items, k, m, ok))
      BY <1>1, <3>1, FS_Subset
    <3>3. QED
      BY <3>2, FS_CardinalityType
  <2>2. QED
    BY <2>1 DEF CountsOf, Cells
<1>3. ASSUME NEW c \in Cells, NEW d \in Cells
      PROVE  Merge(c, d) \in Cells
  <2>1. \A k \in Keys, m \in Models, ok \in BOOLEAN : Max({c[k][m][ok], d[k][m][ok]}) \in Int
    <3> TAKE k \in Keys, m \in Models, ok \in BOOLEAN
    <3>1. c[k][m][ok] \in Int /\ d[k][m][ok] \in Int
      BY DEF Cells
    <3>2. \A a, b \in Int : Max({a, b}) \in Int
      <4> TAKE a, b \in Int
      <4>1. \E x \in {a, b} : \A y \in {a, b} : x >= y
        OBVIOUS
      <4>2. QED
        BY <4>1 DEF Max
    <3>3. QED
      BY <3>1, <3>2
  <2>2. QED
    BY <2>1 DEF Merge, Cells
<1>4. QED
  BY <1>1, <1>2, <1>3 DEF Page

\* Under every combination of its filters the usage page adds up
\* (usage_aggregated), whatever is under way.
THEOREM FilteredPageAddsUp == Spec => []FiltersAddUp
<1>1. TracesInv => FiltersAddUp
  BY PageCells, AggregatedPasses DEF FiltersAddUp
<1>2. QED
  BY <1>1, TracesInvariant, PTL

\* Nothing is to be left out when the model that is chosen has no failures.
NoFailures(page, model) == \A k \in Keys : \A m \in model : page[k][m][FALSE] = 0
SummaryAddsUpOtherwise ==
    LET page == Page
    IN  \A model \in Filters(Models), key \in Filters(Keys), outcome \in Filters(BOOLEAN) :
           NoFailures(page, model) => Summary(page, model, key, outcome) = Passing(page, model, key, outcome)

\* What usage_summary leaves out is the failures of the keys with the model that
\* is chosen, and nothing else: without any it adds up too.
THEOREM SummaryLacksFailures == Spec => []SummaryAddsUpOtherwise
<1>1. TracesInv => SummaryAddsUpOtherwise
  <2> SUFFICES ASSUME TracesInv, NEW model \in Filters(Models), NEW key \in Filters(Keys),
                      NEW outcome \in Filters(BOOLEAN), NoFailures(Page, model)
               PROVE  Summary(Page, model, key, outcome) = Passing(Page, model, key, outcome)
    BY DEF SummaryAddsUpOtherwise
  <2>1. Page \in Cells
    BY PageCells
  <2>2. \A k \in Keys : \A m \in model : Page[k][m][FALSE] = 0
    BY DEF NoFailures
  <2>3. Summary(Page, model, key, outcome) = Aggregated(Page, model, key, outcome)
    BY <2>1, <2>2, SummaryAggregates
  <2>4. QED
    BY <2>1, <2>3, AggregatedPasses
<1>2. QED
  BY <1>1, TracesInvariant, PTL

-----------------------------------------------------------------------------
(* The pages of the detail table                                             *)

\* FlattenSeq puts the parts one behind another: g says how far it is after
\* each of them.
LEMMA Flattening ==
    ASSUME NEW A, NEW n \in Nat \ {0}, NEW parts \in [1..n -> Seq(A)]
    PROVE  \E g \in [1..n -> Seq(A)] :
              /\ g[1] = parts[1]
              /\ \A i \in 2..n : g[i] = g[i - 1] \o parts[i]
              /\ FlattenSeq(parts) = g[n]
<1> DEFINE next(f, i) == IF i = 1 THEN parts[i] ELSE f[i - 1] \o parts[i]
           Follows(f, m) == \A i \in 1..m : f[i] = next(f, i)
           S == [1..n -> Seq(A)]
           T == {m \in 0..n : \E f \in S : Follows(f, m)}
           Def(f) == f = [i \in 1..n |-> next(f, i)]
<1>1. Len(parts) = n /\ n \in Nat /\ n # 0
  OBVIOUS
<1>2. FlattenSeq(parts) = (CHOOSE f : Def(f))[n]
  BY <1>1 DEF FlattenSeq
<1>3. 0 \in T
  <2>1. Follows(parts, 0)
    OBVIOUS
  <2> HIDE DEF Follows
  <2>2. QED
    BY <1>1, <2>1
<1>4. ASSUME NEW m \in 1..n, m - 1 \in T
      PROVE  m \in T
  <2>1. PICK f \in S : Follows(f, m - 1)
    BY <1>4
  <2> DEFINE g == [i \in 1..n |-> IF i = m THEN next(f, m) ELSE f[i]]
  <2>2. next(f, m) \in Seq(A)
    <3>1. CASE m = 1
      BY <3>1
    <3>2. CASE m # 1
      <4>1. m - 1 \in 1..n
        BY <1>1, <3>2
      <4>2. f[m - 1] \in Seq(A) /\ parts[m] \in Seq(A)
        BY <4>1
      <4>3. QED
        BY <3>2, <4>2, ConcatProperties
    <3>3. QED
      BY <3>1, <3>2
  <2>3. g \in S
    <3> HIDE DEF next
    <3>1. QED
      BY <2>2
  <2>4. ASSUME NEW i \in 1..m
        PROVE  g[i] = next(g, i)
    <3>1. i \in 1..n /\ (i # 1 => i - 1 \in 1..n /\ i - 1 # m)
      BY <1>1
    <3>2. i # 1 => g[i - 1] = f[i - 1]
      BY <3>1
    <3>3. next(g, i) = next(f, i)
      BY <3>2
    <3>4. CASE i = m
      <4> HIDE DEF next
      <4>1. QED
        BY <3>1, <3>3, <3>4
    <3>5. CASE i # m
      <4>1. i \in 1..(m - 1)
        BY <3>1, <3>5
      <4>2. f[i] = next(f, i)
        BY <2>1, <4>1
      <4> HIDE DEF next
      <4>3. QED
        BY <3>1, <3>3, <3>5, <4>2
    <3>6. QED
      BY <3>4, <3>5
  <2>5. Follows(g, m)
    <3> HIDE DEF g, next
    <3>1. QED
      BY <2>4
  <2>6. m \in 0..n
    BY <1>1
  <2> HIDE DEF g, next, Follows, S
  <2>7. QED
    BY <2>3, <2>5, <2>6
<1>5. 0..n \subseteq T
  <2> HIDE DEF T
  <2>1. QED
    BY <1>1, <1>3, <1>4, UpTo
<1>6. PICK f \in S : Follows(f, n)
  <2> HIDE DEF Follows, S
  <2>1. n \in T
    BY <1>1, <1>5
  <2>2. QED
    BY <2>1
<1>7. Def(f)
  <2> HIDE DEF next
  <2>1. f = [i \in 1..n |-> f[i]]
    BY DEF S
  <2>2. QED
    BY <1>6, <2>1
<1> DEFINE g == CHOOSE h : Def(h)
<1>8. Def(g)
  <2> HIDE DEF Def
  <2>1. QED
    BY <1>7
<1> HIDE DEF g
<1>9. \A i \in 1..n : g[i] = next(g, i)
  <2> HIDE DEF next
  <2>1. QED
    BY <1>8
<1> DEFINE U == {m \in 0..n : m # 0 => g[m] = f[m]}
<1>10. 0..n \subseteq U
  <2>1. 0 \in U
    BY <1>1
  <2>2. ASSUME NEW m \in 1..n, m - 1 \in U
        PROVE  m \in U
    <3>1. m # 1 => g[m - 1] = f[m - 1]
      BY <1>1, <2>2
    <3>2. next(g, m) = next(f, m)
      BY <3>1
    <3>3. m \in 0..n
      BY <1>1
    <3> HIDE DEF next
    <3>4. QED
      BY <1>6, <1>9, <3>2, <3>3
  <2> HIDE DEF U
  <2>3. QED
    BY <1>1, <2>1, <2>2, UpTo
<1>11. g[n] = f[n]
  <2>1. n \in U
    BY <1>1, <1>10
  <2>2. QED
    BY <1>1, <2>1
<1>12. FlattenSeq(parts) = f[n]
  BY <1>2, <1>11 DEF g
<1>13. f[1] = parts[1]
  BY <1>1, <1>6
<1>14. \A i \in 2..n : f[i] = f[i - 1] \o parts[i]
  <2> TAKE i \in 2..n
  <2>1. i \in 1..n /\ i # 1
    BY <1>1
  <2>2. f[i] = next(f, i)
    BY <1>6, <2>1
  <2>3. QED
    BY <2>1, <2>2
<1>15. QED
  BY <1>12, <1>13, <1>14

\* A list behind another repeats nothing if neither does and they share nothing.
LEMMA ConcatInjective ==
    ASSUME NEW A, NEW s \in Seq(A), NEW t \in Seq(A), IsInjective(s), IsInjective(t),
           Range(s) \cap Range(t) = {}
    PROVE  IsInjective(s \o t)
<1> DEFINE n == Len(s)
           m == Len(t)
           u == s \o t
<1>1. /\ n \in Nat /\ m \in Nat /\ DOMAIN s = 1..n /\ DOMAIN t = 1..m
      /\ u \in Seq(A) /\ Len(u) = n + m
  BY LenProperties, ConcatProperties
<1>2. DOMAIN u = 1..(n + m)
  BY <1>1, LenProperties
<1>3. \A i \in 1..(n + m) : u[i] = IF i <= n THEN s[i] ELSE t[i - n]
  BY ConcatProperties
<1> HIDE DEF n, m, u
<1>4. \A i, j \in 1..n : s[i] = s[j] => i = j
  BY <1>1 DEF IsInjective
<1>5. \A i, j \in 1..m : t[i] = t[j] => i = j
  BY <1>1 DEF IsInjective
<1>6. \A i \in 1..n, j \in 1..m : s[i] # t[j]
  <2>1. \A i \in 1..n : s[i] \in Range(s)
    BY <1>1 DEF Range
  <2>2. \A j \in 1..m : t[j] \in Range(t)
    BY <1>1 DEF Range
  <2>3. QED
    BY <2>1, <2>2
<1>7. \A i \in 1..(n + m) : i <= n => i \in 1..n
  BY <1>1
<1>8. \A i \in 1..(n + m) : ~ (i <= n) => i - n \in 1..m
  BY <1>1
<1>9. ASSUME NEW i \in 1..(n + m), NEW j \in 1..(n + m), u[i] = u[j]
      PROVE  i = j
  <2>1. CASE i <= n /\ j <= n
    BY <1>3, <1>4, <1>7, <1>9, <2>1
  <2>2. CASE ~ (i <= n) /\ ~ (j <= n)
    <3>1. i - n = j - n
      BY <1>3, <1>5, <1>8, <1>9, <2>2
    <3>2. QED
      BY <1>1, <3>1
  <2>3. CASE i <= n /\ ~ (j <= n)
    BY <1>3, <1>6, <1>7, <1>8, <1>9, <2>3
  <2>4. CASE ~ (i <= n) /\ j <= n
    <3>1. u[i] = t[i - n] /\ u[j] = s[j] /\ i - n \in 1..m /\ j \in 1..n
      BY <1>3, <1>7, <1>8, <2>4
    <3>2. QED
      BY <1>6, <1>9, <3>1
  <2>5. QED
    BY <2>1, <2>2, <2>3, <2>4
<1>10. QED
  BY <1>2, <1>9 DEF IsInjective, u

\* Before it is sorted the list has each stored trace once.
LEMMA UnsortedListing ==
    ASSUME TracesInv
    PROVE  LET parts == [s \in 1..MaxShards |-> shards[s - 1]]
           IN  /\ FlattenSeq(parts) \in Seq(Requests) /\ IsInjective(FlattenSeq(parts))
               /\ Range(FlattenSeq(parts)) = Stored
<1> DEFINE parts == [s \in 1..MaxShards |-> shards[s - 1]]
           upTo(m) == UNION {Range(shards[s]) : s \in {t \in Shards : t < m}}
<1>1. MaxShards \in Nat \ {0} /\ \A m \in 1..MaxShards : m - 1 \in Shards
  BY Constants DEF Shards
<1>2. \A s \in Shards : shards[s] \in Seq(Requests) /\ IsInjective(shards[s])
  BY DEF TracesInv, Typed, Once
<1>3. \A m \in 1..MaxShards : parts[m] = shards[m - 1]
  OBVIOUS
<1>4. parts \in [1..MaxShards -> Seq(Requests)]
  BY <1>1, <1>2
<1> HIDE DEF parts
<1>5. PICK g \in [1..MaxShards -> Seq(Requests)] :
         /\ g[1] = parts[1]
         /\ \A i \in 2..MaxShards : g[i] = g[i - 1] \o parts[i]
         /\ FlattenSeq(parts) = g[MaxShards]
  <2>1. \E g \in [1..MaxShards -> Seq(Requests)] :
         /\ g[1] = parts[1]
         /\ \A i \in 2..MaxShards : g[i] = g[i - 1] \o parts[i]
         /\ FlattenSeq(parts) = g[MaxShards]
    <3> HIDE DEF upTo
    <3>1. MaxShards \in Nat \ {0}
      BY <1>1
    <3>2. \A p \in [1..MaxShards -> Seq(Requests)] :
            \E g \in [1..MaxShards -> Seq(Requests)] :
         /\ g[1] = p[1]
         /\ \A i \in 2..MaxShards : g[i] = g[i - 1] \o p[i]
         /\ FlattenSeq(p) = g[MaxShards]
      BY <3>1, Flattening, Zenon
    <3>3. QED
      BY <1>4, <3>2, Zenon
  <2>2. QED
    BY <2>1
<1> DEFINE Good(m) == m # 0 => IsInjective(g[m]) /\ Range(g[m]) = upTo(m)
           T == {m \in 0..MaxShards : Good(m)}
<1>6. 0 \in T
  BY <1>1
<1>7. ASSUME NEW m \in 1..MaxShards, m - 1 \in T
      PROVE  m \in T
  <2>1. upTo(m) = upTo(m - 1) \cup Range(shards[m - 1])
    <3>1. m - 1 \in Shards /\ Shards \subseteq Nat
      BY <1>1, Constants
    <3>2. \A t \in Shards : t < m <=> t < m - 1 \/ t = m - 1
      BY <3>1
    <3>3. QED
      BY <3>1, <3>2
  <2>2. CASE m = 1
    <3>1. upTo(0) = {}
      <4>1. \A t \in Shards : ~ (t < 0)
        BY Constants
      <4>2. QED
        BY <4>1
    <3> HIDE DEF upTo
    <3>2. g[1] = shards[0] /\ 0 \in Shards
      BY <1>1, <1>3, <1>5, Constants
    <3>3. Good(m)
      BY <1>2, <2>1, <2>2, <3>1, <3>2
    <3>4. QED
      BY <1>1, <3>3
  <2>3. CASE m # 1
    <3>1. m \in 2..MaxShards /\ m - 1 \in 1..MaxShards
      BY <1>1, <2>3
    <3>2. g[m] = g[m - 1] \o shards[m - 1]
      BY <1>3, <1>5, <3>1
    <3>3. IsInjective(g[m - 1]) /\ Range(g[m - 1]) = upTo(m - 1)
      BY <1>7, <3>1
    <3>4. g[m - 1] \in Seq(Requests) /\ m - 1 \in Shards
      BY <1>1, <3>1
    <3>5. upTo(m - 1) \cap Range(shards[m - 1]) = {}
      <4>1. \A t \in Shards : t < m - 1 => Range(shards[t]) \cap Range(shards[m - 1]) = {}
        <5>1. \A t \in Shards : t < m - 1 => t # m - 1
          BY <3>4, Constants
        <5>2. QED
          BY <3>4, <5>1 DEF TracesInv, Once
      <4>2. QED
        BY <4>1
    <3> HIDE DEF upTo
    <3>6. IsInjective(g[m])
      BY <1>2, <3>2, <3>3, <3>4, <3>5, ConcatInjective
    <3>7. Range(g[m]) = upTo(m)
      BY <1>2, <2>1, <3>2, <3>3, <3>4, RangeConcatenation
    <3>8. QED
      BY <1>1, <3>6, <3>7
  <2>4. QED
    BY <2>2, <2>3
<1>8. 0..MaxShards \subseteq T
  <2> HIDE DEF T
  <2>1. QED
    BY <1>1, <1>6, <1>7, UpTo
<1>9. IsInjective(g[MaxShards]) /\ Range(g[MaxShards]) = upTo(MaxShards)
  <2>1. MaxShards \in T /\ MaxShards # 0
    BY <1>1, <1>8
  <2> HIDE DEF upTo
  <2>2. QED
    BY <2>1
<1>10. upTo(MaxShards) = Stored
  BY Constants DEF Stored
<1>11. g[MaxShards] \in Seq(Requests)
  BY <1>1
<1>12. FlattenSeq(parts) \in Seq(Requests) /\ IsInjective(FlattenSeq(parts)) /\ Range(FlattenSeq(parts)) = Stored
  <2> HIDE DEF upTo
  <2>1. QED
    BY <1>5, <1>9, <1>10, <1>11
<1>13. QED
  <2> USE <1>12
  <2> HIDE DEF upTo
  <2>1. QED
    BY DEF parts

\* Sorting keeps the list's traces, each of them once, and puts those first that
\* started last.
LEMMA NewestFirstProperties ==
    ASSUME NEW q \in Seq(Requests), IsInjective(q),
           \A r \in Requests : call[r].start \in Int
    PROVE  LET l == NewestFirst(q)
           IN  /\ l \in Seq(Requests) /\ IsInjective(l) /\ Range(l) = Range(q)
               /\ \A i, j \in DOMAIN l : i < j => call[l[i]].start >= call[l[j]].start
<1> DEFINE n == Len(q)
           D == 1..n
           start(i) == call[q[i]].start
           precedes(i, j) == start(i) > start(j) \/ (start(i) = start(j) /\ i < j)
           earlier(j) == {i \in D : precedes(i, j)}
           place(j) == Cardinality(earlier(j)) + 1
           at(p) == CHOOSE j \in D : place(j) = p
           l == NewestFirst(q)
<1>1. n \in Nat /\ DOMAIN q = D /\ \A i \in D : i \in Nat /\ q[i] \in Requests /\ start(i) \in Int
  BY LenProperties
<1>2. l = [p \in D |-> q[at(p)]]
  BY <1>1 DEF NewestFirst
<1>3. IsFiniteSet(D) /\ Cardinality(D) = n
  BY <1>1, FS_Interval
<1> HIDE DEF n, start, l
<1>4. \A j \in D : IsFiniteSet(earlier(j)) /\ Cardinality(earlier(j)) \in Nat
  <2>1. \A j \in D : earlier(j) \in SUBSET D
    OBVIOUS
  <2> HIDE DEF earlier
  <2>2. QED
    BY <1>3, <2>1, FS_Subset, FS_CardinalityType
<1>5. ASSUME NEW i \in D, NEW j \in D, i # j
      PROVE  precedes(i, j) \/ precedes(j, i)
  BY <1>1, <1>5
<1>6. \A j \in D : ~ precedes(j, j)
  BY <1>1
<1>7. ASSUME NEW i \in D, NEW j \in D, NEW k \in D, precedes(i, j), precedes(j, k)
      PROVE  precedes(i, k)
  BY <1>1, <1>7
<1>8. ASSUME NEW i \in D, NEW j \in D, precedes(i, j)
      PROVE  place(i) < place(j)
  <2>1. earlier(i) \subseteq earlier(j)
    BY <1>7, <1>8
  <2>2. i \in earlier(j) /\ i \notin earlier(i)
    BY <1>6, <1>8
  <2> HIDE DEF earlier, precedes
  <2>3. Cardinality(earlier(i)) <= Cardinality(earlier(j))
    BY <1>4, <2>1, FS_Subset
  <2>4. Cardinality(earlier(i)) # Cardinality(earlier(j))
    BY <1>4, <2>1, <2>2, FS_Subset
  <2>5. Cardinality(earlier(i)) \in Nat /\ Cardinality(earlier(j)) \in Nat
    BY <1>4
  <2>6. QED
    BY <2>3, <2>4, <2>5
<1>9. \A j \in D : place(j) \in D
  <2> SUFFICES ASSUME NEW j \in D
               PROVE  place(j) \in D
    OBVIOUS
  <2>1. earlier(j) \in SUBSET (D \ {j})
    BY <1>6
  <2> HIDE DEF earlier, precedes
  <2>2. IsFiniteSet(D \ {j}) /\ Cardinality(D \ {j}) = n - 1
    BY <1>1, <1>3, FS_RemoveElement
  <2>3. Cardinality(earlier(j)) <= n - 1
    BY <2>1, <2>2, FS_Subset
  <2>4. Cardinality(earlier(j)) \in Nat
    BY <1>4
  <2>5. QED
    BY <1>1, <2>3, <2>4
<1>10. \A i, j \in D : place(i) = place(j) => i = j
  <2> SUFFICES ASSUME NEW i \in D, NEW j \in D, place(i) = place(j), i # j
               PROVE  FALSE
    OBVIOUS
  <2> HIDE DEF precedes, earlier
  <2>1. place(i) < place(j) \/ place(j) < place(i)
    BY <1>5, <1>8
  <2>2. place(i) \in Nat /\ place(j) \in Nat
    BY <1>4
  <2>3. QED
    BY <2>1, <2>2
<1>11. ASSUME NEW i \in D, NEW j \in D, place(i) < place(j)
       PROVE  start(i) >= start(j)
  <2> USE DEF precedes
  <2>1. start(i) \in Int /\ start(j) \in Int
    BY <1>1
  <2>2. CASE precedes(i, j)
    BY <2>1, <2>2
  <2>3. CASE precedes(j, i)
    <3> HIDE DEF precedes, earlier
    <3>1. place(j) < place(i) /\ place(i) \in Nat /\ place(j) \in Nat
      BY <1>4, <1>8, <2>3
    <3>2. QED
      BY <1>11, <3>1
  <2>4. CASE i = j
    BY <2>1, <2>4
  <2>5. QED
    <3> HIDE DEF precedes, earlier
    <3>1. QED
      BY <1>5, <2>2, <2>3, <2>4
<1> HIDE DEF precedes, earlier
<1>12. \A p \in D : \E j \in D : place(j) = p
  <2> DEFINE f == [j \in D |-> place(j)]
  <2>1. f \in [D -> D] /\ \A i, j \in D : f[i] = f[j] => i = j
    BY <1>9, <1>10
  <2>2. f \in Injection(D, D)
    <3> HIDE DEF f, D
    <3>1. QED
      BY <2>1 DEF Injection, IsInjective
  <2>3. f \in Surjection(D, D)
    <3> HIDE DEF f, D
    <3>1. QED
      BY <1>3, <2>2, FS_Injection
  <2>4. \A p \in D : \E j \in D : f[j] = p
    <3> HIDE DEF f, D
    <3>1. QED
      BY <2>3 DEF Surjection
  <2>5. QED
    BY <2>4
<1>13. \A p \in D : at(p) \in D /\ place(at(p)) = p
  <2> HIDE DEF D, place
  <2>1. QED
    BY <1>12
<1>14. \A j \in D : at(place(j)) = j
  <2> SUFFICES ASSUME NEW j \in D
               PROVE  at(place(j)) = j
    OBVIOUS
  <2> DEFINE i == at(place(j))
  <2>1. i \in D /\ place(i) = place(j)
    BY <1>9, <1>13
  <2> HIDE DEF i
  <2>2. i = j
    BY <1>10, <2>1
  <2>3. QED
    BY <2>2 DEF i
<1> HIDE DEF at, place
<1>15. l \in [D -> Requests]
  BY <1>1, <1>2, <1>13
<1>16. l \in Seq(Requests) /\ DOMAIN l = D
  BY <1>1, <1>15
<1>17. \A p \in D : l[p] = q[at(p)] /\ at(p) \in D
  BY <1>2, <1>13
<1>18. Range(l) = Range(q)
  <2>1. \A j \in D : place(j) \in D /\ l[place(j)] = q[j]
    BY <1>2, <1>9, <1>14
  <2> HIDE DEF D
  <2>2. QED
    BY <1>1, <1>16, <1>17, <2>1 DEF Range
<1>19. IsInjective(l)
  <2> SUFFICES ASSUME NEW i \in D, NEW j \in D, l[i] = l[j]
               PROVE  i = j
    BY <1>16 DEF IsInjective
  <2>1. at(i) = at(j)
    <3> HIDE DEF D
    <3>1. QED
      BY <1>1, <1>17 DEF IsInjective
  <2>2. QED
    BY <1>13, <2>1
<1>20. ASSUME NEW i \in D, NEW j \in D, i < j
       PROVE  call[l[i]].start >= call[l[j]].start
  <2>1. start(at(i)) >= start(at(j))
    BY <1>11, <1>13, <1>20
  <2>2. QED
    BY <1>17, <2>1 DEF start
<1>21. QED
  BY <1>16, <1>18, <1>19, <1>20 DEF l

\* What the rounding down of a quotient leaves is less than the divisor.
LEMMA Quotient ==
    ASSUME NEW a \in Nat, NEW b \in Nat \ {0}
    PROVE  /\ a \div b \in Nat /\ (a \div b) * b \in Nat
           /\ (a \div b) * b <= a /\ a < (a \div b) * b + b
  OBVIOUS

\* Multiples keep the order of their factors.
LEMMA Multiples ==
    ASSUME NEW a \in Nat, NEW b \in Nat, NEW c \in Nat, a <= b
    PROVE  /\ a * c \in Nat /\ b * c \in Nat /\ a * c <= b * c
           /\ (a + 1) * c = a * c + c
<1>1. a * c \in Nat /\ b * c \in Nat /\ (b - a) \in Nat /\ (b - a) * c \in Nat
  OBVIOUS
<1>2. b * c = a * c + (b - a) * c
  OBVIOUS
<1>3. (a + 1) * c = a * c + c
  OBVIOUS
<1>4. QED
  BY <1>1, <1>2, <1>3

LEMMA LeastOfTwo ==
    ASSUME NEW a \in Nat, NEW b \in Nat
    PROVE  /\ Min({a, b}) = IF a <= b THEN a ELSE b
           /\ Max({a, b}) = IF a <= b THEN b ELSE a
<1>1. \E x \in {a, b} : \A y \in {a, b} : x <= y
  OBVIOUS
<1>2. \E x \in {a, b} : \A y \in {a, b} : x >= y
  OBVIOUS
<1>3. Min({a, b}) \in {a, b} /\ Min({a, b}) <= a /\ Min({a, b}) <= b
  BY <1>1 DEF Min
<1>4. Max({a, b}) \in {a, b} /\ Max({a, b}) >= a /\ Max({a, b}) >= b
  BY <1>2 DEF Max
<1>5. QED
  BY <1>3, <1>4

\* There are as many pages as it takes, none of them empty.
LEMMA EnoughPages ==
    ASSUME NEW A, NEW l \in Seq(A), NEW size \in 1..Len(l)
    PROVE  LET n == TotalPages(l, size)
           IN  n \in Nat \ {0} /\ (n - 1) * size < Len(l) /\ Len(l) <= n * size
<1> DEFINE a == Len(l) + size - 1
           q == a \div size
<1>1. Len(l) \in Nat /\ size \in Nat \ {0} /\ size <= Len(l) /\ a \in Nat
  BY LenProperties
<1>2. a = Len(l) + size - 1
  OBVIOUS
<1>3. TotalPages(l, size) = Max({1, q})
  BY DEF TotalPages
<1> HIDE DEF a
<1>4. q \in Nat /\ q * size \in Nat /\ q * size <= a /\ a < q * size + size
  BY <1>1, Quotient
<1> HIDE DEF q
<1>5. q # 0
  BY <1>1, <1>2, <1>4
<1>6. TotalPages(l, size) = q
  <2>1. 1 \in Nat /\ 1 <= q
    BY <1>4, <1>5
  <2>2. Max({1, q}) = q
    BY <1>4, <2>1, LeastOfTwo
  <2>3. QED
    BY <1>3, <2>2
<1>7. (q - 1) * size \in Nat /\ q * size = (q - 1) * size + size
  <2>1. q - 1 \in Nat /\ (q - 1) + 1 = q
    BY <1>4, <1>5
  <2> DEFINE r == q - 1
  <2>2. r \in Nat /\ r + 1 = q
    BY <2>1
  <2> HIDE DEF r
  <2>3. r * size \in Nat /\ (r + 1) * size = r * size + size
    BY <1>1, <2>2, Multiples
  <2>4. q * size = r * size + size
    BY <2>2, <2>3
  <2>5. QED
    BY <2>3, <2>4 DEF r
<1>8. (q - 1) * size < Len(l) /\ Len(l) <= q * size
  <2> DEFINE x == q * size
             y == (q - 1) * size
  <2>1. x \in Nat /\ y \in Nat /\ x = y + size /\ x <= a /\ a < x + size
    BY <1>4, <1>7
  <2> HIDE DEF x, y
  <2>2. y < Len(l) /\ Len(l) <= x
    BY <1>1, <1>2, <2>1
  <2>3. QED
    BY <2>2 DEF x, y
<1>9. QED
  BY <1>4, <1>5, <1>6, <1>8

\* Where a page of the table begins and ends, and where one beyond the last does.
LEMMA PageBounds ==
    ASSUME NEW A, NEW l \in Seq(A), NEW size \in 1..Len(l)
    PROVE  LET n == TotalPages(l, size)
           IN  /\ \A p \in 1..n :
                     /\ PageOf(l, p, size) = SubSeq(l, (p - 1) * size + 1,
                                                    IF p = n THEN Len(l) ELSE p * size)
                     /\ (p - 1) * size \in Nat /\ p * size \in Nat
                     /\ p * size = (p - 1) * size + size
                     /\ (p - 1) * size < Len(l)
                     /\ p # n => p * size < Len(l)
               /\ PageOf(l, n + 1, size) = PageOf(l, n, size)
<1> DEFINE n == TotalPages(l, size)
<1>1. n \in Nat \ {0} /\ (n - 1) * size < Len(l) /\ Len(l) <= n * size
  BY EnoughPages
<1>2. Len(l) \in Nat /\ size \in Nat
  BY LenProperties
<1> DEFINE last == (n - 1) * size
           all == n * size
<1>3. all \in Nat /\ last \in Nat /\ last < Len(l) /\ Len(l) <= all
  <2>1. n - 1 \in Nat
    BY <1>1
  <2>2. n * size \in Nat /\ (n - 1) * size \in Nat
    BY <1>1, <1>2, <2>1, Multiples
  <2>3. QED
    BY <1>1, <2>2
<1>4. \A p : PageOf(l, p, size) = LET q == Max({1, Min({p, n})})
                                  IN  SubSeq(l, (q - 1) * size + 1, Min({q * size, Len(l)}))
  BY DEF PageOf
<1> HIDE DEF n
<1>5. ASSUME NEW p \in 1..n
      PROVE  /\ (p - 1) * size \in Nat /\ p * size \in Nat
             /\ p * size = (p - 1) * size + size
             /\ (p - 1) * size < Len(l)
             /\ p # n => p * size < Len(l)
  <2>1. p \in Nat /\ p - 1 \in Nat /\ n - 1 \in Nat /\ p - 1 <= n - 1 /\ (p # n => p <= n - 1)
    BY <1>1
  <2>2. (p - 1) * size \in Nat /\ (p - 1) * size <= last
    BY <1>2, <2>1, Multiples
  <2>3. p * size \in Nat /\ (p # n => p * size <= last)
    BY <1>2, <2>1, Multiples
  <2>4. p * size = (p - 1) * size + size
    <3> DEFINE r == p - 1
    <3>1. r \in Nat /\ r + 1 = p
      BY <2>1
    <3> HIDE DEF r
    <3>2. (r + 1) * size = r * size + size
      BY <1>2, <3>1, Multiples
    <3>3. p * size = r * size + size
      BY <3>1, <3>2
    <3>4. QED
      BY <3>3 DEF r
  <2> DEFINE x == p * size
             y == (p - 1) * size
  <2>5. x \in Nat /\ y \in Nat /\ y <= last /\ (p # n => x <= last)
    BY <2>2, <2>3
  <2> HIDE DEF x, y, last
  <2>6. y < Len(l) /\ (p # n => x < Len(l))
    BY <1>2, <1>3, <2>5
  <2>7. QED
    BY <2>2, <2>3, <2>4, <2>6 DEF x, y
<1>6. ASSUME NEW p \in 1..n
      PROVE  PageOf(l, p, size) = SubSeq(l, (p - 1) * size + 1,
                                         IF p = n THEN Len(l) ELSE p * size)
  <2>1. Max({1, Min({p, n})}) = p
    <3>1. p \in Nat /\ n \in Nat /\ 1 <= p /\ p <= n
      BY <1>1
    <3>2. Min({p, n}) = p
      BY <3>1, LeastOfTwo
    <3>3. Max({1, p}) = p
      BY <3>1, LeastOfTwo
    <3>4. QED
      BY <3>2, <3>3
  <2>2. Min({p * size, Len(l)}) = IF p = n THEN Len(l) ELSE p * size
    <3> DEFINE x == p * size
    <3>1. x \in Nat /\ (p # n => x < Len(l)) /\ (p = n => Len(l) <= x)
      BY <1>3, <1>5
    <3> HIDE DEF x
    <3>2. Min({x, Len(l)}) = IF p = n THEN Len(l) ELSE x
      <4>1. Min({x, Len(l)}) = IF x <= Len(l) THEN x ELSE Len(l)
        BY <1>2, <3>1, LeastOfTwo
      <4>2. QED
        BY <1>2, <3>1, <4>1
    <3>3. QED
      BY <3>2 DEF x
  <2>3. QED
    BY <1>4, <2>1, <2>2
<1>7. PageOf(l, n + 1, size) = PageOf(l, n, size)
  <2>1. n + 1 \in Nat /\ n \in Nat /\ ~ (n + 1 <= n) /\ n <= n
    BY <1>1
  <2>2. Min({n + 1, n}) = n /\ Min({n, n}) = n
    BY <2>1, LeastOfTwo
  <2>3. QED
    BY <1>4, <2>2
<1>8. QED
  BY <1>5, <1>6, <1>7 DEF n

\* The pages one behind another are the list.
LEMMA PagesInARow ==
    ASSUME NEW A, NEW l \in Seq(A), NEW size \in 1..Len(l)
    PROVE  LET n == TotalPages(l, size)
           IN  /\ FlattenSeq([p \in 1..n |-> PageOf(l, p, size)]) = l
               /\ PageOf(l, n, size) # <<>>
<1> DEFINE n == TotalPages(l, size)
           parts == [p \in 1..n |-> PageOf(l, p, size)]
           from(p) == (p - 1) * size
           end(p) == IF p = n THEN Len(l) ELSE p * size
<1>1. n \in Nat \ {0}
  BY EnoughPages
<1>2. Len(l) \in Nat /\ size \in Nat \ {0} /\ DOMAIN l = 1..Len(l) /\ \A i \in 1..Len(l) : l[i] \in A
  BY LenProperties
<1>3. ASSUME NEW p \in 1..n
      PROVE  /\ PageOf(l, p, size) = SubSeq(l, from(p) + 1, end(p))
             /\ from(p) \in Nat /\ end(p) \in Nat
             /\ from(p) < Len(l) /\ end(p) <= Len(l) /\ from(p) < end(p)
  <2>1. /\ PageOf(l, p, size) = SubSeq(l, from(p) + 1, end(p))
        /\ (p - 1) * size \in Nat /\ p * size \in Nat
        /\ p * size = (p - 1) * size + size
        /\ (p - 1) * size < Len(l)
        /\ p # n => p * size < Len(l)
    BY PageBounds
  <2> DEFINE x == p * size
             y == (p - 1) * size
  <2>2. x \in Nat /\ y \in Nat /\ x = y + size /\ y < Len(l) /\ (p # n => x < Len(l))
    BY <2>1
  <2> HIDE DEF x, y, n
  <2>3. y < Len(l) /\ (p = n => Len(l) > y) /\ (p # n => x <= Len(l) /\ y < x)
    BY <1>2, <2>2
  <2>4. QED
    <3>1. CASE p = n
      BY <1>2, <2>1, <2>2, <2>3, <3>1 DEF x, y
    <3>2. CASE p # n
      BY <2>1, <2>2, <2>3, <3>2 DEF x, y
    <3>3. QED
      BY <3>1, <3>2
<1>4. \A p \in 2..n : from(p) = end(p - 1)
  BY <1>1
<1>5. from(1) = 0
  BY <1>2
<1>6. end(n) = Len(l)
  OBVIOUS
<1>7. \A p \in 1..n : parts[p] = PageOf(l, p, size)
  OBVIOUS
<1> HIDE DEF n, from, end
<1>8. \A p \in 1..n : PageOf(l, p, size) \in Seq(A)
  <2> TAKE p \in 1..n
  <2>1. \A i \in from(p) + 1 .. end(p) : l[i] \in A
    BY <1>2, <1>3
  <2>2. SubSeq(l, from(p) + 1, end(p)) \in Seq(A)
    BY <1>3, <2>1, SubSeqProperties
  <2>3. QED
    BY <1>3, <2>2
<1>9. parts \in [1..n -> Seq(A)]
  BY <1>8
<1> HIDE DEF parts
<1>10. PICK g \in [1..n -> Seq(A)] :
          /\ g[1] = parts[1]
          /\ \A i \in 2..n : g[i] = g[i - 1] \o parts[i]
          /\ FlattenSeq(parts) = g[n]
  <2>1. \A p \in [1..n -> Seq(A)] : \E g \in [1..n -> Seq(A)] :
           /\ g[1] = p[1]
           /\ \A i \in 2..n : g[i] = g[i - 1] \o p[i]
           /\ FlattenSeq(p) = g[n]
    BY <1>1, Flattening, Zenon
  <2>2. QED
    BY <1>9, <2>1, Zenon
<1> DEFINE T == {m \in 0..n : m # 0 => g[m] = SubSeq(l, 1, end(m))}
<1>11. 0 \in T
  BY <1>1
<1>12. ASSUME NEW m \in 1..n, m - 1 \in T
       PROVE  m \in T
  <2>1. m \in 0..n
    BY <1>1
  <2>2. CASE m = 1
    <3>1. g[1] = SubSeq(l, from(1) + 1, end(1))
      BY <1>3, <1>7, <1>10, <2>2
    <3>2. from(1) + 1 = 1
      BY <1>5
    <3>3. QED
      BY <2>1, <2>2, <3>1, <3>2
  <2>3. CASE m # 1
    <3>1. m \in 2..n /\ m - 1 \in 1..n
      BY <1>1, <2>3
    <3>2. g[m] = SubSeq(l, 1, end(m - 1)) \o SubSeq(l, end(m - 1) + 1, end(m))
      <4>1. g[m] = g[m - 1] \o parts[m]
        BY <1>10, <3>1
      <4>2. g[m - 1] = SubSeq(l, 1, end(m - 1))
        BY <1>12, <3>1
      <4>3. parts[m] = SubSeq(l, from(m) + 1, end(m)) /\ from(m) = end(m - 1)
        BY <1>3, <1>4, <1>7, <3>1
      <4>4. QED
        BY <4>1, <4>2, <4>3
    <3>3. 1 \in 1..(Len(l) + 1) /\ end(m - 1) \in (1 - 1)..Len(l) /\ end(m) \in end(m - 1)..Len(l)
      BY <1>2, <1>3, <1>4, <3>1
    <3>4. g[m] = SubSeq(l, 1, end(m))
      BY <3>2, <3>3, ConcatAdjacentSubSeq
    <3>5. QED
      BY <2>1, <3>4
  <2>4. QED
    BY <2>2, <2>3
<1>13. g[n] = SubSeq(l, 1, Len(l))
  <2>1. 0..n \subseteq T
    <3> HIDE DEF T
    <3>1. QED
      BY <1>1, <1>11, <1>12, UpTo
  <2>2. n \in T
    BY <1>1, <2>1
  <2>3. QED
    BY <1>1, <1>6, <2>2
<1>14. FlattenSeq(parts) = l
  BY <1>10, <1>13, SubSeqFull
<1>15. PageOf(l, n, size) # <<>>
  <2>1. n \in 1..n
    BY <1>1
  <2>2. \A i \in from(n) + 1 .. end(n) : l[i] \in A
    BY <1>2, <1>3, <2>1
  <2>3. Len(SubSeq(l, from(n) + 1, end(n))) = end(n) - from(n)
    <3>1. from(n) + 1 \in Int /\ end(n) \in Int /\ from(n) + 1 <= end(n)
      BY <1>3, <2>1
    <3>2. Len(SubSeq(l, from(n) + 1, end(n))) = end(n) - (from(n) + 1) + 1
      BY <2>2, <3>1, SubSeqProperties
    <3>3. QED
      BY <1>3, <2>1, <3>2
  <2>4. Len(PageOf(l, n, size)) # 0
    BY <1>3, <2>1, <2>3
  <2>5. QED
    BY <2>4
<1>16. QED
  BY <1>14, <1>15 DEF n, parts

\* The pages of the detail table show every stored trace once, newest first, in
\* every order of saving, wrapping, clearing and crashing, and the page after the
\* last is the last.
THEOREM PagesShowEachOnce == Spec => []PagesPartition
<1>1. TracesInv => PagesPartition
  <2> SUFFICES ASSUME TracesInv
               PROVE  PagesPartition
    OBVIOUS
  <2> DEFINE q == FlattenSeq([s \in 1..MaxShards |-> shards[s - 1]])
             l == Listed
  <2>1. q \in Seq(Requests) /\ IsInjective(q) /\ Range(q) = Stored
    BY UnsortedListing
  <2>2. l = NewestFirst(q)
    BY DEF Listed
  <2>3. \A r \in Requests : call[r].start \in Int
    BY DEF TracesInv, Typed, Calls
  <2> HIDE DEF q, l
  <2>4. /\ l \in Seq(Requests) /\ IsInjective(l) /\ Range(l) = Stored
        /\ \A i, j \in DOMAIN l : i < j => call[l[i]].start >= call[l[j]].start
    BY <2>1, <2>2, <2>3, NewestFirstProperties
  <2>5. ASSUME NEW size \in 1..Len(l)
        PROVE  LET n == TotalPages(l, size)
               IN  /\ FlattenSeq([p \in 1..n |-> PageOf(l, p, size)]) = l
                   /\ PageOf(l, n, size) # <<>> /\ PageOf(l, n + 1, size) = PageOf(l, n, size)
    BY <2>4, PageBounds, PagesInARow
  <2>6. QED
    BY <2>4, <2>5 DEF PagesPartition, l
<1>2. QED
  BY <1>1, TracesInvariant, PTL
=============================================================================
