-------------------------- MODULE AccountSessionProofs --------------------------
(* Theorems about AccountSession, for any number of accounts, clients, pages *)
(* and events.                                                               *)
EXTENDS AccountSession, SequenceTheorems, FiniteSetTheorems, WellFoundedInduction, TLAPS

-----------------------------------------------------------------------------
(* Lists                                                                     *)

\* A set of natural numbers has a smallest element.
LEMMA SmallestExists ==
    ASSUME NEW T, T \subseteq Nat, T # {}
    PROVE  \E k \in T : \A j \in T : k <= j
<1> DEFINE R == OpToRel(<, Nat)
<1>1. IsWellFoundedOn(R, Nat)
  BY NatLessThanWellFounded
<1> HIDE DEF R
<1>2. PICK k \in T : \A j \in T : ~ (<<j, k>> \in R)
  BY <1>1, WFMin
<1>3. \A j \in T : ~ (j < k)
  BY <1>2 DEF R, OpToRel
<1>4. QED
  BY <1>3

\* Induction up to n, for a set in the place of a predicate.
LEMMA UpTo ==
    ASSUME NEW n \in Nat, NEW T, 0 \in T, \A i \in 1..n : i - 1 \in T => i \in T
    PROVE  0..n \subseteq T
<1> DEFINE Bad == {i \in 0..n : i \notin T}
<1>1. CASE Bad # {}
  <2> Bad \subseteq Nat
    OBVIOUS
  <2>1. PICK i \in Bad : \A j \in Bad : i <= j
    <3> HIDE DEF Bad
    <3>1. QED
      BY <1>1, SmallestExists
  <2>2. i \in 1..n /\ i - 1 \in 0..n
    BY <2>1
  <2>3. i - 1 \notin Bad
    BY <2>1, <2>2
  <2>4. QED
    BY <2>1, <2>2, <2>3
<1>2. CASE Bad = {}
  BY <1>2
<1>3. QED
  BY <1>1, <1>2

\* One more element at the end.
LEMMA OneMore ==
    ASSUME NEW A, NEW list \in Seq(A), NEW a \in A
    PROVE  /\ Append(list, a) \in Seq(A)
           /\ ToSet(Append(list, a)) = ToSet(list) \cup {a}
           /\ IsInjective(list) /\ a \notin ToSet(list) => IsInjective(Append(list, a))
<1> DEFINE more == Append(list, a)
           n == Len(list)
<1>1. /\ more \in Seq(A) /\ Len(more) = n + 1 /\ n \in Nat
      /\ \A j \in 1..n : more[j] = list[j]
      /\ more[n + 1] = a
  BY AppendProperties
<1>2. DOMAIN more = 1..(n + 1) /\ DOMAIN list = 1..n
  BY <1>1
<1> HIDE DEF more, n
<1>3. ToSet(more) = ToSet(list) \cup {a}
  BY <1>1, <1>2 DEF ToSet
<1>4. ASSUME IsInjective(list), a \notin ToSet(list)
      PROVE  IsInjective(more)
  <2>1. \A j \in 1..n : list[j] # a
    BY <1>2, <1>4 DEF ToSet
  <2>2. \A j, k \in 1..n : list[j] = list[k] => j = k
    BY <1>2, <1>4 DEF IsInjective
  <2>3. \A j, k \in 1..(n + 1) : more[j] = more[k] => j = k
    <3>1. \A j \in 1..(n + 1) : j \in 1..n \/ j = n + 1
      BY <1>1
    <3>2. QED
      BY <1>1, <2>1, <2>2, <3>1
  <2>4. QED
    BY <1>2, <2>3 DEF IsInjective
<1>5. QED
  BY <1>1, <1>3, <1>4 DEF more

\* What Kept returns is a list, has the elements of the list that are in the
\* set and repeats none that the list does not repeat.
LEMMA KeptProperties ==
    ASSUME NEW A, NEW list \in Seq(A), NEW set
    PROVE  /\ Kept(list, set) \in Seq(A)
           /\ ToSet(Kept(list, set)) = ToSet(list) \cap set
           /\ IsInjective(list) => IsInjective(Kept(list, set))
<1> DEFINE n == Len(list)
           step(i, l) == IF list[i] \in set THEN Append(l, list[i]) ELSE l
           Def(k, m) == k = [i \in 0..m |-> IF i = 0 THEN <<>> ELSE step(i, k[i - 1])]
           kept == CHOOSE k : Def(k, n)
<1>1. n \in Nat /\ \A i \in 1..n : list[i] \in A
  OBVIOUS
<1>2. Kept(list, set) = kept[n]
  BY DEF Kept
<1> HIDE DEF n, step
<1>3. \E k : Def(k, n)
  <2> DEFINE T == {m \in 0..n : \E k : Def(k, m)}
  <2>1. 0 \in T
    <3>1. Def([i \in 0..0 |-> <<>>], 0)
      OBVIOUS
    <3> HIDE DEF Def
    <3>2. QED
      BY <1>1, <3>1
  <2>2. ASSUME NEW m \in 1..n, m - 1 \in T
        PROVE  m \in T
    <3>1. PICK k : Def(k, m - 1)
      BY <2>2
    <3> DEFINE l == [i \in 0..m |-> IF i = m THEN step(m, k[m - 1]) ELSE k[i]]
    <3>2. ASSUME NEW i \in 0..m
          PROVE  l[i] = IF i = 0 THEN <<>> ELSE step(i, l[i - 1])
      <4>1. \A j \in 0..(m - 1) : k[j] = IF j = 0 THEN <<>> ELSE step(j, k[j - 1])
        BY <3>1
      <4>2. CASE i = m
        <5>1. m - 1 \in 0..m /\ m - 1 # m /\ m # 0
          BY <1>1
        <5>2. l[m - 1] = k[m - 1] /\ l[m] = step(m, k[m - 1])
          BY <5>1
        <5>3. QED
          BY <4>2, <5>1, <5>2
      <4>3. CASE i # m
        <5>1. i \in 0..(m - 1) /\ (i # 0 => i - 1 \in 0..m /\ i - 1 # m)
          BY <1>1, <4>3
        <5>2. l[i] = k[i] /\ (i # 0 => l[i - 1] = k[i - 1])
          BY <4>3, <5>1
        <5>3. QED
          BY <4>1, <5>1, <5>2
      <4>4. QED
        BY <4>2, <4>3
    <3>3. Def(l, m)
      <4>1. l = [i \in 0..m |-> l[i]]
        OBVIOUS
      <4> HIDE DEF l
      <4>2. QED
        BY <3>2, <4>1
    <3> HIDE DEF Def
    <3>4. QED
      BY <1>1, <3>3
  <2>3. n \in T
    <3> HIDE DEF T
    <3>1. 0..n \subseteq T
      BY <1>1, <2>1, <2>2, UpTo
    <3>2. QED
      BY <1>1, <3>1
  <2>4. QED
    BY <2>3
<1>4. Def(kept, n)
  <2> HIDE DEF Def
  <2>1. QED
    BY <1>3
<1> HIDE DEF kept
<1>5. /\ kept[0] = <<>>
      /\ \A i \in 1..n : kept[i] = step(i, kept[i - 1])
  <2>1. \A i \in 0..n : kept[i] = IF i = 0 THEN <<>> ELSE step(i, kept[i - 1])
    BY <1>4
  <2>2. 0 \in 0..n /\ \A i \in 1..n : i \in 0..n /\ i # 0
    BY <1>1
  <2>3. QED
    BY <2>1, <2>2
<1> DEFINE upTo(i) == {list[j] : j \in 1..i}
           Good(i) == /\ kept[i] \in Seq(A)
                      /\ ToSet(kept[i]) = upTo(i) \cap set
                      /\ IsInjective(list) => IsInjective(kept[i])
           T == {i \in 0..n : Good(i)}
<1>6. 0 \in T
  <2>1. <<>> \in Seq(A) /\ ToSet(<<>>) = {} /\ IsInjective(<<>>)
    BY DEF ToSet, IsInjective
  <2>2. upTo(0) = {} /\ 0 \in 0..n
    BY <1>1
  <2>3. QED
    BY <1>5, <2>1, <2>2
<1>7. ASSUME NEW i \in 1..n, i - 1 \in T
      PROVE  i \in T
  <2> DEFINE l == kept[i - 1]
             x == list[i]
  <2>1. /\ l \in Seq(A) /\ ToSet(l) = upTo(i - 1) \cap set
        /\ IsInjective(list) => IsInjective(l)
        /\ x \in A
    BY <1>1, <1>7
  <2>2. upTo(i) = upTo(i - 1) \cup {x}
    BY <1>1
  <2>3. CASE x \in set
    <3>1. kept[i] = Append(l, x)
      BY <1>5, <2>3 DEF step
    <3>2. /\ kept[i] \in Seq(A) /\ ToSet(kept[i]) = ToSet(l) \cup {x}
          /\ IsInjective(l) /\ x \notin ToSet(l) => IsInjective(kept[i])
      BY <2>1, <3>1, OneMore
    <3>3. ASSUME IsInjective(list)
          PROVE  x \notin ToSet(l)
      <4>1. ASSUME NEW j \in 1..(i - 1)
            PROVE  list[j] # x
        <5>1. j \in DOMAIN list /\ i \in DOMAIN list /\ j # i
          BY <1>1 DEF n
        <5>2. QED
          BY <3>3, <5>1 DEF IsInjective
      <4>2. QED
        BY <2>1, <4>1
    <3>4. ToSet(kept[i]) = upTo(i) \cap set
      BY <2>1, <2>2, <2>3, <3>2
    <3>5. QED
      BY <1>1, <2>1, <3>2, <3>3, <3>4
  <2>4. CASE x \notin set
    <3>1. kept[i] = l
      BY <1>5, <2>4 DEF step
    <3>2. ToSet(kept[i]) = upTo(i) \cap set
      BY <2>1, <2>2, <2>4, <3>1
    <3>3. QED
      BY <1>1, <2>1, <3>1, <3>2
  <2>5. QED
    BY <2>3, <2>4
<1>8. Good(n)
  <2> HIDE DEF T
  <2>1. 0..n \subseteq T
    BY <1>1, <1>6, <1>7, UpTo
  <2>2. n \in T
    BY <1>1, <2>1
  <2>3. QED
    BY <2>2 DEF T
<1>9. upTo(n) = ToSet(list)
  BY DEF ToSet, n
<1>10. QED
  BY <1>2, <1>8, <1>9

-----------------------------------------------------------------------------
(* The invariant                                                             *)

AccountsOrNobody == Accounts \cup {Nobody}
Items == Accounts \cup {"asked", "balance", "resolved"}

Record == [cookie : BOOLEAN, password : BOOLEAN, age : {"new", "fresh", "due"},
           fails : 0 .. MaxFailures, tired : BOOLEAN, stale : BOOLEAN]

\* An update of the book that is under way.
Calls ==
    {u \in [by : Procs \cup {Nobody}, who : AccountsOrNobody, kind : {"save", "clear", "check", "list"},
            at : {"read", "prune", "write", "current", "pass"}, seen : Seq(Accounts)] :
       u.kind # "list" => u.who \in Accounts}

Book == [stored : [Accounts -> Ids \cup {0}], list : Seq(Accounts), current : AccountsOrNobody,
         under : SUBSET Calls, crossed : SUBSET AccountsOrNobody, busy : BOOLEAN]

Afters == {"fresh", "retry", "refresh", "keep"}

Process ==
    [pc : {"idle", "next", "lock", "send", "resend"} \cup Renewals,
     page : Pages \cup {Nobody}, asked : AccountsOrNobody, key : AccountsOrNobody,
     who : AccountsOrNobody, ref : Ids \cup {0}, raw : Ids \cup {0}, force : BOOLEAN,
     after : Afters \cup {Nobody}, todo : Seq(Items),
     from : SUBSET AccountsOrNobody, found : BOOLEAN]

\* A password is given up after as many failures as are allowed.
RecordsOK(o) ==
    /\ o \in [Ids -> Record]
    /\ \A i \in Ids : o[i].password => o[i].fails < MaxFailures

Renewing(r) == r.pc \in Renewals
Waiting(r) == r.pc = "lock" \/ Renewing(r)
Sending(r) == r.pc \in {"send", "resend"}

\* Where a handler is: who it is for is settled before it waits or sends, it
\* has a session to send with, and only a renewal works on a stored record.
ProcessOK(p, r) ==
    /\ r \in Process
    /\ Waiting(r) => r.who \in Accounts /\ r.after \in Afters
    /\ Sending(r) => r.who \in Accounts
    /\ Sending(r) \/ (Waiting(r) /\ r.after # "keep") => r.ref # 0
    /\ Sending(r) \/ (Waiting(r) /\ r.after \in {"fresh", "retry"}) => r.todo # <<>>
    /\ Renewing(r) <=> r.raw # 0
    /\ p = Keeper => /\ r.todo \in Seq(Accounts) /\ ~ Sending(r)
                     /\ Waiting(r) => r.after = "keep"
    /\ p # Keeper => (Waiting(r) => r.after # "keep")

\* No marked record is stored or worked on by a renewal.
Unmarked(o, b, pr) ==
    \A i \in Ids : o[i].stale => i \notin Range(b.stored) /\ \A p \in Procs : pr[p].raw # i

SessionInv ==
    /\ RecordsOK(obj) /\ book \in Book
    /\ lock \in [Accounts -> Procs \cup {Nobody}]
    /\ proc \in [Procs -> Process] /\ \A p \in Procs : ProcessOK(p, proc[p])
    /\ \A p \in Procs : Renewing(proc[p]) => lock[proc[p].who] = p
    /\ Unmarked(obj, book, proc)

-----------------------------------------------------------------------------
(* Records and the book                                                      *)

LEMMA ImageBound ==
    ASSUME NEW S, IsFiniteSet(S), NEW f
    PROVE  /\ IsFiniteSet({f[x] : x \in S})
           /\ Cardinality({f[x] : x \in S}) <= Cardinality(S)
<1> DEFINE T == {f[x] : x \in S}
           g == [x \in S |-> f[x]]
<1>1. g \in Surjection(S, T)
  BY DEF Surjection
<1> HIDE DEF T, g
<1>2. IsFiniteSet(T) /\ Cardinality(T) <= Cardinality(S)
  BY <1>1, FS_Surjection
<1>3. QED
  BY <1>2 DEF T

LEMMA UnionBound ==
    ASSUME NEW S, NEW T, IsFiniteSet(S), IsFiniteSet(T), NEW m \in Nat, NEW n \in Nat,
           Cardinality(S) <= m, Cardinality(T) <= n
    PROVE  IsFiniteSet(S \cup T) /\ Cardinality(S \cup T) <= m + n
<1>1. IsFiniteSet(S \cup T) /\ IsFiniteSet(S \cap T)
  BY FS_Union, FS_Intersection
<1>2. /\ Cardinality(S) \in Nat /\ Cardinality(T) \in Nat
      /\ Cardinality(S \cap T) \in Nat /\ Cardinality(S \cup T) \in Nat
  BY <1>1, FS_CardinalityType
<1>3. Cardinality(S \cup T) = Cardinality(S) + Cardinality(T) - Cardinality(S \cap T)
  BY FS_Union
<1>4. QED
  BY <1>1, <1>2, <1>3

LEMMA ProcsFinite ==
    /\ IsFiniteSet(Procs) /\ IsFiniteSet(Accounts)
    /\ Cardinality(Procs) \in Nat /\ Cardinality(Accounts) \in Nat
    /\ Nobody \notin Procs /\ Nobody \notin Accounts /\ Keeper \in Procs
<1>1. IsFiniteSet(Procs)
  BY SessionAssumption, FS_AddElement DEF Procs
<1>2. QED
  BY <1>1, SessionAssumption, FS_CardinalityType DEF Procs

\* There are more records than can be held at a time.
LEMMA SpareIsFree ==
    ASSUME SessionInv
    PROVE  Spare \in Ids \ Held(book, proc)
<1> DEFINE stored == {book.stored[a] : a \in Accounts}
           refs == {proc[p].ref : p \in Procs}
           raws == {proc[p].raw : p \in Procs}
           held == stored \cup refs \cup raws
           A == Cardinality(Accounts)
           P == Cardinality(Procs)
<1>1. Held(book, proc) = held
  <2>1. DOMAIN book.stored = Accounts
    BY DEF SessionInv, Book
  <2>2. QED
    BY <2>1 DEF Held, Range
<1>2. IsFiniteSet(stored) /\ Cardinality(stored) <= A
  BY ProcsFinite, ImageBound
<1>3. IsFiniteSet(refs) /\ Cardinality(refs) <= P
  <2> DEFINE f == [p \in Procs |-> proc[p].ref]
  <2>1. refs = {f[p] : p \in Procs}
    OBVIOUS
  <2> HIDE DEF f
  <2>2. QED
    BY <2>1, ProcsFinite, ImageBound
<1>4. IsFiniteSet(raws) /\ Cardinality(raws) <= P
  <2> DEFINE f == [p \in Procs |-> proc[p].raw]
  <2>1. raws = {f[p] : p \in Procs}
    OBVIOUS
  <2> HIDE DEF f
  <2>2. QED
    BY <2>1, ProcsFinite, ImageBound
<1> HIDE DEF stored, refs, raws
<1>5. IsFiniteSet(held) /\ Cardinality(held) <= A + P + P
  <2>1. A \in Nat /\ P \in Nat /\ A + P \in Nat
    BY ProcsFinite
  <2> HIDE DEF A, P
  <2>2. IsFiniteSet(stored \cup refs) /\ Cardinality(stored \cup refs) <= A + P
    BY <1>2, <1>3, <2>1, UnionBound
  <2>3. QED
    BY <1>4, <2>1, <2>2, UnionBound
<1> HIDE DEF held
<1>6. Ids \subseteq Nat /\ Cardinality(Ids) = A + P + P + 1
  <2> DEFINE N == A + 2 * P + 1
  <2>1. N \in Nat /\ N = A + P + P + 1 /\ N >= 1
    BY ProcsFinite
  <2>2. Ids = 1..N
    BY DEF Ids
  <2> HIDE DEF N
  <2>3. Cardinality(1..N) = N
    BY <2>1, FS_Interval
  <2>4. QED
    BY <2>1, <2>2, <2>3
<1>7. Ids \ held # {}
  <2>1. SUFFICES ASSUME Ids \subseteq held
                 PROVE  FALSE
    OBVIOUS
  <2>2. Cardinality(Ids) <= Cardinality(held)
    BY <1>5, <2>1, FS_Subset
  <2>3. QED
    BY <1>5, <1>6, <2>2, ProcsFinite, FS_CardinalityType
<1>8. \E k \in Ids \ held : \A j \in Ids \ held : k <= j
  BY <1>6, <1>7, SmallestExists
<1>9. QED
  BY <1>1, <1>8 DEF Spare, Min

\* Pruning keeps the listed accounts that have a session.
LEMMA PrunedProperties ==
    ASSUME NEW b, b.list \in Seq(Accounts), IsInjective(b.list)
    PROVE  /\ Pruned(b) \in Seq(Accounts) /\ IsInjective(Pruned(b))
           /\ ToSet(Pruned(b)) = {a \in ToSet(b.list) : b.stored[a] # 0}
<1>1. ToSet(b.list) \subseteq Accounts
  BY DEF ToSet
<1>2. QED
  BY <1>1, KeptProperties DEF Pruned

LEMMA FirstIsMember ==
    ASSUME NEW S, NEW list \in Seq(S), list # <<>>
    PROVE  list[1] \in ToSet(list)
  BY DEF ToSet

LEMMA EmptyList ==
    ASSUME NEW S, NEW list \in Seq(S), ToSet(list) = {}
    PROVE  list = <<>>
  BY FirstIsMember

LEMMA EmptyToSet == ToSet(<<>>) = {}
  BY DEF ToSet

LEMMA UpdateOK ==
    ASSUME NEW p \in Procs \cup {Nobody}, NEW a \in AccountsOrNobody,
           NEW kind \in {"save", "clear", "check", "list"}, kind # "list" => a \in Accounts
    PROVE  Update(p, a, kind) \in Calls
<1>1. <<>> \in Seq(Accounts)
  OBVIOUS
<1>2. QED
  BY <1>1 DEF Update, Calls

\* An update that begins writes nothing yet.
LEMMA BeginsOK ==
    ASSUME NEW b \in Book, NEW u \in Calls
    PROVE  /\ Begins(b, u) \in Book
           /\ Begins(b, u).stored = b.stored /\ Begins(b, u).list = b.list
           /\ Begins(b, u).current = b.current /\ Begins(b, u).under = b.under \cup {u}
           /\ Begins(b, u).crossed = IF b.under = {} THEN b.crossed \ {u.who}
                                     ELSE b.crossed \cup UnderWay(b) \cup {u.who}
<1> DEFINE crossed == IF b.under = {} THEN b.crossed \ {u.who} ELSE b.crossed \cup UnderWay(b) \cup {u.who}
           under == b.under \cup {u}
<1>1. Begins(b, u) = [b EXCEPT !.under = under, !.crossed = crossed]
  BY DEF Begins, Book
<1>2. crossed \in SUBSET AccountsOrNobody
  BY DEF Book, Calls, UnderWay
<1>3. under \in SUBSET Calls
  BY DEF Book
<1> HIDE DEF crossed, under
<1>4. [b EXCEPT !.under = under, !.crossed = crossed] \in Book
  BY <1>2, <1>3 DEF Book
<1>5. QED
  BY <1>1, <1>4 DEF Book, crossed, under

LEMMA SavedOK ==
    ASSUME NEW b \in Book, NEW p \in Procs \cup {Nobody}, NEW a \in Accounts, NEW i \in Ids
    PROVE  Saved(b, p, a, i) \in Book /\ Saved(b, p, a, i).stored = [b.stored EXCEPT ![a] = i]
<1> DEFINE stored == [b.stored EXCEPT ![a] = i]
           c == [b EXCEPT !.stored = stored]
           u == Update(p, a, "save")
<1>1. stored \in [Accounts -> Ids \cup {0}]
  BY DEF Book
<1>2. Saved(b, p, a, i) = Begins(c, u)
  BY DEF Saved, Book
<1> HIDE DEF stored
<1>3. c \in Book /\ c.stored = stored
  BY <1>1 DEF Book
<1>4. u \in Calls
  BY UpdateOK DEF AccountsOrNobody
<1> HIDE DEF c, u
<1>5. Begins(c, u) \in Book /\ Begins(c, u).stored = c.stored
  BY <1>3, <1>4, BeginsOK
<1>6. QED
  BY <1>2, <1>3, <1>5 DEF stored

LEMMA ClearedOK ==
    ASSUME NEW b \in Book, NEW p \in Procs \cup {Nobody}, NEW a \in AccountsOrNobody
    PROVE  /\ Cleared(b, p, a) \in Book
           /\ \A c \in Accounts : Cleared(b, p, a).stored[c] = IF c = a THEN 0 ELSE b.stored[c]
<1>1. CASE a = Nobody
  BY <1>1, SessionAssumption DEF Cleared
<1>2. CASE a # Nobody
  <2> DEFINE stored == [b.stored EXCEPT ![a] = 0]
             c == [b EXCEPT !.stored = stored]
             u == Update(p, a, "clear")
  <2>1. a \in Accounts
    BY <1>2 DEF AccountsOrNobody
  <2>2. /\ stored \in [Accounts -> Ids \cup {0}]
        /\ \A d \in Accounts : stored[d] = IF d = a THEN 0 ELSE b.stored[d]
    BY <2>1 DEF Book
  <2>3. Cleared(b, p, a) = Begins(c, u)
    BY <1>2 DEF Cleared, Book
  <2> HIDE DEF stored
  <2>4. c \in Book /\ c.stored = stored
    BY <2>2 DEF Book
  <2>5. u \in Calls
    BY <2>1, UpdateOK DEF AccountsOrNobody
  <2> HIDE DEF c, u
  <2>6. Begins(c, u) \in Book /\ Begins(c, u).stored = c.stored
    BY <2>4, <2>5, BeginsOK
  <2>7. QED
    BY <2>2, <2>3, <2>4, <2>6
<1>3. QED
  BY <1>1, <1>2

-----------------------------------------------------------------------------
(* Steps                                                                     *)

\* A process that leaves the lock table as it needs it: it has the lock if it
\* renews, and whoever else renews keeps its own.
Locks(p, r) ==
    /\ lock' \in [Accounts -> Procs \cup {Nobody}]
    /\ Renewing(r) => lock'[r.who] = p
    /\ \A q \in Procs \ {p} : Renewing(proc[q]) => lock'[proc[q].who] = q

\* Records and a book that the process p may leave behind.
Clean(p, o, b) ==
    /\ RecordsOK(o) /\ b \in Book
    /\ \A i \in Ids : o[i].stale => i \notin Range(b.stored)
                                    /\ \A q \in Procs \ {p} : proc[q].raw # i

LEMMA StepInv ==
    ASSUME SessionInv, NEW p \in Procs, NEW o, NEW b, NEW r, Step(p, o, b, r),
           ProcessOK(p, r), Locks(p, r), Clean(p, o, b),
           \A i \in Ids : o[i].stale => r.raw # i
    PROVE  SessionInv'
<1>1. PICK held : obj' = [i \in Ids |-> IF i \in held THEN o[i] ELSE NoRecord]
  BY DEF Step
<1>2. /\ proc' = [proc EXCEPT ![p] = r] /\ book' = b
      /\ proc \in [Procs -> Process] /\ r \in Process
  BY DEF Step, SessionInv, ProcessOK
<1>3. /\ proc' \in [Procs -> Process] /\ proc'[p] = r
      /\ \A q \in Procs \ {p} : proc'[q] = proc[q]
  BY <1>2
<1>4. RecordsOK(obj')
  <2>1. NoRecord \in Record /\ ~ NoRecord.password
    BY SessionAssumption DEF NoRecord, Record
  <2>2. o \in [Ids -> Record] /\ \A i \in Ids : o[i].password => o[i].fails < MaxFailures
    BY DEF Clean, RecordsOK
  <2>3. QED
    BY <1>1, <2>1, <2>2 DEF RecordsOK
<1>5. Unmarked(obj', book', proc')
  <2>1. \A i \in Ids : obj'[i].stale => o[i].stale
    BY <1>1 DEF NoRecord
  <2>2. QED
    BY <1>2, <1>3, <2>1 DEF Unmarked, Clean
<1>6. \A q \in Procs : ProcessOK(q, proc'[q])
  BY <1>3 DEF SessionInv
<1>7. \A q \in Procs : Renewing(proc'[q]) => lock'[proc'[q].who] = q
  BY <1>3 DEF Locks
<1>8. QED
  BY <1>2, <1>3, <1>4, <1>5, <1>6, <1>7 DEF SessionInv, Clean, Locks, RecordsOK, Unmarked

LEMMA WithCopyInv ==
    ASSUME SessionInv, NEW p \in Procs, NEW o, NEW b, NEW r, WithCopy(p, o, b, r),
           r \in Process, p # Keeper, r.ref \in Ids, r.who \in Accounts, r.todo # <<>>, r.raw = 0,
           Clean(p, o, b), Spare \notin Range(b.stored),
           lock' \in [Accounts -> Procs \cup {Nobody}],
           \A q \in Procs \ {p} : Renewing(proc[q]) => lock'[proc[q].who] = q
    PROVE  SessionInv'
<1> DEFINE i == Spare
           c == [o EXCEPT ![i] = [o[r.ref] EXCEPT !.stale = TRUE]]
           s == [r EXCEPT !.pc = "send", !.ref = i]
<1>1. Step(p, c, b, s)
  BY DEF WithCopy
<1>2. i \in Ids /\ \A q \in Procs : proc[q].raw # i
  BY SpareIsFree DEF Held
<1> HIDE DEF i
<1>3. i # 0
  BY <1>2 DEF Ids
<1>4. s \in Process
  BY <1>2 DEF Process
<1>5. ProcessOK(p, s) /\ Locks(p, s)
  BY <1>3, <1>4 DEF ProcessOK, Locks, Renewing, Renewals, Waiting, Sending, Process
<1>6. RecordsOK(c)
  <2>1. o \in [Ids -> Record] /\ \A j \in Ids : o[j].password => o[j].fails < MaxFailures
    BY DEF Clean, RecordsOK
  <2> DEFINE x == o[r.ref]
  <2>2. x \in Record
    BY <2>1
  <2> HIDE DEF x
  <2>3. [x EXCEPT !.stale = TRUE] \in Record
    BY <2>2 DEF Record
  <2>4. QED
    BY <2>1, <2>2, <2>3 DEF RecordsOK, Record, x
<1>7. \A j \in Ids : c[j].stale => o[j].stale \/ j = i
  BY DEF Clean, RecordsOK
<1>8. Clean(p, c, b)
  BY <1>2, <1>6, <1>7 DEF Clean, i
<1>9. \A j \in Ids : c[j].stale => s.raw # j
  BY DEF Ids
<1>10. QED
  BY <1>1, <1>5, <1>8, <1>9, StepInv

LEMMA FetchedOK ==
    ASSUME NEW p \in Procs, p # Keeper, NEW r \in Process, r.todo # <<>>, NEW good \in BOOLEAN
    PROVE  ProcessOK(p, Fetched(r, good)) /\ Fetched(r, good).raw = 0
<1> DEFINE more == Tail(r.todo)
           from == IF good THEN r.from \cup {r.who} ELSE r.from
           found == r.found \/ (good /\ Head(r.todo) = "balance")
           s == [r EXCEPT !.pc = "next", !.ref = 0, !.raw = 0, !.who = Nobody, !.after = Nobody,
                          !.todo = more, !.found = found, !.from = from]
<1>1. more \in Seq(Items)
  BY DEF Process
<1>2. from \in SUBSET AccountsOrNobody /\ found \in BOOLEAN
  BY DEF Process
<1>3. Fetched(r, good) = s
  BY DEF Fetched, Process
<1> HIDE DEF more, from, found
<1>4. s \in Process /\ s.pc = "next" /\ s.raw = 0
  BY <1>1, <1>2 DEF Process, AccountsOrNobody
<1> HIDE DEF s
<1>5. QED
  BY <1>3, <1>4 DEF ProcessOK, Renewing, Renewals, Waiting, Sending

LEMMA IdleOK ==
    ASSUME NEW p \in Procs
    PROVE  Idle \in Process /\ ProcessOK(p, Idle) /\ Idle.raw = 0
<1>1. <<>> \in Seq(Items) /\ <<>> \in Seq(Accounts)
  OBVIOUS
<1>2. Idle \in Process
  BY <1>1 DEF Idle, Process, AccountsOrNobody
<1>3. QED
  BY <1>1, <1>2 DEF Idle, ProcessOK, Renewing, Renewals, Waiting, Sending

LEMMA ClearedClean ==
    ASSUME NEW p \in Procs, NEW o, NEW b, Clean(p, o, b), NEW a \in AccountsOrNobody
    PROVE  Clean(p, o, Cleared(b, p, a))
<1> DEFINE c == Cleared(b, p, a)
<1>1. b \in Book /\ c \in Book /\ \A d \in Accounts : c.stored[d] = IF d = a THEN 0 ELSE b.stored[d]
  BY ClearedOK DEF Clean
<1>2. DOMAIN c.stored = Accounts /\ DOMAIN b.stored = Accounts
  BY <1>1 DEF Book
<1> HIDE DEF c
<1>3. \A i \in Ids : i \in Range(c.stored) => i \in Range(b.stored)
  BY <1>1, <1>2 DEF Range, Ids
<1>4. QED
  BY <1>1, <1>3 DEF Clean, c

\* The process that renewed goes on, whatever it renewed for.
LEMMA RenewEndsInv ==
    ASSUME SessionInv, NEW p \in Procs, NEW o, NEW b, NEW i \in Ids \cup {0},
           Waiting(proc[p]), Clean(p, o, b), i = 0 => Spare \notin Range(b.stored),
           RenewEnds(p, o, b, i)
    PROVE  SessionInv'
<1> DEFINE r == [proc[p] EXCEPT !.raw = 0, !.force = FALSE]
           a == r.who
<1>1. /\ proc[p] \in Process /\ ProcessOK(p, proc[p])
      /\ proc[p].who \in Accounts /\ proc[p].after \in Afters
  BY DEF SessionInv, ProcessOK
<1>2. /\ r \in Process /\ r.who \in Accounts /\ r.raw = 0 /\ ~ r.force
      /\ r.after \in {"fresh", "retry", "refresh", "keep"}
      /\ r.who = proc[p].who /\ r.after = proc[p].after /\ r.todo = proc[p].todo
      /\ r.ref = proc[p].ref
  BY <1>1 DEF Process, Afters
<1>3. /\ r.after # "keep" => p # Keeper /\ r.ref \in Ids
      /\ r.after = "keep" => p = Keeper /\ r.todo \in Seq(Accounts)
      /\ r.after \in {"fresh", "retry"} => r.todo # <<>>
  BY <1>1, <1>2 DEF ProcessOK, Process
<1>4. /\ lock' = [lock EXCEPT ![a] = IF @ = p THEN Nobody ELSE @]
      /\ CASE r.after = "fresh" /\ i # 0 -> Step(p, o, b, [r EXCEPT !.pc = "send", !.ref = i])
           [] r.after = "fresh" /\ i = 0 -> WithCopy(p, o, b, r)
           [] r.after = "retry" /\ i # 0 -> Step(p, o, b, [r EXCEPT !.pc = "resend", !.ref = i])
           [] r.after = "retry" /\ i = 0 -> Step(p, o, Cleared(b, p, a), Fetched(r, FALSE))
           [] r.after = "refresh" -> Step(p, o, IF i # 0 \/ o[r.ref].cookie THEN b ELSE Cleared(b, p, a), Idle)
           [] r.after = "keep" -> Step(p, o, b, [r EXCEPT !.pc = "next", !.who = Nobody, !.after = Nobody])
  BY DEF RenewEnds
<1> HIDE DEF r
<1>5. /\ lock' \in [Accounts -> Procs \cup {Nobody}]
      /\ \A q \in Procs \ {p} : Renewing(proc[q]) => lock'[proc[q].who] = q
  <2>1. /\ lock \in [Accounts -> Procs \cup {Nobody}]
        /\ \A q \in Procs : Renewing(proc[q]) => lock[proc[q].who] = q /\ proc[q].who \in Accounts
    BY DEF SessionInv, ProcessOK, Waiting
  <2>2. QED
    BY <1>2, <1>4, <2>1
<1>6. ASSUME NEW s, ProcessOK(p, s), s.raw = 0, NEW c, Clean(p, o, c), Step(p, o, c, s)
      PROVE  SessionInv'
  <2>1. \A j \in Ids : s.raw # j
    BY <1>6 DEF Ids
  <2>2. ~ Renewing(s)
    BY <1>6 DEF ProcessOK
  <2>3. QED
    BY <1>5, <1>6, <2>1, <2>2, StepInv DEF Locks
<1>7. CASE r.after = "fresh" /\ i # 0
  <2> DEFINE s == [r EXCEPT !.pc = "send", !.ref = i]
  <2>1. Step(p, o, b, s)
    BY <1>4, <1>7
  <2>2. s \in Process /\ s.pc = "send" /\ s.ref # 0 /\ s.raw = 0 /\ s.who = r.who /\ s.todo = r.todo
    BY <1>2, <1>7 DEF Process
  <2> HIDE DEF s
  <2>3. ProcessOK(p, s)
    BY <1>2, <1>3, <1>7, <2>2 DEF ProcessOK, Renewing, Renewals, Waiting, Sending
  <2>4. QED
    BY <1>6, <2>1, <2>2, <2>3
<1>8. CASE r.after = "fresh" /\ i = 0
  <2>1. WithCopy(p, o, b, r)
    BY <1>4, <1>8
  <2>2. QED
    BY <1>2, <1>3, <1>5, <1>8, <2>1, WithCopyInv
<1>9. CASE r.after = "retry" /\ i # 0
  <2> DEFINE s == [r EXCEPT !.pc = "resend", !.ref = i]
  <2>1. Step(p, o, b, s)
    BY <1>4, <1>9
  <2>2. s \in Process /\ s.pc = "resend" /\ s.ref # 0 /\ s.raw = 0 /\ s.who = r.who /\ s.todo = r.todo
    BY <1>2, <1>9 DEF Process
  <2> HIDE DEF s
  <2>3. ProcessOK(p, s)
    BY <1>2, <1>3, <1>9, <2>2 DEF ProcessOK, Renewing, Renewals, Waiting, Sending
  <2>4. QED
    BY <1>6, <2>1, <2>2, <2>3
<1>10. CASE r.after = "retry" /\ i = 0
  <2>1. Step(p, o, Cleared(b, p, a), Fetched(r, FALSE))
    BY <1>4, <1>10
  <2>2. ProcessOK(p, Fetched(r, FALSE)) /\ Fetched(r, FALSE).raw = 0
    BY <1>2, <1>3, <1>10, FetchedOK
  <2>3. Clean(p, o, Cleared(b, p, a))
    BY <1>2, ClearedClean DEF AccountsOrNobody
  <2>4. QED
    BY <1>6, <2>1, <2>2, <2>3
<1>11. CASE r.after = "refresh"
  <2> DEFINE c == IF i # 0 \/ o[r.ref].cookie THEN b ELSE Cleared(b, p, a)
  <2>1. Step(p, o, c, Idle)
    BY <1>4, <1>11
  <2>2. Clean(p, o, c)
    BY <1>2, ClearedClean DEF AccountsOrNobody
  <2> HIDE DEF c
  <2>3. QED
    BY <1>6, <2>1, <2>2, IdleOK
<1>12. CASE r.after = "keep"
  <2> DEFINE s == [r EXCEPT !.pc = "next", !.who = Nobody, !.after = Nobody]
  <2>1. Step(p, o, b, s)
    BY <1>4, <1>12
  <2>2. s \in Process /\ s.pc = "next" /\ s.raw = 0 /\ s.todo = r.todo
    BY <1>2, <1>12 DEF Process, AccountsOrNobody
  <2> HIDE DEF s
  <2>3. ProcessOK(p, s)
    BY <1>3, <1>12, <2>2 DEF ProcessOK, Renewing, Renewals, Waiting, Sending
  <2>4. QED
    BY <1>6, <2>1, <2>2, <2>3
<1>13. QED
  BY <1>2, <1>7, <1>8, <1>9, <1>10, <1>11, <1>12

LEMMA RecordsAreNotZero == \A i \in Ids : i # 0
  BY DEF Ids

LEMMA CleanNow ==
    ASSUME SessionInv, NEW p \in Procs
    PROVE  /\ Clean(p, obj, book) /\ Spare \notin Range(book.stored)
           /\ proc[p] \in Process /\ ProcessOK(p, proc[p])
           /\ obj \in [Ids -> Record] /\ book \in Book /\ book.stored \in [Accounts -> Ids \cup {0}]
  BY SpareIsFree DEF SessionInv, Clean, Unmarked, ProcessOK, Held, RecordsOK, Book

LEMMA QuietInv ==
    ASSUME SessionInv, NEW p \in Procs, NEW o, NEW b, NEW r, Step(p, o, b, r),
           ProcessOK(p, r), r.raw = 0, Clean(p, o, b), lock' = lock
    PROVE  SessionInv'
<1>1. Locks(p, r)
  BY DEF SessionInv, Locks, ProcessOK
<1>2. \A i \in Ids : r.raw # i
  BY DEF Ids
<1>3. QED
  BY <1>1, <1>2, StepInv

LEMMA RecordSet ==
    ASSUME NEW o, RecordsOK(o), NEW i \in Ids, NEW x \in Record, x.password => x.fails < MaxFailures
    PROVE  RecordsOK([o EXCEPT ![i] = x])
  BY DEF RecordsOK, Record

LEMMA SavedClean ==
    ASSUME NEW p \in Procs, NEW o, NEW b, NEW a \in Accounts, NEW i \in Ids,
           RecordsOK(o), b \in Book, ~ o[i].stale,
           \A j \in Ids : o[j].stale => j \notin Range(b.stored)
                                        /\ \A q \in Procs \ {p} : proc[q].raw # j
    PROVE  /\ Clean(p, o, Saved(b, p, a, i))
           /\ Range(Saved(b, p, a, i).stored) \subseteq Range(b.stored) \cup {i}
<1> DEFINE c == Saved(b, p, a, i)
<1>1. c \in Book /\ c.stored = [b.stored EXCEPT ![a] = i]
  BY SavedOK
<1>2. DOMAIN b.stored = Accounts
  BY DEF Book
<1> HIDE DEF c
<1>3. Range(c.stored) \subseteq Range(b.stored) \cup {i}
  BY <1>1, <1>2 DEF Range
<1>4. QED
  BY <1>1, <1>3 DEF Clean, c

-----------------------------------------------------------------------------
(* Renewals                                                                  *)

LEMMA PasswordInv ==
    ASSUME SessionInv, NEW p \in Procs, Waiting(proc[p]), NEW i \in Ids, ~ obj[i].stale,
           lock[proc[p].who] \in {Nobody, p}, Password(p, i)
    PROVE  SessionInv'
<1>1. Clean(p, obj, book) /\ Spare \notin Range(book.stored) /\ proc[p] \in Process /\ ProcessOK(p, proc[p])
  BY CleanNow
<1>2. CASE RenewEnds(p, obj, book, 0)
  BY <1>1, <1>2, RenewEndsInv
<1>3. CASE ~ RenewEnds(p, obj, book, 0)
  <2> DEFINE s == [proc[p] EXCEPT !.pc = "password", !.raw = i]
  <2>1. Step(p, obj, book, s) /\ lock' = [lock EXCEPT ![proc[p].who] = p]
    BY <1>3 DEF Password
  <2>2. /\ s \in Process /\ s.pc = "password" /\ s.raw = i
        /\ s.who = proc[p].who /\ s.after = proc[p].after /\ s.ref = proc[p].ref /\ s.todo = proc[p].todo
    BY <1>1 DEF Process, Renewals
  <2> HIDE DEF s
  <2>3. ProcessOK(p, s)
    BY <1>1, <2>2, RecordsAreNotZero DEF ProcessOK, Renewing, Renewals, Waiting, Sending
  <2>4. Locks(p, s)
    <3>1. /\ lock \in [Accounts -> Procs \cup {Nobody}] /\ proc[p].who \in Accounts
          /\ \A q \in Procs : Renewing(proc[q]) => lock[proc[q].who] = q /\ proc[q].who \in Accounts
      BY DEF SessionInv, ProcessOK, Waiting
    <3>2. QED
      BY <2>1, <2>2, <3>1, ProcsFinite DEF Locks
  <2>5. QED
    BY <1>1, <2>1, <2>2, <2>3, <2>4, StepInv
<1>4. QED
  BY <1>2, <1>3

LEMMA AcquireInv ==
    ASSUME SessionInv, NEW p \in Procs, Acquire(p)
    PROVE  SessionInv'
<1> DEFINE i == book.stored[proc[p].who]
<1>1. /\ Clean(p, obj, book) /\ Spare \notin Range(book.stored) /\ proc[p] \in Process
      /\ ProcessOK(p, proc[p]) /\ book.stored \in [Accounts -> Ids \cup {0}]
  BY CleanNow
<1>2. /\ proc[p].pc = "lock" /\ Waiting(proc[p]) /\ proc[p].who \in Accounts
      /\ lock[proc[p].who] = Nobody /\ Renew(p, i)
  BY <1>1 DEF Acquire, Waiting, ProcessOK
<1>3. i \in Ids \cup {0} /\ i \in Range(book.stored)
  BY <1>1, <1>2 DEF Range
<1> HIDE DEF i
<1>4. CASE RenewEnds(p, obj, book, 0) \/ RenewEnds(p, obj, book, i)
  BY <1>1, <1>2, <1>3, <1>4, RenewEndsInv
<1>5. CASE ~ RenewEnds(p, obj, book, 0) /\ ~ RenewEnds(p, obj, book, i)
  <2>1. i \in Ids /\ ~ obj[i].stale
    BY <1>1, <1>2, <1>3, <1>5 DEF Renew, Clean
  <2>2. CASE ~ obj[i].cookie
    BY <1>2, <1>5, <2>1, <2>2, PasswordInv DEF Renew, Ids
  <2>3. CASE obj[i].cookie
    <3> DEFINE s == [proc[p] EXCEPT !.pc = "cookie", !.raw = i]
    <3>1. Step(p, obj, book, s) /\ lock' = [lock EXCEPT ![proc[p].who] = p]
      BY <1>2, <1>5, <2>3 DEF Renew
    <3>2. /\ s \in Process /\ s.pc = "cookie" /\ s.raw = i
          /\ s.who = proc[p].who /\ s.after = proc[p].after /\ s.ref = proc[p].ref /\ s.todo = proc[p].todo
      BY <1>1, <2>1 DEF Process, Renewals
    <3> HIDE DEF s
    <3>3. ProcessOK(p, s)
      BY <1>1, <1>2, <2>1, <3>2, RecordsAreNotZero DEF ProcessOK, Renewing, Renewals, Waiting, Sending
    <3>4. Locks(p, s)
      <4>1. /\ lock \in [Accounts -> Procs \cup {Nobody}]
            /\ \A q \in Procs : Renewing(proc[q]) => lock[proc[q].who] = q /\ proc[q].who \in Accounts
        BY DEF SessionInv, ProcessOK, Waiting
      <4>2. QED
        BY <1>2, <3>1, <3>2, <4>1, ProcsFinite DEF Locks
    <3>5. QED
      BY <1>1, <2>1, <3>1, <3>2, <3>3, <3>4, StepInv
  <2>4. QED
    BY <2>2, <2>3
<1>6. QED
  BY <1>4, <1>5

\* What a renewal works on.
LEMMA RenewingOn ==
    ASSUME SessionInv, NEW p \in Procs, Renewing(proc[p])
    PROVE  /\ proc[p].raw \in Ids /\ ~ obj[proc[p].raw].stale
           /\ proc[p].who \in Accounts /\ Waiting(proc[p])
           /\ lock[proc[p].who] = p /\ Spare # proc[p].raw
<1>1. proc[p] \in Process /\ ProcessOK(p, proc[p]) /\ Spare \notin Held(book, proc)
  BY SpareIsFree DEF SessionInv
<1>2. proc[p].raw \in Ids /\ proc[p].who \in Accounts /\ Waiting(proc[p])
  BY <1>1 DEF ProcessOK, Waiting, Process
<1>3. QED
  BY <1>1, <1>2 DEF SessionInv, Unmarked, Held

\* A renewal that stores a record keeps its lock until the update is done.
LEMMA SavesInv ==
    ASSUME SessionInv, NEW p \in Procs, Renewing(proc[p]), NEW i \in Ids, NEW o, RecordsOK(o), ~ o[i].stale,
           \A j \in Ids : o[j].stale => obj[j].stale,
           NEW pc \in {"saving", "noting"}, Saves(p, o, i, pc)
    PROVE  SessionInv'
<1> DEFINE r == [proc[p] EXCEPT !.pc = pc, !.raw = i]
           a == proc[p].who
<1>1. Step(p, o, Saved(book, p, a, i), r) /\ lock' = lock
  BY DEF Saves
<1>2. /\ a \in Accounts /\ Waiting(proc[p]) /\ lock[a] = p
      /\ proc[p] \in Process /\ ProcessOK(p, proc[p])
  BY RenewingOn, CleanNow
<1>3. /\ r \in Process /\ r.pc = pc /\ r.raw = i
      /\ r.who = a /\ r.after = proc[p].after /\ r.ref = proc[p].ref /\ r.todo = proc[p].todo
  BY <1>2 DEF Process, Renewals
<1> HIDE DEF r, a
<1>4. ProcessOK(p, r)
  BY <1>2, <1>3, RecordsAreNotZero DEF ProcessOK, Renewing, Renewals, Waiting, Sending
<1>5. Locks(p, r)
  BY <1>1, <1>2, <1>3 DEF Locks, SessionInv
<1>6. Clean(p, o, Saved(book, p, a, i))
  <2>1. /\ book \in Book
        /\ \A j \in Ids : o[j].stale => j \notin Range(book.stored) /\ \A q \in Procs \ {p} : proc[q].raw # j
    BY CleanNow DEF Clean
  <2>2. QED
    BY <1>2, <2>1, SavedClean
<1>7. \A j \in Ids : o[j].stale => r.raw # j
  BY <1>3
<1>8. QED
  BY <1>1, <1>4, <1>5, <1>6, <1>7, StepInv

LEMMA CookieRollsInv ==
    ASSUME SessionInv, NEW p \in Procs, CookieRolls(p)
    PROVE  SessionInv'
<1> DEFINE i == proc[p].raw
           x == [obj[i] EXCEPT !.cookie = TRUE, !.age = "new", !.fails = 0,
                               !.tired = FALSE, !.stale = FALSE]
           o == [obj EXCEPT ![i] = x]
<1>1. Renewing(proc[p]) /\ Saves(p, o, i, "saving")
  BY DEF CookieRolls, Renewing, Renewals
<1>2. i \in Ids
  BY <1>1, RenewingOn
<1>3. RecordsOK(obj) /\ obj[i] \in Record /\ obj \in [Ids -> Record]
  BY <1>2, CleanNow DEF SessionInv
<1> HIDE DEF i
<1>4. 0 \in 0..MaxFailures /\ 0 < MaxFailures
  BY SessionAssumption
<1>5. x \in Record /\ ~ x.stale /\ x.fails = 0
  BY <1>3, <1>4 DEF Record
<1> HIDE DEF x
<1>6. RecordsOK(o) /\ ~ o[i].stale /\ \A j \in Ids : o[j].stale => obj[j].stale
  BY <1>2, <1>3, <1>4, <1>5, RecordSet
<1> HIDE DEF o
<1>7. QED
  BY <1>1, <1>2, <1>6, SavesInv

LEMMA CookieFailsInv ==
    ASSUME SessionInv, NEW p \in Procs, CookieFails(p)
    PROVE  SessionInv'
<1>1. Renewing(proc[p]) /\ Password(p, proc[p].raw)
  BY DEF CookieFails, Renewing, Renewals
<1>2. QED
  BY <1>1, RenewingOn, PasswordInv

LEMMA LogsInInv ==
    ASSUME SessionInv, NEW p \in Procs, LogsIn(p)
    PROVE  SessionInv'
<1>1. Renewing(proc[p])
  BY DEF LogsIn, Renewing, Renewals
<1> DEFINE i == Spare
           y == obj[proc[p].raw].password
           x(cookie) == [NoRecord EXCEPT !.cookie = cookie, !.password = y, !.age = "new"]
           o(cookie) == [obj EXCEPT ![i] = x(cookie)]
<1>2. PICK cookie \in BOOLEAN : Saves(p, o(cookie), i, "saving")
  BY DEF LogsIn
<1>3. i \in Ids /\ proc[p].raw \in Ids
  BY <1>1, RenewingOn, SpareIsFree
<1>4. RecordsOK(obj) /\ obj \in [Ids -> Record] /\ y \in BOOLEAN
  BY <1>3, CleanNow DEF SessionInv, Record
<1> HIDE DEF i, y
<1>5. 0 \in 0..MaxFailures /\ 0 < MaxFailures
  BY SessionAssumption
<1>6. x(cookie) \in Record /\ ~ x(cookie).stale /\ x(cookie).fails = 0
  BY <1>4, <1>5 DEF Record, NoRecord
<1> HIDE DEF x
<1>7. RecordsOK(o(cookie)) /\ ~ o(cookie)[i].stale /\ \A j \in Ids : o(cookie)[j].stale => obj[j].stale
  BY <1>3, <1>4, <1>5, <1>6, RecordSet
<1> HIDE DEF o
<1>8. QED
  BY <1>1, <1>2, <1>3, <1>7, SavesInv

LEMMA PasswordRefusedInv ==
    ASSUME SessionInv, NEW p \in Procs, PasswordRefused(p)
    PROVE  SessionInv'
<1> DEFINE i == proc[p].raw
           n == obj[i].fails + 1
           more == n < MaxFailures
           x == [obj[i] EXCEPT !.fails = n, !.tired = TRUE, !.password = more]
           o == [obj EXCEPT ![i] = x]
<1>1. Renewing(proc[p])
  BY DEF PasswordRefused, Renewing, Renewals
<1>2. i \in Ids /\ proc[p].who \in Accounts /\ Waiting(proc[p]) /\ ~ obj[i].stale /\ Spare # i
  BY <1>1, RenewingOn
<1>3. /\ Clean(p, obj, book) /\ RecordsOK(obj) /\ book \in Book /\ obj[i] \in Record
      /\ obj \in [Ids -> Record] /\ Spare \notin Range(book.stored)
  BY <1>2, CleanNow DEF SessionInv
<1>4. CASE ~ obj[i].password
  BY <1>2, <1>3, <1>4, RenewEndsInv DEF PasswordRefused
<1>5. CASE obj[i].password
  <2>1. Saves(p, o, i, "noting")
    BY <1>5 DEF PasswordRefused
  <2>2. obj[i].fails < MaxFailures /\ obj[i].fails \in 0..MaxFailures
    BY <1>2, <1>3, <1>5 DEF RecordsOK, Record
  <2> HIDE DEF i
  <2>3. n \in 0..MaxFailures /\ more \in BOOLEAN /\ (more => n < MaxFailures)
    BY <2>2, SessionAssumption
  <2> HIDE DEF n, more
  <2>4. x \in Record /\ ~ x.stale /\ (x.password => x.fails < MaxFailures)
    BY <1>2, <1>3, <2>3 DEF Record
  <2> HIDE DEF x
  <2>5. RecordsOK(o) /\ ~ o[i].stale /\ \A j \in Ids : o[j].stale => obj[j].stale
    BY <1>2, <1>3, <2>4, RecordSet
  <2> HIDE DEF o
  <2>6. QED
    BY <1>1, <1>2, <2>1, <2>5, SavesInv
<1>6. QED
  BY <1>4, <1>5

LEMMA RenewStepInv ==
    ASSUME SessionInv, NEW p \in Procs, RenewStep(p)
    PROVE  SessionInv'
<1>1. CASE PasswordErrs(p)
  <2>1. Renewing(proc[p]) /\ RenewEnds(p, obj, book, 0)
    BY <1>1 DEF PasswordErrs, Renewing, Renewals
  <2>2. QED
    BY <2>1, RenewingOn, CleanNow, RenewEndsInv
<1>2. CASE Renewed(p) \/ Noted(p)
  <2>1. Renewing(proc[p]) /\ (RenewEnds(p, obj, book, 0) \/ RenewEnds(p, obj, book, proc[p].raw))
    BY <1>2 DEF Renewed, Noted, Renewing, Renewals
  <2>2. QED
    BY <2>1, RenewingOn, CleanNow, RenewEndsInv
<1>3. QED
  BY <1>1, <1>2, AcquireInv, CookieRollsInv, CookieFailsInv, LogsInInv, PasswordRefusedInv DEF RenewStep

-----------------------------------------------------------------------------
(* Pages                                                                     *)

LEMMA NamedOK ==
    ASSUME SessionInv, NEW q \in AccountsOrNobody
    PROVE  /\ Named(q) \in AccountsOrNobody /\ Session(q) \in Ids \cup {0}
           /\ Session(q) # 0 => Named(q) \in Accounts /\ Session(q) = book.stored[Named(q)]
  BY DEF SessionInv, Book, Named, Session, AccountsOrNobody

LEMMA ShapeOK ==
    ASSUME NEW e \in Pages
    PROVE  Shape[e].fetches \in Seq(Items)
<1>1. e \in DOMAIN Shape
  BY PagesAssumption
<1>2. /\ <<"asked">> \in Seq(Items)
      /\ <<"balance", "balance", "resolved", "asked">> \in Seq(Items)
      /\ <<"balance", "balance", "resolved">> \in Seq(Items)
  BY DEF Items
<1>3. /\ ApiKeys.fetches = <<"asked">> /\ Usage.fetches = <<"asked">>
      /\ Cost.fetches = <<"asked">> /\ CostFilters.fetches = <<"asked">>
      /\ Rates.fetches = <<"asked">>
      /\ Overview.fetches = <<"balance", "balance", "resolved", "asked">>
      /\ Billing.fetches = <<"balance", "balance", "resolved">>
  BY DEF ApiKeys, Overview, Billing, Usage, Cost, CostFilters, Rates, Page
<1>4. Shape[e] \in {ApiKeys, Overview, Billing, Usage, Cost, CostFilters, Rates}
  BY <1>1 DEF Shape
<1>5. QED
  BY <1>2, <1>3, <1>4

LEMMA ClientsOK ==
    ASSUME SessionInv, NEW c \in Clients
    PROVE  c \in Procs /\ c # Keeper /\ proc[c] \in Process /\ ProcessOK(c, proc[c])
  BY SessionAssumption DEF SessionInv, Procs

LEMMA OpenInv ==
    ASSUME SessionInv, NEW c \in Clients, NEW e \in Pages, NEW q \in AccountsOrNobody, Open(c, e, q)
    PROVE  SessionInv'
<1> DEFINE key == IF Session(q) # 0 THEN Named(q) ELSE q
           s == [Idle EXCEPT !.pc = "next", !.page = e, !.asked = q, !.todo = Shape[e].fetches, !.key = key]
<1>1. Step(c, obj, book, s) /\ lock' = lock
  BY DEF Open
<1>2. key \in AccountsOrNobody
  BY NamedOK
<1> HIDE DEF key
<1>3. s \in Process /\ s.pc = "next" /\ s.raw = 0
  BY <1>2, IdleOK, ClientsOK, ShapeOK DEF Idle, Process, AccountsOrNobody
<1> HIDE DEF s
<1>4. ProcessOK(c, s)
  BY <1>3, ClientsOK DEF ProcessOK, Renewing, Renewals, Waiting, Sending
<1>5. QED
  BY <1>1, <1>3, <1>4, ClientsOK, CleanNow, QuietInv

LEMMA WaitOK ==
    ASSUME NEW p \in Procs, NEW r \in Process, NEW a \in Accounts, NEW force \in BOOLEAN,
           NEW after \in Afters, r.raw = 0,
           after = "keep" <=> p = Keeper,
           after # "keep" => r.ref # 0, after \in {"fresh", "retry"} => r.todo # <<>>,
           p = Keeper => r.todo \in Seq(Accounts)
    PROVE  ProcessOK(p, Wait(r, a, force, after)) /\ Wait(r, a, force, after).raw = 0
<1> DEFINE s == Wait(r, a, force, after)
<1>1. /\ s \in Process /\ s.pc = "lock" /\ s.after \in Afters /\ s.raw = 0 /\ s.who = a /\ s.after = after
      /\ s.ref = r.ref /\ s.todo = r.todo
  BY DEF Wait, Process, AccountsOrNobody
<1> HIDE DEF s
<1>2. /\ ~ Sending(s) /\ ~ Renewing(s) /\ Waiting(s)
      /\ s.who \in Accounts
      /\ s.after # "keep" => s.ref # 0
  BY <1>1 DEF Renewing, Renewals, Waiting, Sending
<1>3. /\ s.after \in {"fresh", "retry"} => s.todo # <<>>
      /\ p = Keeper => s.todo \in Seq(Accounts)
      /\ s.after = "keep" <=> p = Keeper
  BY <1>1
<1>4. QED
  BY <1>1, <1>2, <1>3 DEF ProcessOK, s

LEMMA FetchInv ==
    ASSUME SessionInv, NEW c \in Clients, Fetch(c)
    PROVE  SessionInv'
<1> DEFINE q == IF Head(proc[c].todo) = "resolved" THEN proc[c].key ELSE proc[c].asked
           a == Named(q)
           i == Session(q)
           r == [proc[c] EXCEPT !.who = a, !.ref = i]
<1>1. /\ c \in Procs /\ c # Keeper /\ proc[c] \in Process /\ ProcessOK(c, proc[c])
      /\ Clean(c, obj, book) /\ Spare \notin Range(book.stored)
  BY ClientsOK, CleanNow
<1>2. q \in AccountsOrNobody
  BY <1>1 DEF Process
<1>3. /\ proc[c].pc = "next" /\ proc[c].todo # <<>> /\ lock' = lock /\ proc[c].raw = 0
      /\ CASE i = 0 -> Step(c, obj, book, Fetched(r, FALSE))
           [] i # 0 /\ obj[i].age # "due" -> Step(c, obj, book, [r EXCEPT !.pc = "send"])
           [] i # 0 /\ obj[i].age = "due" /\ obj[i].cookie -> WithCopy(c, obj, book, r)
           [] i # 0 /\ obj[i].age = "due" /\ ~obj[i].cookie ->
                  Step(c, obj, book, Wait(r, a, FALSE, "fresh"))
  BY <1>1 DEF Fetch, ProcessOK, Renewing, Renewals
<1> HIDE DEF q
<1>4. a \in AccountsOrNobody /\ i \in Ids \cup {0} /\ (i # 0 => a \in Accounts)
  BY <1>2, NamedOK
<1> HIDE DEF a, i
<1>5. /\ r \in Process /\ r.who = a /\ r.ref = i /\ r.pc = "next" /\ r.raw = 0
      /\ r.todo = proc[c].todo
  BY <1>1, <1>3, <1>4 DEF Process
<1> HIDE DEF r
<1>6. CASE i = 0
  <2>1. Step(c, obj, book, Fetched(r, FALSE))
    BY <1>3, <1>6
  <2>2. QED
    BY <1>1, <1>3, <1>5, <2>1, FetchedOK, QuietInv
<1>7. CASE i # 0 /\ obj[i].age # "due"
  <2> DEFINE s == [r EXCEPT !.pc = "send"]
  <2>1. Step(c, obj, book, s)
    BY <1>3, <1>7
  <2>2. /\ s \in Process /\ s.pc = "send" /\ s.raw = 0 /\ s.who = a /\ s.ref = i
        /\ s.todo # <<>>
    BY <1>3, <1>5 DEF Process
  <2> HIDE DEF s
  <2>3. ProcessOK(c, s)
    BY <1>1, <1>4, <1>7, <2>2 DEF ProcessOK, Renewing, Renewals, Waiting, Sending
  <2>4. QED
    BY <1>1, <1>3, <2>1, <2>2, <2>3, QuietInv
<1>8. CASE i # 0 /\ obj[i].age = "due" /\ obj[i].cookie
  <2>1. WithCopy(c, obj, book, r)
    BY <1>3, <1>8
  <2>2. /\ lock' \in [Accounts -> Procs \cup {Nobody}]
        /\ \A p \in Procs \ {c} : Renewing(proc[p]) => lock'[proc[p].who] = p
    BY <1>3 DEF SessionInv
  <2>3. QED
    BY <1>1, <1>3, <1>4, <1>5, <1>8, <2>1, <2>2, WithCopyInv
<1>9. CASE i # 0 /\ obj[i].age = "due" /\ ~ obj[i].cookie
  <2>1. Step(c, obj, book, Wait(r, a, FALSE, "fresh"))
    BY <1>3, <1>9
  <2> DEFINE s == Wait(r, a, FALSE, "fresh")
  <2>2. ProcessOK(c, s) /\ s.raw = 0
    BY <1>1, <1>3, <1>4, <1>5, <1>9, WaitOK DEF Afters
  <2>3. QED
    BY <1>1, <1>3, <2>1, <2>2, QuietInv
<1>10. QED
  BY <1>6, <1>7, <1>8, <1>9

\* What a handler sends with.
LEMMA SendingWith ==
    ASSUME SessionInv, NEW c \in Clients, Sending(proc[c])
    PROVE  /\ proc[c] \in Process /\ proc[c].raw = 0 /\ proc[c].todo # <<>>
           /\ proc[c].who \in Accounts /\ proc[c].ref \in Ids
           /\ c \in Procs /\ c # Keeper
  BY ClientsOK DEF ProcessOK, Sending, Renewing, Renewals, Process

LEMMA AnsweredInv ==
    ASSUME SessionInv, NEW c \in Clients, Answered(c)
    PROVE  SessionInv'
<1> DEFINE r == proc[c]
           i == r.ref
<1>1. /\ Sending(r) /\ lock' = lock
      /\ \E good \in BOOLEAN :
           \/ Step(c, obj, book, Fetched(r, good))
           \/ \E jwt \in BOOLEAN :
                Step(c, Captured(i, jwt), Saved(book, c, r.who, i), Fetched(r, good))
  BY DEF Answered, Sending
<1>2. /\ r \in Process /\ r.who \in Accounts /\ i \in Ids /\ c \in Procs
      /\ \A good \in BOOLEAN : ProcessOK(c, Fetched(r, good)) /\ Fetched(r, good).raw = 0
  BY <1>1, SendingWith, FetchedOK
<1>3. /\ Clean(c, obj, book) /\ RecordsOK(obj) /\ book \in Book /\ obj[i] \in Record
      /\ obj \in [Ids -> Record]
  BY <1>2, CleanNow DEF SessionInv
<1>4. ASSUME NEW good \in BOOLEAN, NEW jwt \in BOOLEAN,
             Step(c, Captured(i, jwt), Saved(book, c, r.who, i), Fetched(r, good))
      PROVE  SessionInv'
  <2> DEFINE age == IF jwt /\ obj[i].age = "due" THEN "fresh" ELSE obj[i].age
             x == [obj[i] EXCEPT !.cookie = TRUE, !.stale = FALSE, !.age = age]
             o == [obj EXCEPT ![i] = x]
             a == r.who
  <2>1. Captured(i, jwt) = o
    BY <1>2, <1>3 DEF Captured
  <2> HIDE DEF i
  <2>2. age \in {"new", "fresh", "due"}
    BY <1>3 DEF Record
  <2> HIDE DEF age
  <2>3. x \in Record /\ ~ x.stale /\ x.password = obj[i].password /\ x.fails = obj[i].fails
    BY <1>3, <2>2 DEF Record
  <2> HIDE DEF x
  <2>4. RecordsOK(o)
    BY <1>2, <1>3, <2>3, RecordSet DEF RecordsOK
  <2>5. ~ o[i].stale /\ \A j \in Ids : o[j].stale => obj[j].stale
    BY <1>2, <1>3, <2>3
  <2> HIDE DEF o
  <2>6. \A j \in Ids : o[j].stale => j \notin Range(book.stored) /\ \A p \in Procs \ {c} : proc[p].raw # j
    BY <1>3, <2>5 DEF Clean
  <2>7. Clean(c, o, Saved(book, c, a, i))
    <3>1. a \in Accounts
      BY <1>2
    <3> HIDE DEF a
    <3>2. QED
      BY <1>2, <1>3, <2>4, <2>5, <2>6, <3>1, SavedClean
  <2>8. QED
    BY <1>1, <1>2, <1>4, <2>1, <2>7, QuietInv
<1>5. ASSUME NEW good \in BOOLEAN, Step(c, obj, book, Fetched(r, good))
      PROVE  SessionInv'
  BY <1>1, <1>2, <1>3, <1>5, QuietInv
<1>6. QED
  BY <1>1, <1>4, <1>5

LEMMA FetchStepInv ==
    ASSUME SessionInv, NEW c \in Clients, FetchStep(c)
    PROVE  SessionInv'
<1>1. c \in Procs /\ c # Keeper /\ Clean(c, obj, book) /\ FALSE \in BOOLEAN /\ TRUE \in BOOLEAN
  BY ClientsOK, CleanNow
<1>2. CASE AnswerFails(c)
  <2>1. Sending(proc[c]) /\ Step(c, obj, book, Fetched(proc[c], FALSE)) /\ lock' = lock
    BY <1>2 DEF AnswerFails, Sending
  <2>2. QED
    BY <1>1, <2>1, SendingWith, FetchedOK, QuietInv
<1>3. CASE Refused(c)
  <2> DEFINE s == Wait(proc[c], proc[c].who, TRUE, "retry")
  <2>1. Sending(proc[c]) /\ Step(c, obj, book, s) /\ lock' = lock
    BY <1>3 DEF Refused, Sending
  <2>2. ProcessOK(c, s) /\ s.raw = 0
    BY <1>1, <2>1, SendingWith, WaitOK, RecordsAreNotZero DEF Afters
  <2>3. QED
    BY <1>1, <2>1, <2>2, QuietInv
<1>4. CASE RefusedAgain(c)
  <2>1. Sending(proc[c]) /\ Step(c, obj, Cleared(book, c, proc[c].who), Fetched(proc[c], FALSE)) /\ lock' = lock
    BY <1>4 DEF RefusedAgain, Sending
  <2>2. Clean(c, obj, Cleared(book, c, proc[c].who))
    BY <1>1, <2>1, SendingWith, ClearedClean DEF AccountsOrNobody
  <2>3. QED
    BY <1>1, <2>1, <2>2, SendingWith, FetchedOK, QuietInv
<1>5. CASE Finish(c)
  BY <1>1, <1>5, IdleOK, QuietInv DEF Finish
<1>6. QED
  BY <1>2, <1>3, <1>4, <1>5, FetchInv, AnsweredInv DEF FetchStep

-----------------------------------------------------------------------------
(* The other handlers and the loop                                           *)

\* A step that no process takes.
LEMMA StillInv ==
    ASSUME SessionInv, NEW o, NEW b, RecordsOK(o), b \in Book, proc' = proc, lock' = lock, book' = b,
           \/ obj' = o
           \/ \E held : obj' = [i \in Ids |-> IF i \in held THEN o[i] ELSE NoRecord],
           \A i \in Ids : o[i].stale => i \notin Range(b.stored) /\ \A p \in Procs : proc[p].raw # i
    PROVE  SessionInv'
<1>1. RecordsOK(obj') /\ \A i \in Ids : obj'[i].stale => o[i].stale
  <2>1. CASE obj' = o
    BY <2>1
  <2>2. ASSUME NEW held, obj' = [i \in Ids |-> IF i \in held THEN o[i] ELSE NoRecord]
        PROVE  RecordsOK(obj') /\ \A i \in Ids : obj'[i].stale => o[i].stale
    <3>1. NoRecord \in Record /\ ~ NoRecord.password /\ ~ NoRecord.stale
      BY SessionAssumption DEF NoRecord, Record
    <3>2. o \in [Ids -> Record] /\ \A i \in Ids : o[i].password => o[i].fails < MaxFailures
      BY DEF RecordsOK
    <3>3. QED
      BY <2>2, <3>1, <3>2 DEF RecordsOK
  <2>3. QED
    BY <2>1, <2>2
<1>2. book' \in Book /\ Unmarked(obj', book', proc')
  BY <1>1 DEF Unmarked
<1>3. /\ proc' \in [Procs -> Process] /\ \A p \in Procs : ProcessOK(p, proc'[p])
      /\ \A p \in Procs : Renewing(proc'[p]) => lock'[proc'[p].who] = p
      /\ lock' \in [Accounts -> Procs \cup {Nobody}]
  BY DEF SessionInv
<1>4. QED
  BY <1>1, <1>2, <1>3 DEF SessionInv, RecordsOK, Unmarked

LEMMA Parts ==
    ASSUME SessionInv
    PROVE  /\ RecordsOK(obj) /\ book \in Book /\ obj \in [Ids -> Record] /\ book \in Book
           /\ \A i \in Ids : obj[i].stale => i \notin Range(book.stored) /\ \A p \in Procs : proc[p].raw # i
  BY DEF SessionInv, RecordsOK, Unmarked

LEMMA LoginInv ==
    ASSUME SessionInv, NEW a \in Accounts, Login(a)
    PROVE  SessionInv'
<1> DEFINE i == Spare
           x(cookie, password) == [NoRecord EXCEPT !.cookie = cookie, !.password = password, !.age = "new"]
           b == Saved(book, Nobody, a, i)
<1>1. PICK cookie \in BOOLEAN, password \in BOOLEAN :
        obj' = [j \in Ids |-> IF j = i THEN x(cookie, password)
                              ELSE IF j \in Held(b, proc) THEN obj[j] ELSE NoRecord]
  BY DEF Login, Encrypted
<1>2. book' = b /\ proc' = proc /\ lock' = lock
  BY DEF Login
<1>3. i \in Ids /\ \A p \in Procs : proc[p].raw # i
  BY SpareIsFree DEF Held
<1> HIDE DEF i
<1>4. RecordsOK(obj) /\ book \in Book /\ obj \in [Ids -> Record] /\ book \in Book
  BY Parts
<1>5. 0 \in 0..MaxFailures /\ 0 < MaxFailures
  BY SessionAssumption
<1> DEFINE y == x(cookie, password)
           o == [obj EXCEPT ![i] = y]
<1>6. y \in Record /\ ~ y.stale /\ y.fails = 0
  BY <1>5 DEF NoRecord, Record
<1>7. obj' = [j \in Ids |-> IF j \in Held(b, proc) \cup {i} THEN o[j] ELSE NoRecord]
  <2> HIDE DEF x, b
  <2>1. \A j \in Ids : o[j] = IF j = i THEN y ELSE obj[j]
    BY <1>4
  <2> HIDE DEF o
  <2>2. QED
    BY <1>1, <2>1
<1> HIDE DEF y, x
<1>8. RecordsOK(o) /\ ~ o[i].stale /\ \A j \in Ids : o[j].stale => obj[j].stale
  BY <1>3, <1>4, <1>5, <1>6, RecordSet
<1> HIDE DEF o
<1>9. /\ b \in Book /\ Range(b.stored) \subseteq Range(book.stored) \cup {i}
  <2>1. b.stored = [book.stored EXCEPT ![a] = i] /\ b \in Book
    BY <1>3, <1>4, SavedOK
  <2>2. DOMAIN book.stored = Accounts
    BY <1>4 DEF Book
  <2> HIDE DEF b
  <2>3. QED
    BY <2>1, <2>2 DEF Range
<1> HIDE DEF b
<1>10. \A j \in Ids : o[j].stale => j \notin Range(b.stored) /\ \A p \in Procs : proc[p].raw # j
  BY <1>8, <1>9, Parts
<1>11. QED
  BY <1>2, <1>7, <1>8, <1>9, <1>10, StillInv

LEMMA DropsInv ==
    ASSUME SessionInv, NEW a \in AccountsOrNobody, Drops(a), proc' = proc, lock' = lock
    PROVE  SessionInv'
<1> DEFINE b == Cleared(book, Nobody, a)
<1>1. book' = b /\ \E held : obj' = [i \in Ids |-> IF i \in held THEN obj[i] ELSE NoRecord]
  BY DEF Drops
<1>2. b \in Book /\ \A c \in Accounts : b.stored[c] = IF c = a THEN 0 ELSE book.stored[c]
  BY Parts, ClearedOK
<1>3. DOMAIN b.stored = Accounts /\ DOMAIN book.stored = Accounts
  BY <1>2, Parts DEF Book
<1> HIDE DEF b
<1>4. \A i \in Ids : i \in Range(b.stored) => i \in Range(book.stored)
  BY <1>2, <1>3, RecordsAreNotZero DEF Range
<1>5. QED
  BY <1>1, <1>2, <1>4, Parts, StillInv

LEMMA SwitchInv ==
    ASSUME SessionInv, NEW a \in Accounts, Switch(a)
    PROVE  SessionInv'
<1> DEFINE b == [book EXCEPT !.current = a]
<1>1. book' = b /\ obj' = obj /\ lock' = lock /\ proc' = proc /\ book.stored[a] # 0
  BY DEF Switch
<1>2. b \in Book /\ b.stored = book.stored /\ b.list = book.list /\ b.current = a
  BY Parts DEF Book, AccountsOrNobody
<1> HIDE DEF b
<1>3. QED
  BY <1>1, <1>2, Parts, StillInv

LEMMA TickInv ==
    ASSUME SessionInv, Tick
    PROVE  SessionInv'
<1>1. PICK rested \in BOOLEAN :
        obj' = [i \in Ids |-> [obj[i] EXCEPT !.age = IF @ = "new" THEN "fresh" ELSE "due",
                                             !.tired = @ /\ ~rested]]
  BY DEF Tick
<1>2. book' = book /\ lock' = lock /\ proc' = proc
  BY DEF Tick
<1>3. ASSUME NEW i \in Ids
      PROVE  /\ obj'[i] \in Record /\ obj'[i].stale = obj[i].stale
             /\ obj'[i].password = obj[i].password /\ obj'[i].fails = obj[i].fails
  <2> DEFINE age == IF obj[i].age = "new" THEN "fresh" ELSE "due"
             tired == obj[i].tired /\ ~ rested
  <2>1. obj'[i] = [obj[i] EXCEPT !.age = age, !.tired = tired] /\ obj[i] \in Record
    BY <1>1, Parts
  <2>2. age \in {"new", "fresh", "due"} /\ tired \in BOOLEAN
    BY <2>1 DEF Record
  <2> HIDE DEF age, tired
  <2>3. QED
    BY <2>1, <2>2 DEF Record
<1>4. RecordsOK(obj')
  <2>1. obj' = [i \in Ids |-> obj'[i]]
    BY <1>1
  <2>2. \A i \in Ids : obj[i].password => obj[i].fails < MaxFailures
    BY Parts DEF RecordsOK
  <2>3. obj' \in [Ids -> Record]
    BY <1>3, <2>1
  <2>4. QED
    BY <1>3, <2>2, <2>3 DEF RecordsOK
<1>5. \A i \in Ids : obj'[i].stale => i \notin Range(book.stored) /\ \A p \in Procs : proc[p].raw # i
  BY <1>3, Parts
<1>6. QED
  BY <1>2, <1>4, <1>5, Parts, StillInv

LEMMA RefreshInv ==
    ASSUME SessionInv, NEW c \in Clients, NEW q \in AccountsOrNobody, Refresh(c, q)
    PROVE  SessionInv'
<1> DEFINE r == [Idle EXCEPT !.ref = Session(q)]
           s == Wait(r, Named(q), FALSE, "refresh")
<1>1. Step(c, obj, book, s) /\ lock' = lock /\ Session(q) # 0
  BY DEF Refresh
<1>2. Named(q) \in Accounts /\ Session(q) \in Ids
  BY <1>1, NamedOK
<1>3. r \in Process /\ r.raw = 0 /\ r.ref # 0
  BY <1>2, IdleOK, ClientsOK, RecordsAreNotZero DEF Process, Idle
<1> HIDE DEF r
<1>4. ProcessOK(c, s) /\ s.raw = 0
  BY <1>2, <1>3, ClientsOK, WaitOK DEF Afters
<1> HIDE DEF s
<1>5. QED
  BY <1>1, <1>4, ClientsOK, CleanNow, QuietInv

\* An update of the list alone, which the page of the accounts and the loop
\* begin when a listed account has no session.
Prune(p) == [Update(p, Nobody, "list") EXCEPT !.at = "prune", !.seen = Pruned(book)]

LEMMA PruneOK ==
    ASSUME SessionInv, NEW p \in Procs \cup {Nobody}
    PROVE  /\ Pruned(book) \in Seq(Accounts) /\ Prune(p) \in Calls
           /\ Prune(p).who = Nobody /\ Prune(p).kind = "list" /\ Prune(p).at = "prune"
           /\ Prune(p).seen = Pruned(book)
<1> DEFINE known == Pruned(book)
           u == Update(p, Nobody, "list")
<1>1. known \in Seq(Accounts)
  BY KeptProperties, Parts DEF Pruned, Book
<1>2. u \in Calls /\ u.who = Nobody /\ u.kind = "list"
  BY UpdateOK DEF AccountsOrNobody, Update
<1>3. Prune(p) = [u EXCEPT !.at = "prune", !.seen = known]
  BY DEF Prune
<1> HIDE DEF known, u
<1>4. QED
  BY <1>1, <1>2, <1>3 DEF Calls, known

LEMMA ListsInv ==
    ASSUME SessionInv, Lists
    PROVE  SessionInv'
<1> DEFINE b == Begins(book, Prune(Nobody))
<1>1. book' = b /\ obj' = obj /\ proc' = proc /\ lock' = lock
  BY DEF Lists, Prune
<1>2. b \in Book /\ b.stored = book.stored
  BY PruneOK, Parts, BeginsOK
<1> HIDE DEF b
<1>3. QED
  BY <1>1, <1>2, Parts, StillInv

LEMMA StorageInv ==
    ASSUME SessionInv, StorageBusy \/ StorageIdle
    PROVE  SessionInv'
<1>1. PICK busy \in BOOLEAN : book' = [book EXCEPT !.busy = busy]
  BY DEF StorageBusy, StorageIdle
<1>2. obj' = obj /\ proc' = proc /\ lock' = lock
  BY DEF StorageBusy, StorageIdle
<1>3. book' \in Book /\ book'.stored = book.stored
  BY <1>1, Parts DEF Book
<1>4. QED
  BY <1>2, <1>3, Parts, StillInv

\* What is left of an update when the listed accounts are known.
LEMMA RestOK ==
    ASSUME NEW u \in Calls, NEW listed \in Seq(Accounts)
    PROVE  /\ Rest(u, listed) \subseteq Calls
           /\ \A v \in Rest(u, listed) : v.by = u.by /\ v.who = u.who
<1>1. /\ u.by \in Procs \cup {Nobody} /\ u.who \in AccountsOrNobody
      /\ u.kind \in {"save", "clear", "check", "list"} /\ (u.kind # "list" => u.who \in Accounts)
      /\ <<>> \in Seq(Accounts)
  BY DEF Calls
<1> DEFINE v1 == Update(u.by, u.who, "check")
           v2 == [u EXCEPT !.at = "write", !.seen = listed]
           v3 == [u EXCEPT !.at = "current", !.seen = <<>>]
<1>2. u.kind # "list" => v1 \in Calls
  BY <1>1, UpdateOK
<1>3. v1.by = u.by /\ v1.who = u.who
  BY DEF Update
<1>4. v2 \in Calls /\ v2.by = u.by /\ v2.who = u.who
  BY DEF Calls
<1>5. v3 \in Calls /\ v3.by = u.by /\ v3.who = u.who
  BY <1>1 DEF Calls
<1>6. \/ u.kind = "save" /\ Rest(u, listed) = {v1}
      \/ Rest(u, listed) = {v2}
      \/ Rest(u, listed) = {v3}
      \/ Rest(u, listed) = {}
  <2> HIDE DEF v1, v2, v3
  <2>1. Rest(u, listed) =
            CASE u.kind = "save" /\ u.who \in ToSet(listed) -> {v1}
              [] u.kind \in {"save", "clear"} /\ ~(u.kind = "save" /\ u.who \in ToSet(listed)) -> {v2}
              [] u.kind = "check" /\ Len(listed) = 1 -> {v3}
              [] u.kind = "list" \/ (u.kind = "check" /\ Len(listed) # 1) -> {}
    BY DEF Rest, v1, v2, v3
  <2>2. QED
    BY <1>1, <2>1
<1> HIDE DEF v1, v2, v3
<1>7. QED
  BY <1>2, <1>3, <1>4, <1>5, <1>6

\* What a call of the storage leaves of its update, and the book.
LEMMA StoreStepOK ==
    ASSUME SessionInv, NEW u \in book.under, StoreStep(u)
    PROVE  /\ obj' = obj /\ proc' = proc /\ lock' = lock /\ cache' = cache
           /\ book' \in Book /\ book'.stored = book.stored
<1>1. u \in Calls /\ book \in Book /\ u.seen \in Seq(Accounts) /\ u.who \in AccountsOrNobody
  BY Parts DEF Book, Calls
<1>2. ASSUME NEW rest, rest \subseteq Calls, NEW b, b \in Book, b.stored = book.stored, Stores(u, rest, b)
      PROVE  /\ obj' = obj /\ proc' = proc /\ lock' = lock /\ cache' = cache
             /\ book' \in Book /\ book'.stored = book.stored
  <2>1. book' = [b EXCEPT !.under = (b.under \ {u}) \cup rest]
    BY <1>2 DEF Stores
  <2>2. (b.under \ {u}) \cup rest \in SUBSET Calls
    BY <1>2 DEF Book
  <2>3. book' \in Book /\ book'.stored = book.stored
    BY <1>2, <2>1, <2>2 DEF Book
  <2>4. QED
    BY <1>2, <2>3 DEF Stores
<1>3. \A list \in Seq(Accounts) : /\ [book EXCEPT !.list = list] \in Book
                                  /\ [book EXCEPT !.list = list].stored = book.stored
  BY <1>1 DEF Book
<1>4. \A a \in AccountsOrNobody : /\ [book EXCEPT !.current = a] \in Book
                                   /\ [book EXCEPT !.current = a].stored = book.stored
  BY <1>1 DEF Book
<1>5. u.kind # "list" => Added(u.seen, u.who) \in Seq(Accounts)
  BY <1>1, OneMore DEF Added, Calls
<1>6. Others(u) \in Seq(Accounts)
  BY <1>1, KeptProperties DEF Others
<1>7. CASE ReadsList(u)
  <2>1. Pruned(book) \in Seq(Accounts) /\ book.list \in Seq(Accounts)
    BY PruneOK, ProcsFinite, <1>1 DEF Book
  <2> DEFINE v == [u EXCEPT !.at = "prune", !.seen = Pruned(book)]
  <2>2. v \in Calls
    BY <1>1, <2>1 DEF Calls
  <2>3. Listing(book, u) = Rest(u, book.list) \/ Listing(book, u) = {v}
    BY DEF Listing
  <2> HIDE DEF v
  <2>4. Listing(book, u) \subseteq Calls
    BY <1>1, <2>1, <2>2, <2>3, RestOK
  <2>5. QED
    BY <1>1, <1>2, <1>7, <2>4 DEF ReadsList
<1>8. CASE Prunes(u)
  <2> DEFINE list == IF u.kind = "save" THEN Added(u.seen, u.who) ELSE u.seen
  <2>1. list \in Seq(Accounts)
    BY <1>1, <1>5
  <2>2. Stores(u, Rest(u, u.seen), [book EXCEPT !.list = list])
    BY <1>8 DEF Prunes
  <2> HIDE DEF list
  <2>3. QED
    BY <1>1, <1>2, <1>3, <2>1, <2>2, RestOK
<1>9. CASE Enters(u)
  <2> DEFINE v == Update(u.by, u.who, "check")
             list == Added(u.seen, u.who)
  <2>1. u.kind = "save" /\ Stores(u, {v}, [book EXCEPT !.list = list])
    BY <1>9 DEF Enters
  <2>2. v \in Calls
    BY <1>1, <2>1, UpdateOK DEF Calls
  <2>3. list \in Seq(Accounts)
    BY <1>5, <2>1
  <2> HIDE DEF v, list
  <2>4. QED
    BY <1>2, <1>3, <2>1, <2>2, <2>3
<1>10. CASE Leaves(u)
  <2> DEFINE v == [u EXCEPT !.at = "current"]
             list == Others(u)
  <2>1. Stores(u, {v}, [book EXCEPT !.list = list])
    BY <1>10 DEF Leaves
  <2>2. v \in Calls
    BY <1>1 DEF Calls
  <2> HIDE DEF v, list
  <2>3. QED
    BY <1>2, <1>3, <1>6, <2>1, <2>2 DEF list
<1>11. CASE Elects(u)
  BY <1>1, <1>2, <1>4, <1>11 DEF Elects
<1>12. CASE Looks(u)
  <2> DEFINE rest == IF book.current = u.who THEN {[u EXCEPT !.at = "pass"]} ELSE {}
  <2>1. rest \subseteq Calls
    BY <1>1 DEF Calls
  <2>2. Stores(u, rest, book)
    BY <1>12 DEF Looks
  <2> HIDE DEF rest
  <2>3. QED
    BY <1>1, <1>2, <2>1, <2>2
<1>13. CASE PassesOn(u)
  <2> DEFINE a == IF Others(u) = <<>> THEN Nobody ELSE Others(u)[1]
  <2>1. Stores(u, {}, [book EXCEPT !.current = a])
    BY <1>13 DEF PassesOn
  <2>2. a \in AccountsOrNobody
    BY <1>6, FirstIsMember DEF AccountsOrNobody, ToSet
  <2> HIDE DEF a
  <2>3. QED
    BY <1>2, <1>4, <2>1, <2>2
<1>14. QED
  BY <1>7, <1>8, <1>9, <1>10, <1>11, <1>12, <1>13 DEF StoreStep

LEMMA StoreStepInv ==
    ASSUME SessionInv, NEW u \in book.under, StoreStep(u)
    PROVE  SessionInv'
  BY StoreStepOK, Parts, StillInv

LEMMA WakeInv ==
    ASSUME SessionInv, Wake
    PROVE  SessionInv'
<1> DEFINE known == Pruned(book)
           b == IF known = book.list THEN book ELSE Begins(book, Prune(Keeper))
           s == [Idle EXCEPT !.pc = "next", !.todo = known]
<1>1. Step(Keeper, obj, b, s) /\ lock' = lock
  BY DEF Wake, Prune
<1>2. known \in Seq(Accounts) /\ b \in Book /\ b.stored = book.stored
  BY PruneOK, Parts, BeginsOK, ProcsFinite
<1> HIDE DEF known, b
<1>3. Clean(Keeper, obj, b)
  BY <1>2, Parts DEF Clean
<1>4. s \in Process /\ s.pc = "next" /\ s.raw = 0 /\ s.todo = known
  <2>1. known \in Seq(Items)
    BY <1>2 DEF Items
  <2>2. QED
    BY <2>1, ProcsFinite, IdleOK DEF Process, Idle
<1> HIDE DEF s
<1>5. ProcessOK(Keeper, s)
  BY <1>2, <1>4 DEF ProcessOK, Renewing, Renewals, Waiting, Sending
<1>6. QED
  BY <1>1, <1>3, <1>4, <1>5, ProcsFinite, QuietInv

LEMMA KeepInv ==
    ASSUME SessionInv, Keep
    PROVE  SessionInv'
<1> DEFINE r == proc[Keeper]
           a == Head(r.todo)
           s == [r EXCEPT !.todo = Tail(@)]
<1>1. r.pc = "next" /\ lock' = lock
  BY DEF Keep
<1>2. /\ Keeper \in Procs /\ r \in Process /\ ProcessOK(Keeper, r) /\ Clean(Keeper, obj, book)
      /\ r.todo \in Seq(Accounts) /\ r.raw = 0
  BY <1>1, ProcsFinite, CleanNow DEF ProcessOK, Renewing, Renewals
<1>3. CASE r.todo = <<>>
  BY <1>1, <1>2, <1>3, IdleOK, QuietInv DEF Keep
<1>4. CASE r.todo # <<>>
  <2>1. \/ Step(Keeper, obj, book, Wait(s, a, FALSE, "keep"))
        \/ Step(Keeper, obj, book, s)
    BY <1>4 DEF Keep
  <2>2. a \in Accounts /\ Tail(r.todo) \in Seq(Accounts) /\ Tail(r.todo) \in Seq(Items)
    BY <1>2, <1>4 DEF Items
  <2> DEFINE more == Tail(r.todo)
  <2>3. s = [r EXCEPT !.todo = more]
    BY <1>2 DEF Process
  <2> HIDE DEF more, s
  <2>4. s \in Process /\ s.pc = "next" /\ s.raw = 0 /\ s.todo \in Seq(Accounts)
    BY <1>1, <1>2, <2>2, <2>3 DEF Process, more
  <2>5. ProcessOK(Keeper, s)
    BY <2>4 DEF ProcessOK, Renewing, Renewals, Waiting, Sending
  <2> DEFINE w == Wait(s, a, FALSE, "keep")
  <2>6. ProcessOK(Keeper, w) /\ w.raw = 0
    BY <1>2, <2>2, <2>4, WaitOK DEF Afters
  <2> HIDE DEF w
  <2>7. CASE Step(Keeper, obj, book, s)
    BY <1>1, <1>2, <2>4, <2>5, <2>7, QuietInv
  <2>8. CASE Step(Keeper, obj, book, w)
    BY <1>1, <1>2, <2>6, <2>8, QuietInv
  <2>9. QED
    BY <2>1, <2>7, <2>8 DEF w
<1>5. QED
  BY <1>3, <1>4

LEMMA InitInv == Init => SessionInv
<1> SUFFICES ASSUME Init
             PROVE  SessionInv
  OBVIOUS
<1>1. NoRecord \in Record /\ ~ NoRecord.password /\ ~ NoRecord.stale
  BY SessionAssumption DEF NoRecord, Record
<1>2. RecordsOK(obj) /\ \A i \in Ids : ~ obj[i].stale
  BY <1>1 DEF Init, RecordsOK
<1>3. <<>> \in Seq(Accounts)
  OBVIOUS
<1>4. book \in Book
  BY <1>3 DEF Init, Book, AccountsOrNobody
<1>5. /\ proc \in [Procs -> Process] /\ \A p \in Procs : proc[p] = Idle
      /\ lock \in [Accounts -> Procs \cup {Nobody}]
  BY IdleOK, ProcsFinite DEF Init
<1>6. \A p \in Procs : ProcessOK(p, proc[p]) /\ ~ Renewing(proc[p])
  <2>1. ~ Renewing(Idle)
    BY DEF Idle, Renewing, Renewals
  <2>2. QED
    BY <1>5, <2>1, IdleOK
<1>7. QED
  BY <1>2, <1>4, <1>5, <1>6 DEF SessionInv, Unmarked

\* The keep-alive loop sends nothing itself.
LEMMA KeeperWaits ==
    ASSUME SessionInv, NEW p \in Procs, FetchStep(p)
    PROVE  p \in Clients
<1>1. Sending(proc[p]) \/ p \in Clients
  BY DEF FetchStep, Fetch, Answered, AnswerFails, Refused, RefusedAgain, Finish, Sending
<1>2. QED
  BY <1>1 DEF SessionInv, ProcessOK, Procs

\* The steps of a behaviour.
LEMMA Steps ==
    ASSUME SessionInv, Next
    PROVE  \/ AdminStep \/ ClientStep \/ Tick \/ KeeperStep
           \/ \E p \in Procs : RenewStep(p)
           \/ \E c \in Clients : FetchStep(c)
           \/ \E u \in book.under : StoreStep(u)
  BY KeeperWaits DEF Next, HandlerStep

LEMMA NextInv == SessionInv /\ [Next]_vars => SessionInv'
<1> SUFFICES ASSUME SessionInv, [Next]_vars
             PROVE  SessionInv'
  OBVIOUS
<1>1. CASE AdminStep
  <2>1. ASSUME NEW a \in Accounts, Lapses(a)
        PROVE  SessionInv'
    BY <2>1, DropsInv DEF Lapses, AccountsOrNobody
  <2>2. ASSUME NEW q \in AccountsOrNobody, Logout(q)
        PROVE  SessionInv'
    BY <2>2, NamedOK, DropsInv DEF Logout
  <2>3. QED
    BY <1>1, <2>1, <2>2, LoginInv, SwitchInv, ListsInv, StorageInv DEF AdminStep, AccountsOrNobody
<1>2. CASE ClientStep
  BY <1>2, RefreshInv, OpenInv DEF ClientStep, AccountsOrNobody
<1>3. CASE Tick
  BY <1>3, TickInv
<1>4. CASE KeeperStep
  BY <1>4, WakeInv, KeepInv DEF KeeperStep
<1>5. CASE \E p \in Procs : RenewStep(p)
  BY <1>5, RenewStepInv
<1>6. CASE \E c \in Clients : FetchStep(c)
  BY <1>6, FetchStepInv
<1>7. CASE \E u \in book.under : StoreStep(u)
  BY <1>7, StoreStepInv
<1>8. CASE UNCHANGED vars
  BY <1>8, Parts, StillInv DEF vars
<1>9. QED
  BY <1>1, <1>2, <1>3, <1>4, <1>5, <1>6, <1>7, <1>8, Steps

-----------------------------------------------------------------------------
(* What a handler does with the book                                         *)

\* A step of p that begins no update but of the account p is for.
Turns(p) ==
    /\ \E r : proc' = [proc EXCEPT ![p] = r]
    /\ \/ book' = book
       \/ proc[p].who \in Accounts /\ \E i \in Ids : book' = Saved(book, p, proc[p].who, i)
       \/ proc[p].who \in Accounts /\ book' = Cleared(book, p, proc[p].who)

\* A renewal under way ends, stores a record first or goes on with the
\* password.
LEMMA RenewalSteps ==
    ASSUME NEW p \in Procs, RenewStep(p), ~ Acquire(p)
    PROVE  /\ Renewing(proc[p]) /\ Waiting(proc[p])
           /\ \/ \E o, b, i : RenewEnds(p, o, b, i)
              \/ proc[p].pc \in {"cookie", "password"} /\ \E o, i : \E pc \in {"saving", "noting"} : Saves(p, o, i, pc)
              \/ CookieFails(p)
<1>1. CASE CookieFails(p)
  BY <1>1 DEF CookieFails, Renewing, Renewals, Waiting
<1>2. CASE CookieRolls(p) \/ LogsIn(p)
  BY <1>2 DEF CookieRolls, LogsIn, Renewing, Renewals, Waiting
<1>3. CASE PasswordRefused(p)
  <2>1. Renewing(proc[p]) /\ Waiting(proc[p]) /\ proc[p].pc = "password"
    BY <1>3 DEF PasswordRefused, Renewing, Renewals, Waiting
  <2>2. (\E o, i : Saves(p, o, i, "noting")) \/ RenewEnds(p, obj, book, 0)
    BY <1>3 DEF PasswordRefused
  <2>3. QED
    BY <2>1, <2>2
<1>4. CASE PasswordErrs(p)
  BY <1>4 DEF PasswordErrs, Renewing, Renewals, Waiting
<1>5. CASE Renewed(p) \/ Noted(p)
  BY <1>5 DEF Renewed, Noted, Renewing, Renewals, Waiting
<1>6. QED
  BY <1>1, <1>2, <1>3, <1>4, <1>5 DEF RenewStep

LEMMA RenewEndsTurns ==
    ASSUME SessionInv, NEW p \in Procs, Waiting(proc[p]), NEW o, NEW i, RenewEnds(p, o, book, i)
    PROVE  Turns(p)
<1> DEFINE a == proc[p].who
<1>1. a \in Accounts /\ proc[p].after \in Afters /\ proc[p] \in Process
  BY DEF SessionInv, ProcessOK
<1>2. [proc[p] EXCEPT !.raw = 0, !.force = FALSE].who = a
  BY <1>1 DEF Process
<1>3. [proc[p] EXCEPT !.raw = 0, !.force = FALSE].after \in Afters
  BY <1>1 DEF Process
<1>4. /\ book' = book \/ book' = Cleared(book, p, a)
      /\ \E r : proc' = [proc EXCEPT ![p] = r]
  BY <1>2, <1>3 DEF RenewEnds, Step, WithCopy, Afters
<1>5. QED
  BY <1>1, <1>4 DEF Turns

LEMMA PasswordTurns ==
    ASSUME SessionInv, NEW p \in Procs, Waiting(proc[p]), NEW i, Password(p, i)
    PROVE  Turns(p)
<1>1. CASE RenewEnds(p, obj, book, 0)
  BY <1>1, RenewEndsTurns
<1>2. CASE ~ RenewEnds(p, obj, book, 0)
  BY <1>2 DEF Password, Step, Turns
<1>3. QED
  BY <1>1, <1>2

LEMMA RenewStepTurns ==
    ASSUME SessionInv, NEW p \in Procs, RenewStep(p)
    PROVE  Turns(p)
<1>1. CASE Acquire(p)
  <2> DEFINE i == book.stored[proc[p].who]
  <2>1. Waiting(proc[p]) /\ Renew(p, i)
    BY <1>1 DEF Acquire, Waiting
  <2> HIDE DEF i
  <2>2. CASE RenewEnds(p, obj, book, 0) \/ RenewEnds(p, obj, book, i)
    BY <2>1, <2>2, RenewEndsTurns
  <2>3. CASE Password(p, i)
    BY <2>1, <2>3, PasswordTurns
  <2>4. CASE ~ RenewEnds(p, obj, book, 0) /\ ~ RenewEnds(p, obj, book, i) /\ ~ Password(p, i)
    BY <2>1, <2>4 DEF Renew, Step, Turns
  <2>5. QED
    BY <2>2, <2>3, <2>4
<1>2. CASE ~ Acquire(p)
  <2>1. Renewing(proc[p])
    BY <1>2, RenewalSteps
  <2>2. Waiting(proc[p]) /\ proc[p].who \in Accounts /\ proc[p].raw \in Ids /\ Spare \in Ids
    BY <2>1, RenewingOn, SpareIsFree
  <2>3. ASSUME NEW i \in Ids, NEW o, NEW pc, Saves(p, o, i, pc)
        PROVE  Turns(p)
    BY <2>2, <2>3 DEF Saves, Step, Turns
  <2>4. ASSUME NEW o, NEW j, RenewEnds(p, o, book, j)
        PROVE  Turns(p)
    BY <2>2, <2>4, RenewEndsTurns
  <2>5. CASE CookieFails(p)
    BY <2>2, <2>5, PasswordTurns DEF CookieFails
  <2>6. CASE CookieRolls(p) \/ LogsIn(p)
    BY <2>2, <2>3, <2>6 DEF CookieRolls, LogsIn
  <2>7. CASE PasswordRefused(p)
    BY <2>2, <2>3, <2>4, <2>7 DEF PasswordRefused
  <2>8. CASE PasswordErrs(p) \/ Renewed(p) \/ Noted(p)
    BY <2>4, <2>8 DEF PasswordErrs, Renewed, Noted
  <2>9. QED
    BY <1>2, <2>5, <2>6, <2>7, <2>8 DEF RenewStep
<1>3. QED
  BY <1>1, <1>2

LEMMA FetchStepTurns ==
    ASSUME SessionInv, NEW c \in Clients, FetchStep(c)
    PROVE  Turns(c)
<1>1. CASE Fetch(c)
  BY <1>1 DEF Fetch, Step, WithCopy, Turns
<1>2. CASE AnswerFails(c) \/ Refused(c) \/ Finish(c)
  BY <1>2 DEF AnswerFails, Refused, Finish, Step, Turns
<1>3. CASE Answered(c) \/ RefusedAgain(c)
  <2>1. Sending(proc[c])
    BY <1>3 DEF Answered, RefusedAgain, Sending
  <2>2. proc[c].who \in Accounts /\ proc[c].ref \in Ids
    BY <2>1, SendingWith
  <2>3. /\ \E r : proc' = [proc EXCEPT ![c] = r]
        /\ book' \in {book, Saved(book, c, proc[c].who, proc[c].ref), Cleared(book, c, proc[c].who)}
    BY <1>3 DEF Answered, RefusedAgain, Step
  <2>4. QED
    BY <2>2, <2>3 DEF Turns
<1>4. QED
  BY <1>1, <1>2, <1>3 DEF FetchStep

-----------------------------------------------------------------------------
(* The book                                                                  *)

\* The accounts that BookAgrees is about.
Calm(b) == Accounts \ (b.crossed \cup UnderWay(b))

\* An update that knows which accounts are listed.
Knows(u) == u.at \in {"prune", "write", "pass"} \/ (u.kind = "clear" /\ u.at = "current")

\* How far an update is that meets no other.
OnItsWay(u, stored, list) ==
    /\ u.kind # "list" /\ (u.at = "pass" => u.kind = "clear")
    /\ u.kind \in {"save", "check"} => stored[u.who] # 0
    /\ u.kind = "clear" => /\ stored[u.who] = 0
                           /\ u.at \in {"current", "pass"} => u.who \notin ToSet(list)
    /\ u.kind = "check" => /\ u.who \in ToSet(list)
                           /\ u.at = "prune" => u.who \in ToSet(u.seen)

\* What every update knows of a calm account is true, and whoever meets no
\* other is alone.
BookInv(b) ==
    /\ IsInjective(b.list) /\ \A u \in b.under : IsInjective(u.seen)
    /\ \A a \in Calm(b) : /\ b.stored[a] # 0 <=> a \in ToSet(b.list)
                          /\ b.current = a => a \in ToSet(b.list)
    /\ \A u \in b.under : Knows(u) => \A a \in Calm(b) : a \in ToSet(u.seen) <=> b.stored[a] # 0
    /\ \A u \in b.under : u.who \in Accounts \ b.crossed
                          => b.under = {u} /\ OnItsWay(u, b.stored, b.list)

\* An update begins: it knows nothing yet, or is one of the list alone.
LEMMA BeginsAgree ==
    ASSUME NEW b \in Book, BookInv(b), NEW u \in Calls, NEW stored \in [Accounts -> Ids \cup {0}],
           NEW c, c = Begins([b EXCEPT !.stored = stored], u),
           \A a \in Accounts : a # u.who => stored[a] = b.stored[a],
           IsInjective(u.seen),
           Knows(u) => \A a \in Calm(b) : a \in ToSet(u.seen) <=> b.stored[a] # 0,
           u.who \in Accounts => OnItsWay(u, stored, b.list)
    PROVE  BookInv(c)
<1> DEFINE d == [b EXCEPT !.stored = stored]
<1>1. /\ d \in Book /\ d.stored = stored /\ d.list = b.list /\ d.current = b.current
      /\ d.under = b.under /\ d.crossed = b.crossed /\ UnderWay(d) = UnderWay(b)
  BY DEF Book, UnderWay
<1>2. c = Begins(d, u)
  OBVIOUS
<1> HIDE DEF d
<1>3. /\ c.stored = stored /\ c.list = b.list /\ c.current = b.current /\ c.under = b.under \cup {u}
      /\ c.crossed = IF b.under = {} THEN b.crossed \ {u.who} ELSE b.crossed \cup UnderWay(b) \cup {u.who}
  <2>1. /\ Begins(d, u).stored = d.stored /\ Begins(d, u).list = d.list
        /\ Begins(d, u).current = d.current /\ Begins(d, u).under = d.under \cup {u}
        /\ Begins(d, u).crossed = IF d.under = {} THEN d.crossed \ {u.who}
                                  ELSE d.crossed \cup UnderWay(d) \cup {u.who}
    BY <1>1, BeginsOK
  <2>2. QED
    BY <1>1, <1>2, <2>1
<1>4. UnderWay(c) = UnderWay(b) \cup {u.who}
  BY <1>3 DEF UnderWay
<1>5. Calm(c) \subseteq Calm(b) \ {u.who}
  BY <1>3, <1>4 DEF Calm
<1>6. \A a \in Calm(c) : a \in Accounts /\ a \in Calm(b) /\ c.stored[a] = b.stored[a]
  BY <1>3, <1>5 DEF Calm
<1>7. ASSUME NEW v \in c.under, v.who \in Accounts \ c.crossed
      PROVE  c.under = {v} /\ OnItsWay(v, c.stored, c.list)
  <2>1. b.under = {}
    <3>1. v \in b.under => v.who \in UnderWay(b)
      BY DEF UnderWay
    <3>2. QED
      BY <1>3, <1>7, <3>1
  <2>2. QED
    BY <1>3, <1>7, <2>1
<1>8. QED
  BY <1>3, <1>6, <1>7 DEF BookInv

\* A call of the storage that leaves rest of its update.
LEMMA StoresAgree ==
    ASSUME book \in Book, book' \in Book, BookInv(book), NEW u \in book.under, NEW rest,
           book'.under = (book.under \ {u}) \cup rest,
           book'.stored = book.stored, book'.crossed = book.crossed,
           IsInjective(book'.list), \A v \in rest : v.who = u.who /\ IsInjective(v.seen),
           \A a \in Calm(book) : /\ a \in ToSet(book'.list) <=> book.stored[a] # 0
                                 /\ book'.current = a => a \in ToSet(book'.list),
           \A v \in rest : Knows(v) => \A a \in Calm(book) : a \in ToSet(v.seen) <=> book.stored[a] # 0,
           u.who \in Accounts \ book.crossed
           => \/ \E v : rest = {v} /\ OnItsWay(v, book.stored, book'.list)
              \/ /\ rest = {} /\ (book.stored[u.who] # 0 <=> u.who \in ToSet(book'.list))
                 /\ book'.current = u.who => u.who \in ToSet(book'.list)
    PROVE  BookInv(book')
<1>1. ASSUME u.who \in Accounts \ book.crossed
      PROVE  book.under = {u} /\ book'.under = rest
  BY <1>1 DEF BookInv
<1>2. ASSUME NEW a \in Calm(book'), a \notin Calm(book)
      PROVE  a = u.who /\ u.who \in Accounts \ book.crossed /\ rest = {}
  <2>1. a \in Accounts \ book.crossed /\ a \in UnderWay(book) /\ a \notin UnderWay(book')
    BY <1>2 DEF Calm
  <2>2. PICK w \in book.under : w.who = a
    BY <2>1 DEF UnderWay
  <2>3. w = u
    BY <2>1, <2>2 DEF UnderWay
  <2>4. \A v \in rest : v \notin book'.under
    BY <2>1, <2>2, <2>3 DEF UnderWay
  <2>5. QED
    BY <2>1, <2>2, <2>3, <2>4
<1>3. \A a \in Calm(book') : /\ book'.stored[a] # 0 <=> a \in ToSet(book'.list)
                             /\ book'.current = a => a \in ToSet(book'.list)
  BY <1>2
<1>4. ASSUME NEW v \in book'.under, Knows(v), NEW a \in Calm(book')
      PROVE  a \in ToSet(v.seen) <=> book'.stored[a] # 0
  <2>1. a \in Calm(book)
    BY <1>1, <1>2, <1>4
  <2>2. v \in rest \/ v \in book.under
    BY <1>4
  <2>3. QED
    BY <1>4, <2>1, <2>2 DEF BookInv
<1>5. ASSUME NEW v \in book'.under, v.who \in Accounts \ book'.crossed
      PROVE  book'.under = {v} /\ OnItsWay(v, book'.stored, book'.list)
  <2>1. v \in rest
    <3>1. SUFFICES ASSUME v \notin rest
                   PROVE  FALSE
      OBVIOUS
    <3>2. v \in book.under /\ v # u
      BY <3>1
    <3>3. QED
      BY <1>5, <3>2 DEF BookInv
  <2>2. u.who \in Accounts \ book.crossed
    BY <1>5, <2>1
  <2>3. QED
    BY <1>1, <2>1, <2>2
<1>6. \A v \in book'.under : IsInjective(v.seen)
  BY DEF BookInv
<1>7. QED
  BY <1>3, <1>4, <1>5, <1>6 DEF BookInv

\* What an update does when it has read the list, or stored what is left of
\* it, is what befits what it found listed.
LEMMA RestAgrees ==
    ASSUME NEW u \in Calls, NEW listed \in Seq(Accounts), IsInjective(listed), NEW stored, NEW list
    PROVE  LET rest == Rest(u, listed)
           IN  /\ \A w \in rest : w.who = u.who /\ IsInjective(w.seen)
               /\ \A w \in rest : Knows(w) => w.seen = listed
               /\ /\ OnItsWay(u, stored, list) /\ u.at \in {"read", "prune"}
                  /\ u.kind = "save" /\ u.who \in ToSet(listed) => u.who \in ToSet(list)
                  => \/ \E w : rest = {w} /\ OnItsWay(w, stored, list)
                     \/ rest = {} /\ stored[u.who] # 0 /\ u.who \in ToSet(list)
<1> DEFINE v1 == Update(u.by, u.who, "check")
           v2 == [u EXCEPT !.at = "write", !.seen = listed]
           v3 == [u EXCEPT !.at = "current", !.seen = <<>>]
           rest == Rest(u, listed)
<1>1. IsInjective(<<>>)
  BY DEF IsInjective
<1>2. v1.who = u.who /\ v1.kind = "check" /\ v1.at = "read" /\ v1.seen = <<>>
  BY DEF Update
<1>3. v2.who = u.who /\ v2.kind = u.kind /\ v2.at = "write" /\ v2.seen = listed
  BY DEF Calls
<1>4. v3.who = u.who /\ v3.kind = u.kind /\ v3.at = "current" /\ v3.seen = <<>>
  BY DEF Calls
<1>5. \/ u.kind = "save" /\ u.who \in ToSet(listed) /\ rest = {v1}
      \/ u.kind \in {"save", "clear"} /\ rest = {v2}
      \/ u.kind = "check" /\ rest = {v3}
      \/ u.kind \in {"list", "check"} /\ rest = {}
  <2>1. u.kind \in {"save", "clear", "check", "list"}
    BY DEF Calls
  <2> HIDE DEF v1, v2, v3
  <2>2. rest =
            CASE u.kind = "save" /\ u.who \in ToSet(listed) -> {v1}
              [] u.kind \in {"save", "clear"} /\ ~(u.kind = "save" /\ u.who \in ToSet(listed)) -> {v2}
              [] u.kind = "check" /\ Len(listed) = 1 -> {v3}
              [] u.kind = "list" \/ (u.kind = "check" /\ Len(listed) # 1) -> {}
    BY DEF Rest, v1, v2, v3
  <2> HIDE DEF rest
  <2>3. QED
    BY <2>1, <2>2
<1> HIDE DEF v1, v2, v3, rest
<1>6. \A w \in rest : w.who = u.who /\ IsInjective(w.seen) /\ (Knows(w) => w.seen = listed)
  <2>1. rest = {v1} => \A w \in rest : w.who = u.who /\ IsInjective(w.seen) /\ ~ Knows(w)
    BY <1>1, <1>2 DEF Knows
  <2>2. rest = {v2} => \A w \in rest : w.who = u.who /\ IsInjective(w.seen) /\ w.seen = listed
    BY <1>3
  <2>3. u.kind = "check" /\ rest = {v3} => \A w \in rest : w.who = u.who /\ IsInjective(w.seen) /\ ~ Knows(w)
    BY <1>1, <1>4 DEF Knows
  <2>4. QED
    BY <1>5, <2>1, <2>2, <2>3
<1>7. ASSUME OnItsWay(u, stored, list), u.at \in {"read", "prune"},
             u.kind = "save" /\ u.who \in ToSet(listed) => u.who \in ToSet(list)
      PROVE  \/ \E w : rest = {w} /\ OnItsWay(w, stored, list)
             \/ rest = {} /\ stored[u.who] # 0 /\ u.who \in ToSet(list)
  <2>1. CASE u.kind = "save" /\ u.who \in ToSet(listed) /\ rest = {v1}
    <3>1. OnItsWay(v1, stored, list)
      BY <1>2, <1>7, <2>1 DEF OnItsWay
    <3>2. QED
      BY <2>1, <3>1
  <2>2. CASE u.kind \in {"save", "clear"} /\ rest = {v2}
    <3>1. OnItsWay(v2, stored, list)
      BY <1>3, <1>7, <2>2 DEF OnItsWay
    <3>2. QED
      BY <2>2, <3>1
  <2>3. CASE u.kind = "check" /\ rest = {v3}
    <3>1. OnItsWay(v3, stored, list)
      BY <1>4, <1>7, <2>3 DEF OnItsWay
    <3>2. QED
      BY <2>3, <3>1
  <2>4. CASE u.kind \in {"list", "check"} /\ rest = {}
    BY <1>7, <2>4 DEF OnItsWay
  <2>5. QED
    BY <1>5, <2>1, <2>2, <2>3, <2>4
<1>8. QED
  BY <1>6, <1>7 DEF rest

LEMMA ReadsListAgrees ==
    ASSUME SessionInv, BookInv(book), NEW u \in book.under, ReadsList(u)
    PROVE  BookInv(book')
<1>1. u \in Calls /\ book \in Book /\ book' \in Book /\ book.list \in Seq(Accounts) /\ IsInjective(book.list)
  BY Parts, StoreStepOK DEF Book, BookInv, StoreStep
<1> DEFINE known == Pruned(book)
           v == [u EXCEPT !.at = "prune", !.seen = known]
<1>2. /\ known \in Seq(Accounts) /\ IsInjective(known)
      /\ ToSet(known) = {a \in ToSet(book.list) : book.stored[a] # 0}
  BY <1>1, PrunedProperties
<1>3. \A a \in Calm(book) : /\ a \in ToSet(known) <=> book.stored[a] # 0
                            /\ a \in ToSet(book.list) <=> book.stored[a] # 0
  BY <1>2 DEF BookInv
<1>4. u.at = "read" /\ Stores(u, Listing(book, u), book)
  BY DEF ReadsList
<1> DEFINE rest == Listing(book, u)
<1>5. /\ book'.under = (book.under \ {u}) \cup rest
      /\ book'.stored = book.stored /\ book'.crossed = book.crossed
      /\ book'.list = book.list /\ book'.current = book.current
  BY <1>1, <1>4 DEF Stores, Book
<1>6. /\ v.who = u.who /\ v.kind = u.kind /\ v.at = "prune" /\ v.seen = known
  BY <1>1 DEF Calls
<1>7. known # book.list => rest = {v}
  BY DEF Listing
<1>8. known = book.list => rest = Rest(u, book.list)
  BY DEF Listing
<1> HIDE DEF rest, v, known
<1>9. /\ IsInjective(book'.list)
      /\ \A a \in Calm(book) : /\ a \in ToSet(book'.list) <=> book.stored[a] # 0
                               /\ book'.current = a => a \in ToSet(book'.list)
  <2>1. /\ IsInjective(book.list)
        /\ \A a \in Calm(book) : /\ a \in ToSet(book.list) <=> book.stored[a] # 0
                                 /\ book.current = a => a \in ToSet(book.list)
    BY DEF BookInv
  <2>2. QED
    BY <1>5, <2>1
<1>10. CASE known # book.list
  <2>1. u.who \in Accounts \ book.crossed => OnItsWay(v, book.stored, book'.list)
    <3>1. ASSUME u.who \in Accounts \ book.crossed
          PROVE  OnItsWay(v, book.stored, book'.list)
      <4>1. OnItsWay(u, book.stored, book.list)
        BY <3>1 DEF BookInv
      <4>2. QED
        BY <1>2, <1>5, <1>6, <4>1 DEF OnItsWay
    <3>2. QED
      BY <3>1
  <2>2. \A w \in rest : w.who = u.who /\ IsInjective(w.seen)
    BY <1>2, <1>6, <1>7, <1>10
  <2>3. \A w \in rest : Knows(w) => \A a \in Calm(book) : a \in ToSet(w.seen) <=> book.stored[a] # 0
    BY <1>3, <1>6, <1>7, <1>10
  <2>4. u.who \in Accounts \ book.crossed => \E w : rest = {w} /\ OnItsWay(w, book.stored, book'.list)
    BY <1>7, <1>10, <2>1
  <2>5. QED
    BY <1>1, <1>5, <1>9, <2>2, <2>3, <2>4, StoresAgree
<1>11. CASE known = book.list
  <2>1. rest = Rest(u, book.list) /\ \A a \in ToSet(book.list) : book.stored[a] # 0
    BY <1>2, <1>8, <1>11
  <2> DEFINE Done == \/ \E w : rest = {w} /\ OnItsWay(w, book.stored, book'.list)
                     \/ rest = {} /\ book.stored[u.who] # 0 /\ u.who \in ToSet(book'.list)
  <2>2. /\ \A w \in rest : w.who = u.who /\ IsInjective(w.seen)
        /\ \A w \in rest : Knows(w) => w.seen = book.list
        /\ OnItsWay(u, book.stored, book.list) => Done
    BY <1>1, <1>4, <1>5, <2>1, RestAgrees
  <2>3. u.who \in Accounts \ book.crossed => Done
    BY <2>2 DEF BookInv
  <2>4. \A w \in rest : Knows(w) => \A a \in Calm(book) : a \in ToSet(w.seen) <=> book.stored[a] # 0
    BY <1>3, <2>2
  <2>5. QED
    BY <1>1, <1>5, <1>9, <2>2, <2>3, <2>4, StoresAgree
<1>12. QED
  BY <1>10, <1>11

LEMMA AddedAgrees ==
    ASSUME NEW list \in Seq(Accounts), IsInjective(list), NEW a \in Accounts
    PROVE  /\ Added(list, a) \in Seq(Accounts) /\ IsInjective(Added(list, a))
           /\ ToSet(Added(list, a)) = ToSet(list) \cup {a}
  BY OneMore DEF Added

LEMMA OthersAgree ==
    ASSUME NEW u \in Calls, IsInjective(u.seen)
    PROVE  /\ Others(u) \in Seq(Accounts) /\ IsInjective(Others(u))
           /\ ToSet(Others(u)) = ToSet(u.seen) \ {u.who}
<1>1. u.seen \in Seq(Accounts) /\ ToSet(u.seen) \subseteq Accounts
  BY DEF Calls, ToSet
<1>2. QED
  BY <1>1, KeptProperties DEF Others

\* What every call of the storage may rely on.
LEMMA UnderWayHas ==
    ASSUME SessionInv, BookInv(book), NEW u \in book.under
    PROVE  /\ u \in Calls /\ book \in Book /\ u.seen \in Seq(Accounts) /\ IsInjective(u.seen)
           /\ u.who \in UnderWay(book) /\ u.who \notin Calm(book)
           /\ \A a \in Calm(book) : /\ a \in ToSet(book.list) <=> book.stored[a] # 0
                                    /\ book.current = a => a \in ToSet(book.list)
           /\ Knows(u) => \A a \in Calm(book) : a \in ToSet(u.seen) <=> book.stored[a] # 0
           /\ u.who \in Accounts \ book.crossed => OnItsWay(u, book.stored, book.list)
           /\ IsInjective(book.list) /\ book.list \in Seq(Accounts)
<1>1. u \in Calls /\ book \in Book
  BY Parts DEF Book
<1>2. u.seen \in Seq(Accounts) /\ book.list \in Seq(Accounts)
  BY <1>1 DEF Calls, Book
<1>3. u.who \in UnderWay(book) /\ u.who \notin Calm(book)
  BY DEF UnderWay, Calm
<1>4. QED
  BY <1>1, <1>2, <1>3 DEF BookInv

LEMMA PrunesAgrees ==
    ASSUME SessionInv, BookInv(book), NEW u \in book.under, Prunes(u)
    PROVE  BookInv(book')
<1> DEFINE list == IF u.kind = "save" THEN Added(u.seen, u.who) ELSE u.seen
           rest == Rest(u, u.seen)
<1>1. /\ u \in Calls /\ book \in Book /\ book' \in Book /\ u.seen \in Seq(Accounts) /\ IsInjective(u.seen)
      /\ u.who \notin Calm(book)
  BY UnderWayHas, StoreStepOK DEF StoreStep
<1>2. u.at = "prune" /\ Stores(u, rest, [book EXCEPT !.list = list])
  BY DEF Prunes
<1>3. /\ list \in Seq(Accounts) /\ IsInjective(list)
      /\ ToSet(list) = IF u.kind = "save" THEN ToSet(u.seen) \cup {u.who} ELSE ToSet(u.seen)
  BY <1>1, AddedAgrees DEF Calls
<1> HIDE DEF list
<1>4. /\ book'.under = (book.under \ {u}) \cup rest
      /\ book'.stored = book.stored /\ book'.crossed = book.crossed
      /\ book'.list = list /\ book'.current = book.current
  BY <1>1, <1>2 DEF Stores, Book
<1> DEFINE Done == \/ \E w : rest = {w} /\ OnItsWay(w, book.stored, book'.list)
                   \/ rest = {} /\ book.stored[u.who] # 0 /\ u.who \in ToSet(book'.list)
<1>5. /\ \A w \in rest : w.who = u.who /\ IsInjective(w.seen)
      /\ \A w \in rest : Knows(w) => w.seen = u.seen
      /\ OnItsWay(u, book.stored, list) => Done
  BY <1>1, <1>2, <1>3, <1>4, RestAgrees
<1> HIDE DEF rest
<1>6. \A a \in Calm(book) : a \in ToSet(u.seen) <=> book.stored[a] # 0
  BY <1>2, UnderWayHas DEF Knows
<1>7. \A a \in Calm(book) : a \in ToSet(list) <=> book.stored[a] # 0
  BY <1>1, <1>3, <1>6
<1>8. \A a \in Calm(book) : /\ a \in ToSet(book'.list) <=> book.stored[a] # 0
                            /\ book'.current = a => a \in ToSet(book'.list)
  <2>1. \A a \in Calm(book) : /\ a \in ToSet(book.list) <=> book.stored[a] # 0
                              /\ book.current = a => a \in ToSet(book.list)
    BY UnderWayHas
  <2>2. QED
    BY <1>4, <1>7, <2>1
<1>9. u.who \in Accounts \ book.crossed => Done
  <2>1. ASSUME u.who \in Accounts \ book.crossed
        PROVE  OnItsWay(u, book.stored, list)
    <3>1. OnItsWay(u, book.stored, book.list)
      BY <2>1, UnderWayHas
    <3>2. QED
      BY <1>2, <1>3, <3>1 DEF OnItsWay
  <2>2. QED
    BY <1>5, <2>1
<1>10. \A w \in rest : Knows(w) => \A a \in Calm(book) : a \in ToSet(w.seen) <=> book.stored[a] # 0
  BY <1>5, <1>6
<1>11. QED
  BY <1>1, <1>3, <1>4, <1>5, <1>8, <1>9, <1>10, StoresAgree

LEMMA WritesAgree ==
    ASSUME SessionInv, BookInv(book), NEW u \in book.under, Enters(u) \/ Leaves(u)
    PROVE  BookInv(book')
<1>1. /\ u \in Calls /\ book \in Book /\ book' \in Book /\ u.seen \in Seq(Accounts) /\ IsInjective(u.seen)
      /\ u.who \notin Calm(book)
  BY UnderWayHas, StoreStepOK DEF StoreStep
<1>2. \A a \in Calm(book) : a \in ToSet(u.seen) <=> book.stored[a] # 0
  BY UnderWayHas DEF Knows, Enters, Leaves
<1>3. \A a \in Calm(book) : /\ a \in ToSet(book.list) <=> book.stored[a] # 0
                            /\ book.current = a => a \in ToSet(book.list)
  BY UnderWayHas
<1>4. CASE Enters(u)
  <2> DEFINE v == Update(u.by, u.who, "check")
             list == Added(u.seen, u.who)
  <2>1. u.kind = "save" /\ Stores(u, {v}, [book EXCEPT !.list = list])
    BY <1>4 DEF Enters
  <2>2. list \in Seq(Accounts) /\ IsInjective(list) /\ ToSet(list) = ToSet(u.seen) \cup {u.who}
    BY <1>1, <2>1, AddedAgrees DEF Calls
  <2>3. v.who = u.who /\ v.kind = "check" /\ v.at = "read" /\ IsInjective(v.seen) /\ ~ Knows(v)
    BY DEF Update, Knows, IsInjective
  <2> HIDE DEF v, list
  <2>4. /\ book'.under = (book.under \ {u}) \cup {v}
        /\ book'.stored = book.stored /\ book'.crossed = book.crossed
        /\ book'.list = list /\ book'.current = book.current
    BY <1>1, <2>1, <2>2 DEF Stores, Book
  <2>5. \A a \in Calm(book) : /\ a \in ToSet(book'.list) <=> book.stored[a] # 0
                              /\ book'.current = a => a \in ToSet(book'.list)
    BY <1>1, <1>2, <1>3, <2>2, <2>4
  <2>6. u.who \in Accounts \ book.crossed => OnItsWay(v, book.stored, book'.list)
    <3>1. ASSUME u.who \in Accounts \ book.crossed
          PROVE  OnItsWay(v, book.stored, book'.list)
      <4>1. OnItsWay(u, book.stored, book.list)
        BY <3>1, UnderWayHas
      <4>2. QED
        BY <2>1, <2>2, <2>3, <2>4, <4>1 DEF OnItsWay
    <3>2. QED
      BY <3>1
  <2> DEFINE rest == {v}
  <2>7. /\ \A w \in rest : w.who = u.who /\ IsInjective(w.seen)
        /\ \A w \in rest : Knows(w) => \A a \in Calm(book) : a \in ToSet(w.seen) <=> book.stored[a] # 0
    BY <1>1, <1>2, <2>3
  <2>8. /\ book'.under = (book.under \ {u}) \cup rest
        /\ u.who \in Accounts \ book.crossed
           => \E w : rest = {w} /\ OnItsWay(w, book.stored, book'.list)
    BY <2>4, <2>6
  <2> HIDE DEF rest
  <2>9. QED
    BY <1>1, <2>2, <2>4, <2>5, <2>7, <2>8, StoresAgree
<1>5. CASE Leaves(u)
  <2> DEFINE v == [u EXCEPT !.at = "current"]
             list == Others(u)
  <2>1. u.kind = "clear" /\ Stores(u, {v}, [book EXCEPT !.list = list])
    BY <1>5 DEF Leaves
  <2>2. list \in Seq(Accounts) /\ IsInjective(list) /\ ToSet(list) = ToSet(u.seen) \ {u.who}
    BY <1>1, OthersAgree
  <2>3. v.who = u.who /\ v.kind = "clear" /\ v.at = "current" /\ v.seen = u.seen
    BY <1>1, <2>1 DEF Calls
  <2> HIDE DEF v, list
  <2>4. /\ book'.under = (book.under \ {u}) \cup {v}
        /\ book'.stored = book.stored /\ book'.crossed = book.crossed
        /\ book'.list = list /\ book'.current = book.current
    BY <1>1, <2>1, <2>2 DEF Stores, Book
  <2>5. \A a \in Calm(book) : /\ a \in ToSet(book'.list) <=> book.stored[a] # 0
                              /\ book'.current = a => a \in ToSet(book'.list)
    BY <1>1, <1>2, <1>3, <2>2, <2>4
  <2>6. u.who \in Accounts \ book.crossed => OnItsWay(v, book.stored, book'.list)
    <3>1. ASSUME u.who \in Accounts \ book.crossed
          PROVE  OnItsWay(v, book.stored, book'.list)
      <4>1. OnItsWay(u, book.stored, book.list)
        BY <3>1, UnderWayHas
      <4>2. QED
        BY <2>1, <2>2, <2>3, <2>4, <4>1 DEF OnItsWay
    <3>2. QED
      BY <3>1
  <2> DEFINE rest == {v}
  <2>7. /\ \A w \in rest : w.who = u.who /\ IsInjective(w.seen)
        /\ \A w \in rest : Knows(w) => \A a \in Calm(book) : a \in ToSet(w.seen) <=> book.stored[a] # 0
    BY <1>1, <1>2, <2>3
  <2>8. /\ book'.under = (book.under \ {u}) \cup rest
        /\ u.who \in Accounts \ book.crossed
           => \E w : rest = {w} /\ OnItsWay(w, book.stored, book'.list)
    BY <2>4, <2>6
  <2> HIDE DEF rest
  <2>9. QED
    BY <1>1, <2>2, <2>4, <2>5, <2>7, <2>8, StoresAgree
<1>6. QED
  BY <1>4, <1>5

LEMMA CurrentAgrees ==
    ASSUME SessionInv, BookInv(book), NEW u \in book.under, Elects(u) \/ Looks(u) \/ PassesOn(u)
    PROVE  BookInv(book')
<1>1. /\ u \in Calls /\ book \in Book /\ book' \in Book /\ u.seen \in Seq(Accounts) /\ IsInjective(u.seen)
      /\ u.who \notin Calm(book) /\ IsInjective(book.list) /\ book.list \in Seq(Accounts)
  BY UnderWayHas, StoreStepOK DEF StoreStep
<1>2. \A a \in Calm(book) : /\ a \in ToSet(book.list) <=> book.stored[a] # 0
                            /\ book.current = a => a \in ToSet(book.list)
  BY UnderWayHas
<1>3. u.who \in Accounts \ book.crossed => OnItsWay(u, book.stored, book.list)
  BY UnderWayHas
<1>4. CASE Elects(u)
  <2>1. u.kind = "check" /\ Stores(u, {}, [book EXCEPT !.current = u.who])
    BY <1>4 DEF Elects
  <2>2. /\ book'.under = (book.under \ {u}) \cup {}
        /\ book'.stored = book.stored /\ book'.crossed = book.crossed
        /\ book'.list = book.list /\ book'.current = u.who
    BY <1>1, <2>1 DEF Stores, Book
  <2>3. \A a \in Calm(book) : /\ a \in ToSet(book'.list) <=> book.stored[a] # 0
                              /\ book'.current = a => a \in ToSet(book'.list)
    BY <1>1, <1>2, <2>2
  <2>4. u.who \in Accounts \ book.crossed => book.stored[u.who] # 0 /\ u.who \in ToSet(book'.list)
    BY <1>3, <2>1, <2>2 DEF OnItsWay
  <2> DEFINE rest == {}
  <2>5. /\ \A w \in rest : w.who = u.who /\ IsInjective(w.seen)
        /\ \A w \in rest : Knows(w) => \A a \in Calm(book) : a \in ToSet(w.seen) <=> book.stored[a] # 0
        /\ book'.under = (book.under \ {u}) \cup rest
    BY <2>2
  <2>6. u.who \in Accounts \ book.crossed
        => /\ rest = {} /\ (book.stored[u.who] # 0 <=> u.who \in ToSet(book'.list))
           /\ book'.current = u.who => u.who \in ToSet(book'.list)
    BY <2>4
  <2> HIDE DEF rest
  <2>7. QED
    BY <1>1, <2>2, <2>3, <2>5, <2>6, StoresAgree
<1>5. CASE Looks(u)
  <2> DEFINE v == [u EXCEPT !.at = "pass"]
             rest == IF book.current = u.who THEN {v} ELSE {}
  <2>1. u.kind = "clear" /\ u.at = "current" /\ Stores(u, rest, book)
    BY <1>5 DEF Looks
  <2>2. v.who = u.who /\ v.kind = "clear" /\ v.at = "pass" /\ v.seen = u.seen
    BY <1>1, <2>1 DEF Calls
  <2>3. /\ book'.under = (book.under \ {u}) \cup rest
        /\ book'.stored = book.stored /\ book'.crossed = book.crossed
        /\ book'.list = book.list /\ book'.current = book.current
    <3> HIDE DEF rest
    <3>1. QED
      BY <1>1, <2>1 DEF Stores, Book
  <2> HIDE DEF v
  <2>4. \A a \in Calm(book) : a \in ToSet(u.seen) <=> book.stored[a] # 0
    BY <2>1, UnderWayHas DEF Knows
  <2>5. ASSUME u.who \in Accounts \ book.crossed
        PROVE  \/ \E w : rest = {w} /\ OnItsWay(w, book.stored, book'.list)
               \/ /\ rest = {} /\ (book.stored[u.who] # 0 <=> u.who \in ToSet(book'.list))
                  /\ book'.current = u.who => u.who \in ToSet(book'.list)
    <3>1. book.stored[u.who] = 0 /\ u.who \notin ToSet(book.list)
      BY <1>3, <2>1, <2>5 DEF OnItsWay
    <3>2. OnItsWay(v, book.stored, book'.list)
      BY <2>2, <2>3, <3>1 DEF OnItsWay
    <3>3. CASE book.current = u.who
      BY <3>2, <3>3
    <3>4. CASE book.current # u.who
      BY <2>3, <3>1, <3>4
    <3>5. QED
      BY <3>3, <3>4
  <2>6. \A w \in rest : w.who = u.who /\ w.seen = u.seen
    BY <2>2
  <2> HIDE DEF rest
  <2>7. /\ \A w \in rest : w.who = u.who /\ IsInjective(w.seen)
        /\ \A w \in rest : Knows(w) => \A a \in Calm(book) : a \in ToSet(w.seen) <=> book.stored[a] # 0
    BY <1>1, <2>4, <2>6
  <2>8. \A a \in Calm(book) : /\ a \in ToSet(book'.list) <=> book.stored[a] # 0
                              /\ book'.current = a => a \in ToSet(book'.list)
    BY <1>2, <2>3
  <2>9. QED
    BY <1>1, <2>3, <2>5, <2>7, <2>8, StoresAgree
<1>6. CASE PassesOn(u)
  <2> DEFINE next == IF Others(u) = <<>> THEN Nobody ELSE Others(u)[1]
  <2>1. u.at = "pass" /\ Stores(u, {}, [book EXCEPT !.current = next])
    BY <1>6 DEF PassesOn
  <2>2. next = Nobody \/ (next \in ToSet(u.seen) /\ next # u.who)
    BY <1>1, OthersAgree, FirstIsMember
  <2> HIDE DEF next
  <2>3. /\ book'.under = (book.under \ {u}) \cup {}
        /\ book'.stored = book.stored /\ book'.crossed = book.crossed
        /\ book'.list = book.list /\ book'.current = next
    BY <1>1, <2>1 DEF Stores, Book
  <2>4. \A a \in Calm(book) : a \in ToSet(u.seen) <=> book.stored[a] # 0
    BY <2>1, UnderWayHas DEF Knows
  <2>5. \A a \in Calm(book) : a # Nobody
    BY ProcsFinite DEF Calm
  <2>6. \A a \in Calm(book) : /\ a \in ToSet(book'.list) <=> book.stored[a] # 0
                              /\ book'.current = a => a \in ToSet(book'.list)
    BY <1>2, <2>2, <2>3, <2>4, <2>5
  <2>7. u.who \in Accounts \ book.crossed
        => (book.stored[u.who] # 0 <=> u.who \in ToSet(book'.list)) /\ book'.current # u.who
    BY <1>3, <2>1, <2>2, <2>3, ProcsFinite DEF OnItsWay
  <2> DEFINE rest == {}
  <2>8. /\ \A w \in rest : w.who = u.who /\ IsInjective(w.seen)
        /\ \A w \in rest : Knows(w) => \A a \in Calm(book) : a \in ToSet(w.seen) <=> book.stored[a] # 0
        /\ book'.under = (book.under \ {u}) \cup rest
    BY <2>3
  <2>9. u.who \in Accounts \ book.crossed
        => /\ rest = {} /\ (book.stored[u.who] # 0 <=> u.who \in ToSet(book'.list))
           /\ book'.current = u.who => u.who \in ToSet(book'.list)
    BY <2>7
  <2> HIDE DEF rest
  <2>10. QED
    BY <1>1, <2>3, <2>6, <2>8, <2>9, StoresAgree
<1>7. QED
  BY <1>4, <1>5, <1>6

LEMMA StoreStepAgrees ==
    ASSUME SessionInv, BookInv(book), NEW u \in book.under, StoreStep(u)
    PROVE  BookInv(book')
  BY ReadsListAgrees, PrunesAgrees, WritesAgree, CurrentAgrees DEF StoreStep

LEMMA SavedAgrees ==
    ASSUME SessionInv, BookInv(book), NEW p \in Procs \cup {Nobody}, NEW a \in Accounts, NEW i \in Ids,
           book' = Saved(book, p, a, i)
    PROVE  BookInv(book')
<1> DEFINE u == Update(p, a, "save")
           stored == [book.stored EXCEPT ![a] = i]
<1>1. book \in Book /\ book.stored \in [Accounts -> Ids \cup {0}] /\ i # 0
  BY Parts, RecordsAreNotZero DEF Book
<1>2. u \in Calls /\ u.who = a /\ u.kind = "save" /\ u.at = "read" /\ IsInjective(u.seen)
  <2>1. u \in Calls
    BY UpdateOK DEF AccountsOrNobody
  <2>2. QED
    BY <2>1 DEF Update, IsInjective
<1>3. /\ stored \in [Accounts -> Ids \cup {0}] /\ stored[a] # 0
      /\ \A c \in Accounts : c # a => stored[c] = book.stored[c]
  BY <1>1
<1>4. book' = Begins([book EXCEPT !.stored = stored], u)
  BY <1>1 DEF Saved, Book
<1> HIDE DEF u, stored
<1>5. ~ Knows(u) /\ OnItsWay(u, stored, book.list)
  BY <1>2, <1>3 DEF Knows, OnItsWay
<1>6. QED
  BY <1>1, <1>2, <1>3, <1>4, <1>5, BeginsAgree

LEMMA ClearedAgrees ==
    ASSUME SessionInv, BookInv(book), NEW p \in Procs \cup {Nobody}, NEW a \in AccountsOrNobody,
           book' = Cleared(book, p, a)
    PROVE  BookInv(book')
<1>1. CASE a = Nobody
  BY <1>1 DEF Cleared
<1>2. CASE a # Nobody
  <2> DEFINE u == Update(p, a, "clear")
             stored == [book.stored EXCEPT ![a] = 0]
  <2>1. book \in Book /\ book.stored \in [Accounts -> Ids \cup {0}] /\ a \in Accounts
    BY <1>2, Parts DEF Book, AccountsOrNobody
  <2>2. u \in Calls /\ u.who = a /\ u.kind = "clear" /\ u.at = "read" /\ IsInjective(u.seen)
    <3>1. u \in Calls
      BY <2>1, UpdateOK DEF AccountsOrNobody
    <3>2. QED
      BY <3>1 DEF Update, IsInjective
  <2>3. /\ stored \in [Accounts -> Ids \cup {0}] /\ stored[a] = 0
        /\ \A c \in Accounts : c # a => stored[c] = book.stored[c]
    BY <2>1
  <2>4. book' = Begins([book EXCEPT !.stored = stored], u)
    BY <1>2, <2>1 DEF Cleared, Book
  <2> HIDE DEF u, stored
  <2>5. ~ Knows(u) /\ OnItsWay(u, stored, book.list)
    BY <2>2, <2>3 DEF Knows, OnItsWay
  <2>6. QED
    BY <2>1, <2>2, <2>3, <2>4, <2>5, BeginsAgree
<1>3. QED
  BY <1>1, <1>2

\* An update of the list alone knows of the calm accounts from the start.
LEMMA PruneAgrees ==
    ASSUME SessionInv, BookInv(book), NEW p \in Procs \cup {Nobody}, book' = Begins(book, Prune(p))
    PROVE  BookInv(book')
<1> DEFINE u == Prune(p)
           stored == book.stored
<1>1. /\ book \in Book /\ stored \in [Accounts -> Ids \cup {0}] /\ book.list \in Seq(Accounts)
      /\ IsInjective(book.list)
  BY Parts DEF Book, BookInv
<1>2. u \in Calls /\ u.who = Nobody /\ u.seen = Pruned(book)
  BY PruneOK
<1>3. /\ IsInjective(Pruned(book))
      /\ ToSet(Pruned(book)) = {a \in ToSet(book.list) : book.stored[a] # 0}
  BY <1>1, PrunedProperties
<1>4. \A a \in Calm(book) : a \in ToSet(u.seen) <=> book.stored[a] # 0
  BY <1>2, <1>3 DEF BookInv
<1>5. book' = Begins([book EXCEPT !.stored = stored], u)
  BY <1>1 DEF Book
<1>6. \A a \in Accounts : a # u.who => stored[a] = book.stored[a]
  OBVIOUS
<1> HIDE DEF u, stored
<1>7. u.who \notin Accounts /\ IsInjective(u.seen)
  BY <1>2, <1>3, ProcsFinite
<1>8. QED
  BY <1>1, <1>2, <1>4, <1>5, <1>6, <1>7, BeginsAgree

\* The account that an administrator chooses has a session.
LEMMA SwitchAgrees ==
    ASSUME SessionInv, BookInv(book), NEW a \in Accounts, Switch(a)
    PROVE  BookInv(book')
<1>1. book \in Book /\ book.stored[a] # 0 /\ book' = [book EXCEPT !.current = a]
  BY Parts DEF Switch
<1>2. /\ book'.stored = book.stored /\ book'.list = book.list /\ book'.current = a
      /\ book'.under = book.under /\ book'.crossed = book.crossed
  BY <1>1 DEF Book
<1>3. Calm(book') = Calm(book)
  BY <1>2 DEF Calm, UnderWay
<1>4. QED
  BY <1>1, <1>2, <1>3 DEF BookInv

LEMMA BusyAgrees ==
    ASSUME SessionInv, BookInv(book), StorageBusy \/ StorageIdle
    PROVE  BookInv(book')
<1>1. PICK busy \in BOOLEAN : book' = [book EXCEPT !.busy = busy]
  BY DEF StorageBusy, StorageIdle
<1>2. /\ book'.stored = book.stored /\ book'.list = book.list /\ book'.current = book.current
      /\ book'.under = book.under /\ book'.crossed = book.crossed
  BY <1>1, Parts DEF Book
<1>3. Calm(book') = Calm(book)
  BY <1>2 DEF Calm, UnderWay
<1>4. QED
  BY <1>2, <1>3 DEF BookInv

LEMMA TurnsAgree ==
    ASSUME SessionInv, BookInv(book), NEW p \in Procs, Turns(p)
    PROVE  BookInv(book')
<1>1. CASE book' = book
  BY <1>1
<1>2. CASE book' # book
  <2> DEFINE who == proc[p].who
  <2>1. /\ who \in Accounts
        /\ (\E i \in Ids : book' = Saved(book, p, who, i)) \/ book' = Cleared(book, p, who)
    BY <1>2 DEF Turns
  <2> HIDE DEF who
  <2>2. QED
    BY <2>1, SavedAgrees, ClearedAgrees DEF AccountsOrNobody
<1>3. QED
  BY <1>1, <1>2

LEMMA AdminAgrees ==
    ASSUME SessionInv, BookInv(book), AdminStep
    PROVE  BookInv(book')
<1>1. CASE Lists
  <2>1. book' = Begins(book, Prune(Nobody))
    BY <1>1 DEF Lists, Prune
  <2>2. QED
    BY <2>1, PruneAgrees
<1>2. ASSUME NEW a \in Accounts, Login(a)
      PROVE  BookInv(book')
  <2>1. book' = Saved(book, Nobody, a, Spare) /\ Spare \in Ids
    BY <1>2, SpareIsFree DEF Login
  <2>2. QED
    BY <2>1, SavedAgrees
<1>3. ASSUME NEW a \in AccountsOrNobody, Drops(a)
      PROVE  BookInv(book')
  <2>1. book' = Cleared(book, Nobody, a)
    BY <1>3 DEF Drops
  <2>2. QED
    BY <2>1, ClearedAgrees
<1>4. ASSUME NEW q \in AccountsOrNobody, Logout(q)
      PROVE  BookInv(book')
  BY <1>3, <1>4, NamedOK DEF Logout
<1>5. ASSUME NEW a \in Accounts, Lapses(a)
      PROVE  BookInv(book')
  BY <1>3, <1>5 DEF Lapses, AccountsOrNobody
<1>6. QED
  BY <1>1, <1>2, <1>4, <1>5, SwitchAgrees, BusyAgrees DEF AdminStep, AccountsOrNobody

LEMMA KeeperAgrees ==
    ASSUME SessionInv, BookInv(book), KeeperStep
    PROVE  BookInv(book')
<1>1. CASE Wake
  <2>1. book' = book \/ book' = Begins(book, Prune(Keeper))
    BY <1>1 DEF Wake, Step, Prune
  <2>2. QED
    BY <2>1, PruneAgrees, ProcsFinite
<1>2. CASE Keep
  BY <1>2 DEF Keep, Step
<1>3. QED
  BY <1>1, <1>2 DEF KeeperStep

LEMMA InitAgrees == Init => BookInv(book)
<1> SUFFICES ASSUME Init
             PROVE  BookInv(book)
  OBVIOUS
<1>1. /\ book.stored = [a \in Accounts |-> 0] /\ book.list = <<>> /\ book.current = Nobody
      /\ book.under = {}
  BY DEF Init
<1>2. IsInjective(<<>>)
  BY DEF IsInjective
<1>3. \A a \in Calm(book) : a # Nobody /\ book.stored[a] = 0
  BY <1>1, ProcsFinite DEF Calm
<1>4. QED
  BY <1>1, <1>2, <1>3, EmptyToSet DEF BookInv

LEMMA NextAgrees == SessionInv /\ BookInv(book) /\ [Next]_vars => BookInv(book)'
<1> SUFFICES ASSUME SessionInv, BookInv(book), [Next]_vars
             PROVE  BookInv(book')
  OBVIOUS
<1>1. CASE ClientStep \/ Tick \/ UNCHANGED vars
  <2>1. book' = book
    BY <1>1 DEF ClientStep, Refresh, Open, Step, Tick, vars
  <2>2. QED
    BY <2>1
<1>2. CASE AdminStep
  BY <1>2, AdminAgrees
<1>3. CASE KeeperStep
  BY <1>3, KeeperAgrees
<1>4. CASE \E p \in Procs : RenewStep(p)
  BY <1>4, RenewStepTurns, TurnsAgree
<1>5. CASE \E c \in Clients : FetchStep(c)
  BY <1>5, FetchStepTurns, TurnsAgree, ClientsOK
<1>6. CASE \E u \in book.under : StoreStep(u)
  BY <1>6, StoreStepAgrees
<1>7. QED
  BY <1>1, <1>2, <1>3, <1>4, <1>5, <1>6, Steps

-----------------------------------------------------------------------------
(* Theorems                                                                  *)

LEMMA Invariant == Spec => []SessionInv
  BY InitInv, NextInv, PTL DEF Spec

\* The records, what is stored, the locks and what the handlers hold keep
\* their types: no more records are in use than there are names for.
THEOREM SessionTypeCorrect == Spec => []TypeOK
<1>1. SessionInv => TypeOK
  BY DEF SessionInv, TypeOK, RecordsOK, Record, Book, Process
<1>2. QED
  BY <1>1, Invariant, PTL

\* When no update of an account is under way and its last one met no other,
\* its session, the list of the accounts and the current account agree,
\* though every handler and the loop change them one by one and whatever the
\* updates of other accounts met (_save_session, _remove_account_from_list).
THEOREM TheBookAgrees == Spec => []BookAgrees
<1>1. Init => BookInv(book)
  BY InitAgrees
<1>2. SessionInv /\ BookInv(book) /\ [Next]_vars => BookInv(book)'
  BY NextAgrees
<1>3. BookInv(book) => BookAgrees
  BY DEF BookInv, BookAgrees, Calm
<1>4. QED
  BY <1>1, <1>2, <1>3, Invariant, PTL DEF Spec

\* The mark of a stale token is on copies only: none is ever stored
\* (_ensure_fresh_session).
THEOREM NoMarkIsStored == Spec => []MarkNotStored
<1>1. SessionInv => MarkNotStored
  <2>1. SUFFICES ASSUME SessionInv, NEW a \in Accounts, book.stored[a] # 0
                 PROVE  ~ obj[book.stored[a]].stale
    BY DEF MarkNotStored
  <2>2. book.stored \in [Accounts -> Ids \cup {0}]
    BY <2>1, Parts DEF Book
  <2>3. book.stored[a] \in Ids /\ book.stored[a] \in Range(book.stored)
    BY <2>1, <2>2 DEF Range
  <2>4. QED
    BY <2>1, <2>3, Parts
<1>2. QED
  BY <1>1, Invariant, PTL

\* However many requests are refused at once, one renewal of an account is
\* under way at a time: whoever renews holds the account's lock
\* (_renew_locks).
THEOREM AccountRenewsOnce == Spec => []RenewsOnce
<1>1. SessionInv => RenewsOnce
  BY DEF SessionInv, RenewsOnce, Renewing
<1>2. QED
  BY <1>1, Invariant, PTL

\* A step of p that takes no session but that of the account p is for.
Own(p) ==
    /\ \E r : proc' = [proc EXCEPT ![p] = r]
    /\ \A a \in Accounts : book.stored[a] # 0 /\ book'.stored[a] = 0 => proc[p].who = a

LEMMA ClearedTakes ==
    ASSUME NEW b \in Book, NEW p \in Procs \cup {Nobody}, NEW a \in Accounts, NEW c \in Accounts,
           Cleared(b, p, a).stored[c] # b.stored[c]
    PROVE  c = a
  BY ClearedOK DEF AccountsOrNobody

LEMMA SavedTakes ==
    ASSUME NEW b \in Book, NEW p \in Procs \cup {Nobody}, NEW a \in Accounts, NEW i \in Ids, NEW c \in Accounts
    PROVE  b.stored[c] # 0 => Saved(b, p, a, i).stored[c] # 0
<1>1. Saved(b, p, a, i).stored = [b.stored EXCEPT ![a] = i] /\ i # 0
  BY SavedOK, RecordsAreNotZero
<1>2. b.stored \in [Accounts -> Ids \cup {0}]
  BY DEF Book
<1>3. QED
  BY <1>1, <1>2

LEMMA TurnsOwn ==
    ASSUME SessionInv, NEW p \in Procs, Turns(p)
    PROVE  Own(p)
<1> DEFINE who == proc[p].who
<1>1. book \in Book /\ \E r : proc' = [proc EXCEPT ![p] = r]
  BY Parts DEF Turns
<1>2. \/ book' = book
      \/ who \in Accounts /\ \E i \in Ids : book' = Saved(book, p, who, i)
      \/ who \in Accounts /\ book' = Cleared(book, p, who)
  BY DEF Turns
<1> HIDE DEF who
<1>3. \A a \in Accounts : book.stored[a] # 0 /\ book'.stored[a] = 0 => a = who
  BY <1>1, <1>2, SavedTakes, ClearedTakes
<1>4. QED
  BY <1>1, <1>3 DEF Own, who

\* A handler that is refused clears the session of the account it was sent
\* for, whatever became current while it waited, and no other step of a
\* handler or of the loop takes a session (resolved_email).  The session may
\* be a newer one of that account: a login meanwhile does not keep a late
\* refusal from clearing it (_make_dashboard_request).
THEOREM TakesItsOwn == Spec => ClearsItsOwn
<1> DEFINE A == \A a \in Accounts :
                  book.stored[a] # 0 /\ book'.stored[a] = 0 /\ proc' # proc
                  => \E p \in Procs : proc'[p] # proc[p] /\ proc[p].who = a
<1>1. ASSUME SessionInv, SessionInv', NEW p \in Procs, Own(p)
      PROVE  A
  <2>1. proc \in [Procs -> Process] /\ proc' \in [Procs -> Process]
    BY <1>1 DEF SessionInv
  <2>2. proc' # proc => \E q \in Procs : proc'[q] # proc[q]
    BY <2>1
  <2>3. \A q \in Procs : q # p => proc'[q] = proc[q]
    BY <1>1, <2>1 DEF Own
  <2>4. QED
    BY <1>1, <2>2, <2>3 DEF Own
<1>2. ASSUME SessionInv, SessionInv', Next
      PROVE  A
  <2>1. CASE AdminStep \/ Tick
    BY <2>1 DEF AdminStep, Tick, Login, Lapses, Switch, Logout, Lists, StorageBusy, StorageIdle
  <2>2. CASE ClientStep
    <3>1. PICK c \in Clients : Own(c)
      BY <2>2 DEF ClientStep, Refresh, Open, Step, Own
    <3>2. QED
      BY <1>1, <1>2, <3>1, ClientsOK
  <2>3. CASE KeeperStep
    <3>1. Own(Keeper)
      <4>1. CASE Wake
        <5>1. /\ book' = book \/ book' = Begins(book, Prune(Keeper))
              /\ \E r : proc' = [proc EXCEPT ![Keeper] = r]
          BY <4>1 DEF Wake, Step, Prune
        <5>2. book'.stored = book.stored
          <6>1. Prune(Keeper) \in Calls /\ book \in Book
            BY <1>2, PruneOK, Parts, ProcsFinite
          <6>2. Begins(book, Prune(Keeper)).stored = book.stored
            BY <6>1, BeginsOK
          <6>3. QED
            BY <5>1, <6>2
        <5>3. QED
          BY <5>1, <5>2 DEF Own
      <4>2. CASE Keep
        <5>1. book' = book /\ \E r : proc' = [proc EXCEPT ![Keeper] = r]
          BY <4>2 DEF Keep, Step
        <5>2. QED
          BY <5>1 DEF Own
      <4>3. QED
        BY <2>3, <4>1, <4>2 DEF KeeperStep
    <3>2. QED
      BY <1>1, <1>2, <3>1, ProcsFinite
  <2>4. CASE \E p \in Procs : RenewStep(p)
    BY <1>1, <1>2, <2>4, RenewStepTurns, TurnsOwn
  <2>5. CASE \E c \in Clients : FetchStep(c)
    BY <1>1, <1>2, <2>5, FetchStepTurns, TurnsOwn, ClientsOK
  <2>6. CASE \E u \in book.under : StoreStep(u)
    BY <1>2, <2>6, StoreStepOK
  <2>7. QED
    BY <1>2, <2>1, <2>2, <2>3, <2>4, <2>5, <2>6, Steps
<1>3. SessionInv /\ SessionInv' /\ [Next]_vars => [A]_vars
  BY <1>2
<1>4. QED
  BY <1>3, Invariant, PTL DEF Spec, ClearsItsOwn

-----------------------------------------------------------------------------
(* What the pages show, while the current account stays                      *)

\* The current account changes only while no page is being read for it, that
\* is, by a request that names no account.
Unnamed(r) == r.key # Nobody /\ r.asked = Nobody
Steady == (\E c \in Clients : Unnamed(proc[c])) => book'.current = book.current

\* All that a page has read, and reads, is of the account it is kept for.
OfOne(r, current) ==
    r.key # Nobody =>
        /\ r.asked \in {Nobody, r.key} /\ (r.asked = Nobody => r.key = current)
        /\ r.who \in {Nobody, r.key} /\ r.from \subseteq {r.key}

CacheType == cache \in [Pages -> [AccountsOrNobody -> SUBSET AccountsOrNobody]]

AllOfOne == CacheType /\ CachesAreSeparate /\ \A c \in Clients : OfOne(proc[c], book.current)

\* The page is given up, or goes on for the same account with what it has.
GoesOn(r, s) ==
    s.key = Nobody \/ (/\ s.key = r.key /\ s.asked = r.asked /\ s.from = r.from
                       /\ s.who \in {r.who, Nobody})

Passes(p) == UNCHANGED cache /\ \E s : proc' = [proc EXCEPT ![p] = s] /\ GoesOn(proc[p], s)

LEMMA PassesOfOne ==
    ASSUME SessionInv, AllOfOne, Steady, NEW p \in Procs, Passes(p)
    PROVE  AllOfOne'
<1>1. PICK s : proc' = [proc EXCEPT ![p] = s] /\ GoesOn(proc[p], s)
  BY DEF Passes
<1>2. cache' = cache
  BY DEF Passes
<1>3. ASSUME NEW c \in Clients PROVE OfOne(proc'[c], book'.current)
  <2>1. OfOne(proc[c], book.current) /\ proc \in [Procs -> Process] /\ c \in Procs
    BY <1>3, ClientsOK DEF AllOfOne, SessionInv
  <2>2. GoesOn(proc[c], proc'[c])
    BY <1>1, <2>1 DEF GoesOn
  <2>3. Unnamed(proc[c]) => book'.current = book.current
    BY <1>3 DEF Steady
  <2>4. QED
    BY <2>1, <2>2, <2>3 DEF OfOne, GoesOn, Unnamed
<1>4. QED
  BY <1>2, <1>3 DEF AllOfOne, CacheType, CachesAreSeparate

LEMMA RenewEndsPasses ==
    ASSUME SessionInv, NEW p \in Procs, Waiting(proc[p]), NEW o, NEW b, NEW i, RenewEnds(p, o, b, i)
    PROVE  Passes(p)
<1> DEFINE r == [proc[p] EXCEPT !.raw = 0, !.force = FALSE]
<1>1. proc[p].after \in Afters /\ proc[p] \in Process
  BY DEF SessionInv, ProcessOK
<1>2. /\ r \in Process /\ r.after = proc[p].after /\ r.who = proc[p].who
      /\ GoesOn(proc[p], r)
  BY <1>1 DEF Process, GoesOn
<1>3. \E s : /\ proc' = [proc EXCEPT ![p] = s]
             /\ \/ \E j : s = [r EXCEPT !.pc = "send", !.ref = j]
                \/ \E j : s = [r EXCEPT !.pc = "resend", !.ref = j]
                \/ s = Fetched(r, FALSE)
                \/ s = Idle
                \/ s = [r EXCEPT !.pc = "next", !.who = Nobody, !.after = Nobody]
  BY <1>1, <1>2 DEF RenewEnds, Step, WithCopy, Afters
<1> HIDE DEF r
<1>4. PICK s : /\ proc' = [proc EXCEPT ![p] = s]
               /\ \/ \E j : s = [r EXCEPT !.pc = "send", !.ref = j]
                  \/ \E j : s = [r EXCEPT !.pc = "resend", !.ref = j]
                  \/ s = Fetched(r, FALSE)
                  \/ s = Idle
                  \/ s = [r EXCEPT !.pc = "next", !.who = Nobody, !.after = Nobody]
  BY <1>3
<1>5. GoesOn(r, s)
  <2>1. CASE s = Idle
    BY <2>1 DEF Idle, GoesOn
  <2>2. CASE s = Fetched(r, FALSE)
    BY <1>2, <2>2 DEF Fetched, GoesOn, Process
  <2>3. CASE s # Idle /\ s # Fetched(r, FALSE)
    BY <1>2, <1>4, <2>3 DEF GoesOn, Process
  <2>4. QED
    BY <2>1, <2>2, <2>3
<1>6. GoesOn(proc[p], s) /\ cache' = cache
  BY <1>2, <1>5 DEF GoesOn, RenewEnds
<1>7. QED
  BY <1>4, <1>6 DEF Passes

LEMMA PasswordPasses ==
    ASSUME SessionInv, NEW p \in Procs, Waiting(proc[p]), NEW i, Password(p, i)
    PROVE  Passes(p)
<1>1. CASE RenewEnds(p, obj, book, 0)
  BY <1>1, RenewEndsPasses
<1>2. CASE ~ RenewEnds(p, obj, book, 0)
  <2>1. proc[p] \in Process
    BY DEF SessionInv
  <2>2. proc' = [proc EXCEPT ![p] = [proc[p] EXCEPT !.pc = "password", !.raw = i]] /\ cache' = cache
    BY <1>2 DEF Password, Step
  <2>3. GoesOn(proc[p], [proc[p] EXCEPT !.pc = "password", !.raw = i])
    BY <2>1 DEF GoesOn, Process
  <2>4. QED
    BY <2>2, <2>3 DEF Passes
<1>3. QED
  BY <1>1, <1>2

LEMMA RenewStepPasses ==
    ASSUME SessionInv, NEW p \in Procs, RenewStep(p)
    PROVE  Passes(p)
<1>1. CASE Acquire(p)
  <2> DEFINE i == book.stored[proc[p].who]
  <2>1. Waiting(proc[p]) /\ Renew(p, i) /\ proc[p] \in Process
    BY <1>1 DEF Acquire, Waiting, SessionInv
  <2> HIDE DEF i
  <2>2. CASE RenewEnds(p, obj, book, 0) \/ RenewEnds(p, obj, book, i)
    BY <2>1, <2>2, RenewEndsPasses
  <2>3. CASE Password(p, i)
    BY <2>1, <2>3, PasswordPasses
  <2>4. CASE ~ RenewEnds(p, obj, book, 0) /\ ~ RenewEnds(p, obj, book, i) /\ ~ Password(p, i)
    <3>1. proc' = [proc EXCEPT ![p] = [proc[p] EXCEPT !.pc = "cookie", !.raw = i]] /\ cache' = cache
      BY <2>1, <2>4 DEF Renew, Step
    <3>2. GoesOn(proc[p], [proc[p] EXCEPT !.pc = "cookie", !.raw = i])
      BY <2>1 DEF GoesOn, Process
    <3>3. QED
      BY <3>1, <3>2 DEF Passes
  <2>5. QED
    BY <2>2, <2>3, <2>4
<1>2. CASE ~ Acquire(p)
  <2>1. Waiting(proc[p]) /\ proc[p] \in Process
    BY <1>2, RenewalSteps DEF SessionInv
  <2>2. CASE \E o, b, i : RenewEnds(p, o, b, i)
    BY <2>1, <2>2, RenewEndsPasses
  <2>3. ASSUME NEW o, NEW i, NEW pc, Saves(p, o, i, pc)
        PROVE  Passes(p)
    <3>1. proc' = [proc EXCEPT ![p] = [proc[p] EXCEPT !.pc = pc, !.raw = i]] /\ cache' = cache
      BY <2>3 DEF Saves, Step
    <3>2. GoesOn(proc[p], [proc[p] EXCEPT !.pc = pc, !.raw = i])
      BY <2>1 DEF GoesOn, Process
    <3>3. QED
      BY <3>1, <3>2 DEF Passes
  <2>4. CASE CookieFails(p)
    BY <2>1, <2>4, PasswordPasses DEF CookieFails
  <2>5. QED
    BY <1>2, <2>2, <2>3, <2>4, RenewalSteps
<1>3. QED
  BY <1>1, <1>2

\* A step of a client that leaves the cache and the current account, to a page
\* that is of one account.
LEMMA OnePage ==
    ASSUME SessionInv, AllOfOne, NEW c \in Clients, UNCHANGED cache, book' = book,
           NEW s, proc' = [proc EXCEPT ![c] = s], OfOne(s, book.current)
    PROVE  AllOfOne'
<1>1. proc \in [Procs -> Process] /\ \A d \in Clients : d \in Procs
  BY ClientsOK DEF SessionInv
<1>2. \A d \in Clients : OfOne(proc'[d], book'.current)
  BY <1>1 DEF AllOfOne
<1>3. QED
  BY <1>2 DEF AllOfOne, CacheType, CachesAreSeparate

LEMMA OpenOfOne ==
    ASSUME SessionInv, AllOfOne, NEW c \in Clients, NEW e \in Pages, NEW q \in AccountsOrNobody, Open(c, e, q)
    PROVE  AllOfOne'
<1> DEFINE key == IF Session(q) # 0 THEN Named(q) ELSE q
           s == [Idle EXCEPT !.pc = "next", !.page = e, !.asked = q, !.todo = Shape[e].fetches, !.key = key]
<1>1. proc' = [proc EXCEPT ![c] = s] /\ book' = book /\ UNCHANGED cache
  BY DEF Open, Step
<1>2. s.key = key /\ s.asked = q /\ s.who = Nobody /\ s.from = {}
  BY DEF Idle
<1>3. key # Nobody => q \in {Nobody, key} /\ (q = Nobody => key = book.current)
  BY DEF Named
<1>4. OfOne(s, book.current)
  BY <1>2, <1>3 DEF OfOne
<1> HIDE DEF s
<1>5. QED
  BY <1>1, <1>4, OnePage

LEMMA FetchOfOne ==
    ASSUME SessionInv, AllOfOne, NEW c \in Clients, Fetch(c)
    PROVE  AllOfOne'
<1> DEFINE q == IF Head(proc[c].todo) = "resolved" THEN proc[c].key ELSE proc[c].asked
           a == Named(q)
           r == [proc[c] EXCEPT !.who = a, !.ref = Session(q)]
<1>1. proc[c] \in Process /\ OfOne(proc[c], book.current)
  BY ClientsOK DEF AllOfOne
<1>2. /\ r.key = proc[c].key /\ r.asked = proc[c].asked /\ r.from = proc[c].from /\ r.who = a
      /\ DOMAIN r = DOMAIN proc[c] /\ DOMAIN r = DOMAIN Idle
  BY <1>1 DEF Process, Idle
<1>3. r.key # Nobody => a = r.key
  BY <1>1, <1>2 DEF OfOne, Named
<1>4. \E s : /\ proc' = [proc EXCEPT ![c] = s] /\ book' = book /\ UNCHANGED cache
             /\ \/ s = Fetched(r, FALSE)
                \/ \E j : s = [r EXCEPT !.pc = "send", !.ref = j]
                \/ s = [r EXCEPT !.pc = "send"]
                \/ s = Wait(r, a, FALSE, "fresh")
  BY DEF Fetch, Step, WithCopy
<1> HIDE DEF r, a
<1>5. PICK s : /\ proc' = [proc EXCEPT ![c] = s] /\ book' = book /\ UNCHANGED cache
               /\ \/ s = Fetched(r, FALSE)
                  \/ \E j : s = [r EXCEPT !.pc = "send", !.ref = j]
                  \/ s = [r EXCEPT !.pc = "send"]
                  \/ s = Wait(r, a, FALSE, "fresh")
  BY <1>4
<1>6. s.key = r.key /\ s.asked = r.asked /\ s.from = r.from /\ s.who \in {a, Nobody}
  <2>1. CASE s = Fetched(r, FALSE)
    BY <1>2, <2>1 DEF Fetched, Idle
  <2>2. CASE s = Wait(r, a, FALSE, "fresh")
    BY <1>2, <2>2 DEF Wait, Idle
  <2>3. CASE s # Fetched(r, FALSE) /\ s # Wait(r, a, FALSE, "fresh")
    BY <1>2, <1>5, <2>3 DEF Idle
  <2>4. QED
    BY <2>1, <2>2, <2>3
<1>7. OfOne(s, book.current)
  BY <1>1, <1>2, <1>3, <1>6 DEF OfOne
<1>8. QED
  BY <1>5, <1>7, OnePage

LEMMA AnsweredOfOne ==
    ASSUME SessionInv, AllOfOne, Steady, NEW c \in Clients, Answered(c)
    PROVE  AllOfOne'
<1> DEFINE r == proc[c]
<1>1. r \in Process /\ r.who \in Accounts /\ OfOne(r, book.current) /\ Nobody \notin Accounts
  BY SendingWith, SessionAssumption DEF Answered, Sending, AllOfOne
<1>2. PICK good \in BOOLEAN : proc' = [proc EXCEPT ![c] = Fetched(r, good)] /\ UNCHANGED cache
  BY DEF Answered, Step
<1> DEFINE s == Fetched(r, good)
<1>3. s.key = r.key /\ s.asked = r.asked /\ s.who = Nobody /\ s.from \subseteq r.from \cup {r.who}
  BY <1>1 DEF Fetched, Process
<1>4. Unnamed(r) => book'.current = book.current
  BY DEF Steady
<1>5. OfOne(s, book'.current)
  BY <1>1, <1>3, <1>4 DEF OfOne, Unnamed
<1> HIDE DEF s
<1>6. ASSUME NEW d \in Clients PROVE OfOne(proc'[d], book'.current)
  <2>1. proc \in [Procs -> Process] /\ d \in Procs
    BY <1>6, ClientsOK DEF SessionInv
  <2>2. CASE d = c
    BY <1>2, <1>5, <2>1, <2>2 DEF s
  <2>3. CASE d # c
    <3>1. proc'[d] = proc[d] /\ OfOne(proc[d], book.current)
      BY <1>2, <1>6, <2>1, <2>3 DEF AllOfOne
    <3>2. Unnamed(proc[d]) => book'.current = book.current
      BY <1>6 DEF Steady
    <3>3. QED
      BY <3>1, <3>2 DEF OfOne, Unnamed
  <2>4. QED
    BY <2>2, <2>3
<1>7. QED
  BY <1>2, <1>6 DEF AllOfOne, CacheType, CachesAreSeparate

LEMMA FinishOfOne ==
    ASSUME SessionInv, AllOfOne, NEW c \in Clients, Finish(c)
    PROVE  AllOfOne'
<1> DEFINE r == proc[c]
<1>1. r \in Process /\ OfOne(r, book.current) /\ c \in Procs /\ proc \in [Procs -> Process]
  BY ClientsOK DEF AllOfOne, SessionInv
<1>2. /\ proc' = [proc EXCEPT ![c] = Idle] /\ book' = book
      /\ cache' = cache \/ cache' = [cache EXCEPT ![r.page][r.key] = r.from]
  BY DEF Finish, Step
<1>3. \A d \in Clients : OfOne(proc'[d], book'.current)
  <2>1. OfOne(Idle, book.current)
    BY DEF OfOne, Idle
  <2>2. \A d \in Clients : d \in Procs
    BY ClientsOK
  <2>3. QED
    BY <1>1, <1>2, <2>1, <2>2 DEF AllOfOne
<1>4. r.from \in SUBSET AccountsOrNobody /\ (r.key \in Accounts => r.from \subseteq {r.key})
  BY <1>1, SessionAssumption DEF Process, OfOne
<1>5. CASE cache' = cache
  BY <1>3, <1>5 DEF AllOfOne, CacheType, CachesAreSeparate
<1>6. CASE cache' = [cache EXCEPT ![r.page][r.key] = r.from]
  <2> DEFINE e == r.page
             k == r.key
             f == r.from
  <2>1. CacheType /\ CachesAreSeparate /\ k \in AccountsOrNobody
    BY <1>1 DEF AllOfOne, Process
  <2>2. cache' = [cache EXCEPT ![e][k] = f] /\ f \in SUBSET AccountsOrNobody /\ (k \in Accounts => f \subseteq {k})
    BY <1>4, <1>6
  <2> HIDE DEF e, k, f
  <2>3. CacheType'
    BY <2>1, <2>2 DEF CacheType
  <2>4. ASSUME NEW p \in Pages, NEW a \in Accounts PROVE cache'[p][a] \subseteq {a}
    <3>1. cache'[p][a] = cache[p][a] \/ (a = k /\ cache'[p][a] = f)
      BY <2>1, <2>2, <2>4 DEF CacheType, AccountsOrNobody
    <3>2. QED
      BY <2>1, <2>2, <2>4, <3>1 DEF CachesAreSeparate
  <2>5. QED
    BY <1>3, <2>3, <2>4 DEF AllOfOne, CachesAreSeparate
<1>7. QED
  BY <1>2, <1>5, <1>6

LEMMA FetchStepOfOne ==
    ASSUME SessionInv, AllOfOne, Steady, NEW c \in Clients, FetchStep(c)
    PROVE  AllOfOne'
<1>1. c \in Procs /\ proc[c] \in Process
  BY ClientsOK
<1>2. CASE AnswerFails(c) \/ RefusedAgain(c)
  <2>1. UNCHANGED cache /\ proc' = [proc EXCEPT ![c] = Fetched(proc[c], FALSE)]
    BY <1>2 DEF AnswerFails, RefusedAgain, Step
  <2>2. GoesOn(proc[c], Fetched(proc[c], FALSE))
    BY <1>1 DEF GoesOn, Fetched, Process
  <2>3. QED
    BY <1>1, <2>1, <2>2, PassesOfOne DEF Passes
<1>3. CASE Refused(c)
  <2> DEFINE s == Wait(proc[c], proc[c].who, TRUE, "retry")
  <2>1. UNCHANGED cache /\ proc' = [proc EXCEPT ![c] = s]
    BY <1>3 DEF Refused, Step
  <2>2. GoesOn(proc[c], s)
    BY <1>1 DEF GoesOn, Wait, Process
  <2> HIDE DEF s
  <2>3. QED
    BY <1>1, <2>1, <2>2, PassesOfOne DEF Passes
<1>4. QED
  BY <1>2, <1>3, FetchOfOne, AnsweredOfOne, FinishOfOne DEF FetchStep

LEMMA NextOfOne ==
    ASSUME SessionInv, AllOfOne, Steady, Next
    PROVE  AllOfOne'
<1>1. ASSUME proc' = proc, UNCHANGED cache \/ \E a \in Accounts : cache' = Purged(a)
      PROVE  AllOfOne'
  <2>1. CacheType' /\ CachesAreSeparate'
    <3>1. CacheType /\ CachesAreSeparate
      BY DEF AllOfOne
    <3>2. CASE UNCHANGED cache
      BY <3>1, <3>2 DEF CacheType, CachesAreSeparate
    <3>3. ASSUME NEW a \in Accounts, cache' = Purged(a)
          PROVE  CacheType' /\ CachesAreSeparate'
      <4>1. \A e \in Pages : cache'[e] = [cache[e] EXCEPT ![a] = {}]
        BY <3>3 DEF Purged
      <4>2. \A e \in Pages : cache[e] \in [AccountsOrNobody -> SUBSET AccountsOrNobody]
        BY <3>1 DEF CacheType
      <4>3. ASSUME NEW e \in Pages
            PROVE  /\ cache'[e] \in [AccountsOrNobody -> SUBSET AccountsOrNobody]
                   /\ \A b \in Accounts : cache'[e][b] \subseteq {b}
        <5>1. /\ cache'[e] = [cache[e] EXCEPT ![a] = {}]
              /\ cache[e] \in [AccountsOrNobody -> SUBSET AccountsOrNobody]
          BY <4>1, <4>2, <4>3
        <5>2. cache'[e] \in [AccountsOrNobody -> SUBSET AccountsOrNobody]
          BY <5>1
        <5>3. ASSUME NEW b \in Accounts PROVE cache'[e][b] \subseteq {b}
          <6>1. cache'[e][b] = {} \/ cache'[e][b] = cache[e][b]
            BY <5>1, <5>3 DEF AccountsOrNobody
          <6>2. QED
            BY <3>1, <4>3, <5>3, <6>1 DEF CachesAreSeparate
        <5>4. QED
          BY <5>2, <5>3
      <4>4. cache' = [e \in Pages |-> cache'[e]]
        BY <3>3 DEF Purged
      <4>5. QED
        BY <4>3, <4>4 DEF CacheType, CachesAreSeparate
    <3>4. QED
      BY <1>1, <3>2, <3>3
  <2>2. \A c \in Clients : OfOne(proc'[c], book'.current)
    BY <1>1 DEF AllOfOne, Steady, OfOne, Unnamed
  <2>3. QED
    BY <2>1, <2>2 DEF AllOfOne
<1>2. CASE AdminStep \/ Tick
  <2>1. proc' = proc /\ (UNCHANGED cache \/ \E a \in Accounts : cache' = Purged(a))
    BY <1>2 DEF AdminStep, Tick, Login, Lapses, Switch, Logout, Lists, StorageBusy, StorageIdle
  <2>2. QED
    BY <1>1, <2>1
<1>3. CASE ClientStep
  <2>1. PICK c \in Clients, q \in AccountsOrNobody : Refresh(c, q) \/ \E e \in Pages : Open(c, e, q)
    BY <1>3 DEF ClientStep, AccountsOrNobody
  <2>2. CASE Refresh(c, q)
    <3> DEFINE s == Wait([Idle EXCEPT !.ref = Session(q)], Named(q), FALSE, "refresh")
    <3>1. UNCHANGED cache /\ proc' = [proc EXCEPT ![c] = s] /\ c \in Procs
      BY <2>2, ClientsOK DEF Refresh, Step
    <3>2. GoesOn(proc[c], s)
      BY DEF GoesOn, Wait, Idle
    <3> HIDE DEF s
    <3>3. QED
      BY <3>1, <3>2, PassesOfOne DEF Passes
  <2>3. QED
    BY <2>1, <2>2, OpenOfOne
<1>4. CASE KeeperStep
  <2>1. UNCHANGED cache /\ \E s : proc' = [proc EXCEPT ![Keeper] = s]
    BY <1>4 DEF KeeperStep, Wake, Keep, Step
  <2>2. \A c \in Clients : proc'[c] = proc[c]
    BY <2>1, ClientsOK DEF SessionInv
  <2>3. \A c \in Clients : OfOne(proc'[c], book'.current)
    BY <2>2 DEF AllOfOne, Steady, OfOne, Unnamed
  <2>4. QED
    BY <2>1, <2>3 DEF AllOfOne, CacheType, CachesAreSeparate
<1>5. CASE \E p \in Procs : RenewStep(p)
  BY <1>5, RenewStepPasses, PassesOfOne
<1>6. CASE \E c \in Clients : FetchStep(c)
  BY <1>6, FetchStepOfOne
<1>7. CASE \E u \in book.under : StoreStep(u)
  BY <1>1, <1>7, StoreStepOK
<1>8. QED
  BY <1>2, <1>3, <1>4, <1>5, <1>6, <1>7, Steps

\* An account is shown what was read of another only because the current
\* account changed while a page that names none was being read: as long as it
\* stays until such pages are complete, and whenever every page names its
\* account, each account has what is its own, whatever sessions are renewed,
\* refused, cleared or stored meanwhile (get_billing_info, get_account_overview).
THEOREM SteadyCachesAreSeparate == Spec /\ [][Steady]_vars => []CachesAreSeparate
<1>1. Init => AllOfOne
  BY DEF Init, AllOfOne, CacheType, CachesAreSeparate, OfOne, Idle, Procs, AccountsOrNobody
<1>2. SessionInv /\ AllOfOne /\ [Next]_vars /\ [Steady]_vars => AllOfOne'
  <2>1. CASE UNCHANGED vars
    BY <2>1 DEF vars, AllOfOne, CacheType, CachesAreSeparate, OfOne
  <2>2. QED
    BY <2>1, NextOfOne
<1>3. AllOfOne => CachesAreSeparate
  BY DEF AllOfOne
<1>4. QED
  BY <1>1, <1>2, <1>3, Invariant, PTL DEF Spec

-----------------------------------------------------------------------------
(* Locks                                                                     *)

\* Whoever holds the lock of an account is asking the dashboard for it, or
\* storing what the dashboard said.
HeldByRenewers ==
    \A a \in Accounts : lock[a] # Nobody =>
        \E p \in Procs : lock[a] = p /\ Renewing(proc[p]) /\ proc[p].who = a

\* A step of p to s, which gives back the lock of its account, takes it, keeps
\* it for the rest of a renewal, or has nothing to do with locks.
LocksWell(p, s) ==
    \/ lock' = [lock EXCEPT ![proc[p].who] = IF @ = p THEN Nobody ELSE @]
    \/ lock' = [lock EXCEPT ![proc[p].who] = p] /\ Renewing(s) /\ s.who = proc[p].who
    \/ UNCHANGED lock /\ (Renewing(proc[p]) => Renewing(s) /\ s.who = proc[p].who)

LEMMA HeldStep ==
    ASSUME SessionInv, HeldByRenewers, NEW p \in Procs, NEW s, proc' = [proc EXCEPT ![p] = s], LocksWell(p, s)
    PROVE  HeldByRenewers'
<1> SUFFICES ASSUME NEW a \in Accounts, lock'[a] # Nobody
             PROVE  \E q \in Procs : lock'[a] = q /\ Renewing(proc'[q]) /\ proc'[q].who = a
  BY DEF HeldByRenewers
<1> DEFINE w == proc[p].who
<1>1. lock \in [Accounts -> Procs \cup {Nobody}] /\ proc \in [Procs -> Process]
  BY DEF SessionInv
<1>2. \/ lock' = [lock EXCEPT ![w] = IF lock[w] = p THEN Nobody ELSE lock[w]]
      \/ lock' = [lock EXCEPT ![w] = p] /\ Renewing(s) /\ s.who = w
      \/ UNCHANGED lock /\ (Renewing(proc[p]) => Renewing(s) /\ s.who = w)
  BY DEF LocksWell
<1>3. \A q \in Procs : lock[a] = q /\ lock[a] # Nobody => Renewing(proc[q]) /\ proc[q].who = a
  BY DEF HeldByRenewers
<1>4. proc'[p] = s /\ \A q \in Procs : q # p => proc'[q] = proc[q]
  BY <1>1
<1>5. lock'[a] = lock[a] \/ (a = w /\ lock'[a] = p /\ Renewing(s) /\ s.who = w)
  BY <1>1, <1>2
<1>6. CASE lock'[a] = p /\ a = w /\ Renewing(s) /\ s.who = w
  BY <1>4, <1>6
<1>7. CASE lock'[a] = lock[a] /\ ~ (lock'[a] = p /\ a = w /\ Renewing(s) /\ s.who = w)
  <2>1. lock[a] \in Procs /\ Renewing(proc[lock[a]]) /\ proc[lock[a]].who = a
    BY <1>1, <1>3, <1>7
  <2>2. lock[a] # p
    <3>1. SUFFICES ASSUME lock[a] = p PROVE FALSE
      OBVIOUS
    <3>2. a = w /\ Renewing(proc[p]) /\ lock'[a] = p
      BY <1>7, <2>1, <3>1
    <3>3. QED
      BY <1>1, <1>2, <1>7, <3>1, <3>2, ProcsFinite
  <2>3. QED
    BY <1>4, <1>7, <2>1, <2>2
<1>8. QED
  BY <1>5, <1>6, <1>7

LEMMA RenewEndsLocks ==
    ASSUME SessionInv, NEW p \in Procs, Waiting(proc[p]), NEW o, NEW b, NEW i, RenewEnds(p, o, b, i)
    PROVE  \E s : proc' = [proc EXCEPT ![p] = s] /\ LocksWell(p, s)
<1> DEFINE r == [proc[p] EXCEPT !.raw = 0, !.force = FALSE]
<1>1. proc[p].after \in Afters /\ proc[p] \in Process
  BY DEF SessionInv, ProcessOK
<1>2. r.after = proc[p].after /\ r.who = proc[p].who
  BY <1>1 DEF Process
<1>3. \E s : proc' = [proc EXCEPT ![p] = s]
  BY <1>1, <1>2 DEF RenewEnds, Step, WithCopy, Afters
<1>4. lock' = [lock EXCEPT ![proc[p].who] = IF @ = p THEN Nobody ELSE @]
  BY <1>2 DEF RenewEnds
<1>5. QED
  BY <1>3, <1>4 DEF LocksWell

LEMMA PasswordLocks ==
    ASSUME SessionInv, NEW p \in Procs, Waiting(proc[p]), NEW i, Password(p, i)
    PROVE  \E s : proc' = [proc EXCEPT ![p] = s] /\ LocksWell(p, s)
<1>1. CASE RenewEnds(p, obj, book, 0)
  BY <1>1, RenewEndsLocks
<1>2. CASE ~ RenewEnds(p, obj, book, 0)
  <2> DEFINE s == [proc[p] EXCEPT !.pc = "password", !.raw = i]
  <2>1. proc[p] \in Process
    BY DEF SessionInv
  <2>2. proc' = [proc EXCEPT ![p] = s] /\ lock' = [lock EXCEPT ![proc[p].who] = p]
    BY <1>2 DEF Password, Step
  <2>3. Renewing(s) /\ s.who = proc[p].who
    BY <2>1 DEF Renewing, Renewals, Process
  <2> HIDE DEF s
  <2>4. QED
    BY <2>2, <2>3 DEF LocksWell
<1>3. QED
  BY <1>1, <1>2

LEMMA RenewStepLocks ==
    ASSUME SessionInv, NEW p \in Procs, RenewStep(p)
    PROVE  \E s : proc' = [proc EXCEPT ![p] = s] /\ LocksWell(p, s)
<1>1. CASE Acquire(p)
  <2> DEFINE i == book.stored[proc[p].who]
             s == [proc[p] EXCEPT !.pc = "cookie", !.raw = i]
  <2>1. Waiting(proc[p]) /\ Renew(p, i) /\ proc[p] \in Process
    BY <1>1 DEF Acquire, Waiting, SessionInv
  <2>2. Renewing(s) /\ s.who = proc[p].who
    BY <2>1 DEF Renewing, Renewals, Process
  <2>3. ASSUME ~ RenewEnds(p, obj, book, 0), ~ RenewEnds(p, obj, book, i), ~ Password(p, i)
        PROVE  proc' = [proc EXCEPT ![p] = s] /\ lock' = [lock EXCEPT ![proc[p].who] = p]
    BY <2>1, <2>3 DEF Renew, Step
  <2> HIDE DEF i, s
  <2>4. CASE RenewEnds(p, obj, book, 0) \/ RenewEnds(p, obj, book, i)
    BY <2>1, <2>4, RenewEndsLocks
  <2>5. CASE Password(p, i)
    BY <2>1, <2>5, PasswordLocks
  <2>6. QED
    BY <2>2, <2>3, <2>4, <2>5 DEF LocksWell
<1>2. CASE ~ Acquire(p)
  <2>1. Waiting(proc[p]) /\ Renewing(proc[p]) /\ proc[p] \in Process
    BY <1>2, RenewalSteps DEF SessionInv
  <2>2. CASE \E o, b, i : RenewEnds(p, o, b, i)
    BY <2>1, <2>2, RenewEndsLocks
  <2>3. ASSUME NEW o, NEW i, NEW pc \in {"saving", "noting"}, Saves(p, o, i, pc)
        PROVE  \E s : proc' = [proc EXCEPT ![p] = s] /\ LocksWell(p, s)
    <3> DEFINE s == [proc[p] EXCEPT !.pc = pc, !.raw = i]
    <3>1. proc' = [proc EXCEPT ![p] = s] /\ lock' = lock
      BY <2>3 DEF Saves, Step
    <3>2. Renewing(s) /\ s.who = proc[p].who
      BY <2>1 DEF Renewing, Renewals, Process
    <3> HIDE DEF s
    <3>3. QED
      BY <2>1, <3>1, <3>2 DEF LocksWell
  <2>4. CASE CookieFails(p)
    BY <2>1, <2>4, PasswordLocks DEF CookieFails
  <2>5. QED
    BY <1>2, <2>2, <2>3, <2>4, RenewalSteps
<1>3. QED
  BY <1>1, <1>2

\* No way out of a renewal keeps its lock: refused, failed, given up or with a
\* session, for a request, on demand or for the loop.  Whoever waits for the
\* lock of an account waits for a call to the dashboard or of the storage, and
\* not for somebody who waits for a lock himself (_renew_locks).
THEOREM LocksAreGivenBack == Spec => []HeldByRenewers
<1>1. Init => HeldByRenewers
  BY DEF Init, HeldByRenewers
<1>2. ASSUME SessionInv, HeldByRenewers, [Next]_vars
      PROVE  HeldByRenewers'
  <2>1. CASE UNCHANGED <<lock, proc>>
    BY <1>2, <2>1 DEF HeldByRenewers
  <2>2. CASE ClientStep
    <3>1. PICK c \in Clients : /\ proc[c].pc = "idle" /\ UNCHANGED lock
                               /\ \E s : proc' = [proc EXCEPT ![c] = s]
      BY <2>2 DEF ClientStep, Refresh, Open, Step
    <3>2. c \in Procs /\ ~ Renewing(proc[c])
      BY <1>2, <3>1, ClientsOK DEF Renewing, Renewals
    <3>3. QED
      BY <1>2, <3>1, <3>2, HeldStep DEF LocksWell
  <2>3. CASE KeeperStep
    <3>1. /\ proc[Keeper].pc \in {"idle", "next"} /\ UNCHANGED lock
          /\ \E s : proc' = [proc EXCEPT ![Keeper] = s]
      BY <2>3 DEF KeeperStep, Wake, Keep, Step
    <3>2. Keeper \in Procs /\ ~ Renewing(proc[Keeper])
      BY <3>1 DEF Procs, Renewing, Renewals
    <3>3. QED
      BY <1>2, <3>1, <3>2, HeldStep DEF LocksWell
  <2>4. ASSUME NEW p \in Procs, RenewStep(p) PROVE HeldByRenewers'
    BY <1>2, <2>4, RenewStepLocks, HeldStep
  <2>5. ASSUME NEW c \in Clients, FetchStep(c) PROVE HeldByRenewers'
    <3>1. /\ proc[c].pc \in {"next", "send", "resend"} /\ UNCHANGED lock
          /\ \E s : proc' = [proc EXCEPT ![c] = s]
      <4>1. Fetch(c) \/ Finish(c) => /\ proc[c].pc = "next" /\ UNCHANGED lock
                                     /\ \E s : proc' = [proc EXCEPT ![c] = s]
        BY DEF Fetch, Finish, Step, WithCopy
      <4>2. Answered(c) \/ AnswerFails(c) \/ Refused(c) \/ RefusedAgain(c)
            => /\ proc[c].pc \in {"send", "resend"} /\ UNCHANGED lock
               /\ \E s : proc' = [proc EXCEPT ![c] = s]
        BY DEF Answered, AnswerFails, Refused, RefusedAgain, Step
      <4>3. QED
        BY <2>5, <4>1, <4>2 DEF FetchStep
    <3>2. c \in Procs /\ ~ Renewing(proc[c])
      BY <1>2, <3>1, ClientsOK DEF Renewing, Renewals
    <3>3. QED
      BY <1>2, <3>1, <3>2, HeldStep DEF LocksWell
  <2>6. AdminStep \/ Tick \/ UNCHANGED vars => UNCHANGED <<lock, proc>>
    BY DEF AdminStep, Tick, Login, Lapses, Switch, Logout, Lists, StorageBusy, StorageIdle, vars
  <2>7. ASSUME NEW u \in book.under, StoreStep(u) PROVE UNCHANGED <<lock, proc>>
    BY <1>2, <2>7, StoreStepOK
  <2>8. QED
    BY <1>2, <2>1, <2>2, <2>3, <2>4, <2>5, <2>6, <2>7, Steps
<1>3. QED
  BY <1>1, <1>2, Invariant, PTL DEF Spec

-----------------------------------------------------------------------------
(* Termination                                                               *)

\* How far a handler is with its fetch: a renewal before it, the call, a
\* renewal after a refusal, the call again.
Stage(r) ==
    CASE r.pc = "next" -> 0
      [] r.pc = "lock" -> IF r.after = "retry" THEN 6 ELSE 1
      [] r.pc = "cookie" -> IF r.after = "retry" THEN 7 ELSE 2
      [] r.pc = "password" -> IF r.after = "retry" THEN 8 ELSE 3
      [] r.pc \in {"saving", "noting"} -> IF r.after = "retry" THEN 9 ELSE 4
      [] r.pc = "send" -> 5
      [] r.pc = "resend" -> 10

\* The steps a handler may still take.
StepsLeft(r) == IF r.pc = "idle" THEN 0 ELSE 11 * Len(r.todo) + 11 - Stage(r)

PagesRunOut ==
    [][ \A c \in Clients :
          proc[c].pc # "idle" /\ proc'[c] # proc[c] => StepsLeft(proc'[c]) < StepsLeft(proc[c]) ]_vars

Down(p) == \E s : proc' = [proc EXCEPT ![p] = s] /\ StepsLeft(s) < StepsLeft(proc[p])

LEMMA StagesNeeded ==
    ASSUME NEW r \in Process, r.pc # "idle"
    PROVE  Stage(r) \in 0..10 /\ Len(r.todo) \in Nat /\ StepsLeft(r) \in Nat /\ StepsLeft(r) > 0
<1>1. Len(r.todo) \in Nat /\ r.pc \in {"next", "lock", "send", "resend"} \cup Renewals
  BY LenProperties DEF Process
<1>2. Stage(r) \in 0..10
  BY <1>1 DEF Stage, Renewals
<1>3. QED
  BY <1>1, <1>2 DEF StepsLeft

\* The end of a fetch.
LEMMA FetchedIsLess ==
    ASSUME NEW r \in Process, r.pc # "idle", r.todo # <<>>, NEW good \in BOOLEAN
    PROVE  StepsLeft(Fetched(r, good)) < StepsLeft(r)
<1> DEFINE s == Fetched(r, good)
<1>1. s.pc = "next" /\ s.todo = Tail(r.todo)
  BY DEF Fetched, Process
<1>2. Len(s.todo) = Len(r.todo) - 1 /\ Len(r.todo) \in Nat
  BY <1>1, HeadTailProperties, LenProperties DEF Process
<1>3. Stage(s) = 0 /\ Stage(r) \in 0..10
  BY <1>1, StagesNeeded DEF Stage
<1> HIDE DEF s
<1>4. StepsLeft(s) = 11 * Len(s.todo) + 11 /\ StepsLeft(r) = 11 * Len(r.todo) + 11 - Stage(r)
  BY <1>1, <1>2, <1>3 DEF StepsLeft
<1>5. QED
  BY <1>2, <1>3, <1>4 DEF s

LEMMA RenewEndsDown ==
    ASSUME SessionInv, NEW p \in Clients, Waiting(proc[p]), NEW o, NEW b, NEW i, RenewEnds(p, o, b, i)
    PROVE  Down(p)
<1> DEFINE x == proc[p]
           r == [x EXCEPT !.raw = 0, !.force = FALSE]
<1>1. /\ x \in Process /\ x.pc \in {"lock"} \cup Renewals
      /\ x.after \in {"fresh", "retry", "refresh"} /\ (x.after # "refresh" => x.todo # <<>>)
  BY ClientsOK DEF ProcessOK, Waiting, Renewing, Afters
<1>2. r \in Process /\ r.after = x.after /\ r.todo = x.todo /\ r.pc = x.pc
  BY <1>1 DEF Process
<1>3. StepsLeft(r) = StepsLeft(x)
  <2>1. \A y, z : y.pc = z.pc /\ y.after = z.after => Stage(y) = Stage(z)
    BY DEF Stage
  <2>2. Stage(r) = Stage(x)
    BY <1>2, <2>1
  <2>3. QED
    BY <1>2, <2>2 DEF StepsLeft
<1>4. \E s : /\ proc' = [proc EXCEPT ![p] = s]
             /\ \/ r.after = "fresh" /\ \E j : s = [r EXCEPT !.pc = "send", !.ref = j]
                \/ r.after = "retry" /\ \E j : s = [r EXCEPT !.pc = "resend", !.ref = j]
                \/ r.after = "retry" /\ s = Fetched(r, FALSE)
                \/ s = Idle
  BY <1>1, <1>2 DEF RenewEnds, Step, WithCopy
<1> HIDE DEF r
<1>5. PICK s : /\ proc' = [proc EXCEPT ![p] = s]
               /\ \/ r.after = "fresh" /\ \E j : s = [r EXCEPT !.pc = "send", !.ref = j]
                  \/ r.after = "retry" /\ \E j : s = [r EXCEPT !.pc = "resend", !.ref = j]
                  \/ r.after = "retry" /\ s = Fetched(r, FALSE)
                  \/ s = Idle
  BY <1>4
<1>6. Len(r.todo) \in Nat /\ StepsLeft(r) \in Nat /\ StepsLeft(r) > 0 /\ Stage(r) \in 0..10
  BY <1>1, <1>2, StagesNeeded DEF Renewals
<1>7. StepsLeft(r) = 11 * Len(r.todo) + 11 - Stage(r)
  BY <1>1, <1>2 DEF StepsLeft, Renewals
<1>8. StepsLeft(s) < StepsLeft(r)
  <2>1. CASE r.after = "fresh" /\ \E j : s = [r EXCEPT !.pc = "send", !.ref = j]
    <3>1. s.pc = "send" /\ s.todo = r.todo
      BY <1>2, <2>1 DEF Process
    <3>2. StepsLeft(s) = 11 * Len(r.todo) + 11 - 5
      BY <3>1 DEF StepsLeft, Stage
    <3>3. Stage(r) \in 1..4
      BY <1>1, <1>2, <2>1 DEF Stage, Renewals
    <3>4. QED
      BY <1>6, <1>7, <3>2, <3>3
  <2>2. CASE r.after = "retry" /\ \E j : s = [r EXCEPT !.pc = "resend", !.ref = j]
    <3>1. s.pc = "resend" /\ s.todo = r.todo
      BY <1>2, <2>2 DEF Process
    <3>2. StepsLeft(s) = 11 * Len(r.todo) + 11 - 10
      BY <3>1 DEF StepsLeft, Stage
    <3>3. Stage(r) \in 6..9
      BY <1>1, <1>2, <2>2 DEF Stage, Renewals
    <3>4. QED
      BY <1>6, <1>7, <3>2, <3>3
  <2>3. CASE r.after = "retry" /\ s = Fetched(r, FALSE)
    BY <1>1, <1>2, <2>3, FetchedIsLess DEF Renewals
  <2>4. CASE s = Idle
    <3>1. StepsLeft(s) = 0
      BY <2>4 DEF StepsLeft, Idle
    <3>2. QED
      BY <1>6, <3>1
  <2>5. QED
    BY <1>5, <2>1, <2>2, <2>3, <2>4
<1>9. QED
  BY <1>3, <1>5, <1>8 DEF Down

\* A step within a renewal.
LEMMA RenewalGoesOn ==
    ASSUME NEW r \in Process, NEW i, NEW q \in Renewals,
           \/ r.pc = "lock" \/ (r.pc = "cookie" /\ q = "password")
           \/ r.pc \in {"cookie", "password"} /\ q \in {"saving", "noting"}
    PROVE  StepsLeft([r EXCEPT !.pc = q, !.raw = i]) < StepsLeft(r)
<1> DEFINE s == [r EXCEPT !.pc = q, !.raw = i]
<1>1. s.pc = q /\ s.todo = r.todo /\ s.after = r.after /\ Len(r.todo) \in Nat
  BY LenProperties DEF Process
<1> HIDE DEF s
<1>2. Stage(r) < Stage(s) /\ Stage(r) \in 0..10 /\ Stage(s) \in 0..10
  BY <1>1 DEF Stage, Renewals
<1>3. StepsLeft(s) = 11 * Len(r.todo) + 11 - Stage(s) /\ StepsLeft(r) = 11 * Len(r.todo) + 11 - Stage(r)
  BY <1>1 DEF StepsLeft, Renewals
<1> DEFINE n == 11 * Len(r.todo)
<1>4. n \in Int
  BY <1>1
<1> HIDE DEF n
<1>5. StepsLeft(s) = n + (11 - Stage(s)) /\ StepsLeft(r) = n + (11 - Stage(r))
  BY <1>3 DEF n
<1>6. QED
  BY <1>2, <1>4, <1>5 DEF s

LEMMA PasswordDown ==
    ASSUME SessionInv, NEW p \in Clients, proc[p].pc \in {"lock", "cookie"}, NEW i, Password(p, i)
    PROVE  Down(p)
<1>1. Waiting(proc[p]) /\ proc[p] \in Process
  BY ClientsOK DEF Waiting, Renewing, Renewals
<1>2. CASE RenewEnds(p, obj, book, 0)
  BY <1>1, <1>2, RenewEndsDown
<1>3. CASE ~ RenewEnds(p, obj, book, 0)
  <2>1. proc' = [proc EXCEPT ![p] = [proc[p] EXCEPT !.pc = "password", !.raw = i]]
    BY <1>3 DEF Password, Step
  <2>2. QED
    BY <1>1, <2>1, RenewalGoesOn DEF Down, Renewals
<1>4. QED
  BY <1>2, <1>3

LEMMA RenewStepDown ==
    ASSUME SessionInv, NEW p \in Clients, RenewStep(p)
    PROVE  Down(p)
<1>1. CASE Acquire(p)
  <2> DEFINE i == book.stored[proc[p].who]
  <2>1. proc[p].pc = "lock" /\ Waiting(proc[p]) /\ Renew(p, i) /\ proc[p] \in Process
    BY <1>1, ClientsOK DEF Acquire, Waiting
  <2>2. ASSUME ~ RenewEnds(p, obj, book, 0), ~ RenewEnds(p, obj, book, i), ~ Password(p, i)
        PROVE  proc' = [proc EXCEPT ![p] = [proc[p] EXCEPT !.pc = "cookie", !.raw = i]]
    BY <2>1, <2>2 DEF Renew, Step
  <2> HIDE DEF i
  <2>3. CASE RenewEnds(p, obj, book, 0) \/ RenewEnds(p, obj, book, i)
    BY <2>1, <2>3, RenewEndsDown
  <2>4. CASE Password(p, i)
    BY <2>1, <2>4, PasswordDown
  <2>5. QED
    BY <2>1, <2>2, <2>3, <2>4, RenewalGoesOn DEF Down, Renewals
<1>2. CASE CookieFails(p)
  BY <1>2, PasswordDown DEF CookieFails
<1>3. CASE ~ Acquire(p) /\ ~ CookieFails(p)
  <2>1. p \in Procs /\ proc[p] \in Process
    BY ClientsOK
  <2>2. Waiting(proc[p])
    BY <1>3, <2>1, RenewalSteps
  <2>3. CASE \E o, b, i : RenewEnds(p, o, b, i)
    BY <2>2, <2>3, RenewEndsDown
  <2>4. ASSUME NEW o, NEW i, NEW pc \in {"saving", "noting"}, Saves(p, o, i, pc), proc[p].pc \in {"cookie", "password"}
        PROVE  Down(p)
    <3>1. proc' = [proc EXCEPT ![p] = [proc[p] EXCEPT !.pc = pc, !.raw = i]]
      BY <2>4 DEF Saves, Step
    <3>2. QED
      BY <2>1, <2>4, <3>1, RenewalGoesOn DEF Down, Renewals
  <2>5. QED
    BY <1>3, <2>1, <2>3, <2>4, RenewalSteps
<1>4. QED
  BY <1>1, <1>2, <1>3

\* A step that leaves the page with as many fetches to go, further on.
LEMMA StagesGoOn ==
    ASSUME NEW r \in Process, r.pc # "idle", NEW s, s.pc # "idle", s.todo = r.todo,
           Stage(s) \in 0..10, Stage(r) < Stage(s)
    PROVE  StepsLeft(s) < StepsLeft(r)
<1>1. Len(r.todo) \in Nat /\ Stage(r) \in 0..10
  BY StagesNeeded
<1>2. StepsLeft(s) = 11 * Len(r.todo) + 11 - Stage(s) /\ StepsLeft(r) = 11 * Len(r.todo) + 11 - Stage(r)
  BY <1>1 DEF StepsLeft
<1> DEFINE n == 11 * Len(r.todo)
<1>3. n \in Int
  BY <1>1
<1> HIDE DEF n
<1>4. StepsLeft(s) = n + (11 - Stage(s)) /\ StepsLeft(r) = n + (11 - Stage(r))
  BY <1>2 DEF n
<1>5. Stage(s) \in Int /\ Stage(r) \in Int /\ Stage(r) < Stage(s)
  BY <1>1
<1>6. QED
  BY <1>3, <1>4, <1>5

LEMMA FetchDown ==
    ASSUME SessionInv, NEW c \in Clients, Fetch(c)
    PROVE  Down(c)
<1> DEFINE q == IF Head(proc[c].todo) = "resolved" THEN proc[c].key ELSE proc[c].asked
           a == Named(q)
           r == [proc[c] EXCEPT !.who = a, !.ref = Session(q)]
<1>1. proc[c] \in Process /\ proc[c].pc = "next" /\ proc[c].todo # <<>>
  BY ClientsOK DEF Fetch
<1>2. q \in AccountsOrNobody
  BY <1>1 DEF Process
<1>3. a \in AccountsOrNobody /\ Session(q) \in Ids \cup {0}
  BY <1>2, NamedOK
<1>4. r \in Process
  BY <1>1, <1>3 DEF Process
<1>5. r.pc = "next" /\ r.todo = proc[c].todo
  BY <1>1 DEF Process
<1>6. \E s : /\ proc' = [proc EXCEPT ![c] = s]
             /\ \/ s = Fetched(r, FALSE)
                \/ \E j : s = [r EXCEPT !.pc = "send", !.ref = j]
                \/ s = [r EXCEPT !.pc = "send"]
                \/ s = Wait(r, a, FALSE, "fresh")
  BY DEF Fetch, Step, WithCopy
<1> HIDE DEF r, a
<1>7. PICK s : /\ proc' = [proc EXCEPT ![c] = s]
               /\ \/ s = Fetched(r, FALSE)
                  \/ \E j : s = [r EXCEPT !.pc = "send", !.ref = j]
                  \/ s = [r EXCEPT !.pc = "send"]
                  \/ s = Wait(r, a, FALSE, "fresh")
  BY <1>6
<1>8. StepsLeft(r) = StepsLeft(proc[c]) /\ Stage(r) = 0
  BY <1>1, <1>5 DEF StepsLeft, Stage
<1>9. CASE s = Fetched(r, FALSE)
  BY <1>1, <1>4, <1>5, <1>7, <1>8, <1>9, FetchedIsLess DEF Down
<1>10. CASE s # Fetched(r, FALSE)
  <2>1. s.todo = r.todo /\ (s.pc = "send" \/ (s.pc = "lock" /\ s.after = "fresh"))
    BY <1>4, <1>7, <1>10 DEF Wait, Process
  <2>2. Stage(s) \in {1, 5}
    BY <2>1 DEF Stage
  <2>3. s.pc # "idle" /\ Stage(s) \in 0..10 /\ Stage(r) < Stage(s)
    BY <1>8, <2>1, <2>2
  <2>4. StepsLeft(s) < StepsLeft(r)
    BY <1>4, <1>5, <2>1, <2>3, StagesGoOn
  <2>5. QED
    BY <1>7, <1>8, <2>4 DEF Down
<1>11. QED
  BY <1>9, <1>10

LEMMA FetchStepDown ==
    ASSUME SessionInv, NEW c \in Clients, FetchStep(c)
    PROVE  Down(c)
<1>1. proc[c] \in Process /\ c \in Procs
  BY ClientsOK
<1>2. CASE Answered(c) \/ AnswerFails(c) \/ RefusedAgain(c)
  <2>1. Sending(proc[c]) /\ proc[c].pc # "idle" /\ \E good \in BOOLEAN : proc' = [proc EXCEPT ![c] = Fetched(proc[c], good)]
    BY <1>2 DEF Answered, AnswerFails, RefusedAgain, Step, Sending
  <2>2. QED
    BY <1>1, <2>1, SendingWith, FetchedIsLess DEF Down
<1>3. CASE Refused(c)
  <2> DEFINE s == Wait(proc[c], proc[c].who, TRUE, "retry")
  <2>1. proc' = [proc EXCEPT ![c] = s] /\ proc[c].pc = "send"
    BY <1>3 DEF Refused, Step
  <2>2. s.pc = "lock" /\ s.after = "retry" /\ s.todo = proc[c].todo
    BY <1>1 DEF Wait, Process
  <2> HIDE DEF s
  <2>3. Stage(s) = 6 /\ Stage(proc[c]) = 5
    BY <2>1, <2>2 DEF Stage
  <2>4. s.pc # "idle" /\ proc[c].pc # "idle" /\ Stage(s) \in 0..10 /\ Stage(proc[c]) < Stage(s)
    BY <2>1, <2>2, <2>3
  <2>5. QED
    BY <1>1, <2>1, <2>2, <2>4, StagesGoOn DEF Down
<1>4. CASE Finish(c)
  <2>1. proc' = [proc EXCEPT ![c] = Idle] /\ proc[c].pc # "idle"
    BY <1>4 DEF Finish, Step
  <2>2. StepsLeft(Idle) = 0 /\ StepsLeft(proc[c]) > 0
    BY <1>1, <2>1, StagesNeeded DEF StepsLeft, Idle
  <2>3. QED
    BY <2>1, <2>2 DEF Down
<1>5. QED
  BY <1>2, <1>3, <1>4, FetchDown DEF FetchStep

\* No request goes on for ever: a page has its fetches, each with a renewal
\* before it, one call, one renewal after a refusal and one more call, and each
\* step of its request is one of those.  No step of another takes it back.
\* What RequestsEnd needs beyond this, and beyond the locks that are given
\* back, is only that the steps are taken (_make_dashboard_request).
THEOREM PagesEnd == Spec => PagesRunOut
<1> DEFINE A == \A c \in Clients :
                  proc[c].pc # "idle" /\ proc'[c] # proc[c] => StepsLeft(proc'[c]) < StepsLeft(proc[c])
<1>1. ASSUME SessionInv, NEW p \in Procs,
             \E s : proc' = [proc EXCEPT ![p] = s], p \in Clients => proc[p].pc = "idle" \/ Down(p)
      PROVE  A
  <2> SUFFICES ASSUME NEW c \in Clients, proc[c].pc # "idle", proc'[c] # proc[c]
               PROVE  StepsLeft(proc'[c]) < StepsLeft(proc[c])
    OBVIOUS
  <2>1. proc \in [Procs -> Process] /\ c \in Procs
    BY <1>1, ClientsOK DEF SessionInv
  <2>2. c = p
    BY <1>1, <2>1
  <2>3. QED
    BY <1>1, <2>1, <2>2 DEF Down
<1>2. ASSUME SessionInv, Next
      PROVE  A
  <2>1. CASE AdminStep \/ Tick
    BY <2>1 DEF AdminStep, Tick, Login, Lapses, Switch, Logout, Lists, StorageBusy, StorageIdle
  <2>2. CASE ClientStep
    <3>1. PICK c \in Clients : proc[c].pc = "idle" /\ \E s : proc' = [proc EXCEPT ![c] = s]
      BY <2>2 DEF ClientStep, Refresh, Open, Step
    <3>2. QED
      BY <1>1, <1>2, <3>1, ClientsOK
  <2>3. CASE KeeperStep
    <3>1. Keeper \in Procs /\ Keeper \notin Clients /\ \E s : proc' = [proc EXCEPT ![Keeper] = s]
      BY <2>3, SessionAssumption DEF KeeperStep, Wake, Keep, Step, Procs
    <3>2. QED
      BY <1>1, <1>2, <3>1
  <2>4. ASSUME NEW p \in Procs, RenewStep(p) PROVE A
    <3>1. \E s : proc' = [proc EXCEPT ![p] = s]
      BY <1>2, <2>4, RenewStepLocks
    <3>2. p \in Clients => Down(p)
      BY <1>2, <2>4, RenewStepDown
    <3>3. QED
      BY <1>1, <1>2, <3>1, <3>2
  <2>5. ASSUME NEW c \in Clients, FetchStep(c) PROVE A
    <3>1. Down(c) /\ c \in Procs
      BY <1>2, <2>5, FetchStepDown, ClientsOK
    <3>2. \E s : proc' = [proc EXCEPT ![c] = s]
      BY <3>1 DEF Down
    <3>3. QED
      BY <1>1, <1>2, <3>1, <3>2
  <2>6. CASE \E u \in book.under : StoreStep(u)
    BY <1>2, <2>6, StoreStepOK
  <2>7. QED
    BY <1>2, <2>1, <2>2, <2>3, <2>4, <2>5, <2>6, Steps
<1>3. SessionInv /\ [Next]_vars => [A]_vars
  BY <1>2
<1>4. QED
  BY <1>3, Invariant, PTL DEF Spec, PagesRunOut
=============================================================================
