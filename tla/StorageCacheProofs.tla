--------------------------- MODULE StorageCacheProofs ---------------------------
(* Theorems about StorageCache, for any number of names, clients, writes,   *)
(* failures and crashes.                                                    *)
EXTENDS StorageCache, Integers, SequenceTheorems, FiniteSetTheorems, WellFoundedInduction, TLAPS

-----------------------------------------------------------------------------
(* What the log of writes says of a name *)

\* A set of natural numbers with a bound has a largest element.
LEMMA LargestExists ==
    ASSUME NEW n \in Nat, NEW T, T \subseteq 0..n, T # {}
    PROVE  \E k \in T : \A j \in T : j <= k
<1> DEFINE D == {n - k : k \in T}
           R == OpToRel(<, Nat)
<1> HIDE DEF R
<1>1. ASSUME NEW k \in T
      PROVE  k \in Nat /\ n - k \in Nat
  OBVIOUS
<1>2. D \subseteq Nat /\ D # {}
  <2>1. D \subseteq Nat
    BY <1>1
  <2>2. PICK k \in T : TRUE
    OBVIOUS
  <2>3. n - k \in D
    OBVIOUS
  <2>4. QED
    BY <2>1, <2>3
<1>3. PICK d \in D : \A y \in D : ~ (<<y, d>> \in R)
  <2>1. IsWellFoundedOn(R, Nat)
    BY NatLessThanWellFounded DEF R
  <2> HIDE DEF D
  <2>2. QED
    BY <1>2, <2>1, WFMin
<1>4. PICK k \in T : d = n - k
  BY <1>3
<1>5. ASSUME NEW j \in T
      PROVE  ~ (n - j < n - k)
  <2>1. n - j \in Nat /\ n - k \in Nat /\ n - j \in D
    BY <1>1
  <2>2. QED
    BY <1>3, <1>4, <2>1 DEF OpToRel, R
<1>6. \A j \in T : j <= k
  BY <1>1, <1>5
<1>7. QED
  BY <1>6

\* A write appended to the log decides its own name and no other.
LEMMA LatestAppend ==
    ASSUME NEW l \in Seq(Store!Entries), NEW e \in Store!Entries, NEW n \in Names
    PROVE  Store!Latest(Append(l, e), n) =
              IF e.name = n THEN IF e.del THEN 0 ELSE Len(l) + 1 ELSE Store!Latest(l, n)
<1> DEFINE m == Append(l, e)
           writes(s) == {k \in 1..Len(s) : s[k].name = n}
           last(S) == CHOOSE k \in S : \A j \in S : j <= k
<1>1. /\ Len(l) \in Nat /\ Len(m) = Len(l) + 1
      /\ \A k \in 1..Len(l) : m[k] = l[k]
      /\ m[Len(l) + 1] = e
  BY AppendProperties
<1> HIDE DEF m
<1>2. CASE e.name = n
  <2>1. Len(m) \in writes(m) /\ \A j \in writes(m) : j \in Nat /\ j <= Len(m)
    BY <1>1, <1>2
  <2>2. last(writes(m)) = Len(m)
    BY <1>1, <2>1
  <2>3. QED
    BY <1>1, <1>2, <2>1, <2>2 DEF Store!Latest, m
<1>3. CASE e.name # n
  <2>1. writes(m) = writes(l)
    BY <1>1, <1>3
  <2>2. CASE writes(l) = {}
    BY <1>3, <2>1, <2>2 DEF Store!Latest, m
  <2>3. CASE writes(l) # {}
    <3>1. writes(l) \subseteq 0..Len(l)
      BY <1>1
    <3>2. last(writes(l)) \in writes(l)
      BY <1>1, <2>3, <3>1, LargestExists
    <3>3. m[last(writes(m))] = l[last(writes(l))]
      BY <1>1, <2>1, <3>2
    <3>4. /\ Store!Latest(l, n) =
                IF writes(l) = {} \/ l[last(writes(l))].del THEN 0 ELSE last(writes(l))
          /\ Store!Latest(m, n) =
                IF writes(m) = {} \/ m[last(writes(m))].del THEN 0 ELSE last(writes(m))
      BY DEF Store!Latest
    <3> HIDE DEF writes, last
    <3>5. QED
      BY <1>3, <2>1, <3>3, <3>4 DEF m
  <2>4. QED
    BY <2>2, <2>3
<1>4. QED
  BY <1>2, <1>3 DEF m

LEMMA ContentsAppend ==
    ASSUME NEW l \in Seq(Store!Entries), NEW e \in Store!Entries
    PROVE  Store!Contents(Append(l, e)) =
              [Store!Contents(l) EXCEPT ![e.name] = IF e.del THEN 0 ELSE Len(l) + 1]
  BY LatestAppend DEF Store!Contents, Store!Entries

\* A crash before any write was saved leaves an empty store.
LEMMA ContentsEmpty == Store!Contents(<<>>) = Absent
<1>1. ASSUME NEW n \in Names
      PROVE  Store!Latest(<<>>, n) = 0
  <2>1. {k \in 1..Len(<<>>) : <<>>[k].name = n} = {}
    OBVIOUS
  <2>2. QED
    BY <2>1 DEF Store!Latest
<1>2. QED
  BY <1>1 DEF Store!Contents, Absent

-----------------------------------------------------------------------------
(* The invariant *)

Writing == {c \in Clients : IsWrite(op[c])}

\* Whatever fails: where the clients, the write loop and stop() can be, and
\* room in the log for the writes that have begun.
Control ==
    /\ Len(log) + Cardinality(Writing) <= MaxWrites
    /\ \A c \in Clients : op[c] = NoOp <=> pc[c] = "idle"
    /\ writer["loop"] \in {"pause", "writing", "truncated", "off"}
    /\ writer["stop"] \in {"off", "waiting", "writing", "truncated", "closed"}
    /\ writer["stop"] \notin {"off", "waiting"} => writer["loop"] = "off"
    /\ writer["loop"] = "off" => ~ Running
    /\ ~ Running => \A c \in Clients : pc[c] = "idle"
    /\ \A w \in Writers : copy[w].len <= Len(log)

\* Until a load fails: a client only loads what is clean, what is being
\* written is the whole log, and the backend holds a prefix of it.
Sound ==
    /\ ReadsSeeWrites
    /\ CleanIsSaved
    /\ disk = Store!Contents(SubSeq(log, 1, saved))
    /\ dirty => loaded
    /\ \A c \in Clients : pc[c] = "loading" => ~ dirty
    /\ \A w \in Writers : writer[w] \in {"writing", "truncated"} =>
          dirty /\ copy[w] = [data |-> Store!Contents(log), len |-> Len(log)]
    /\ writer["stop"] = "closed" /\ ~ broken => ~ dirty

-----------------------------------------------------------------------------
(* What an operation does under the lock *)

Wrote(base, e) ==
    /\ log' = Append(log, e)
    /\ cache' = [base EXCEPT ![e.name] = IF e.del THEN 0 ELSE Len(log) + 1]
    /\ dirty' = TRUE
    /\ snapshot' = [snapshot EXCEPT ![e.name] = NoSnapshot]
    /\ reply' = reply

Found(c, base, n) ==
    /\ reply' = [reply EXCEPT ![c] = base[n]]
    /\ snapshot' \in {snapshot, [snapshot EXCEPT ![n] = base[n]]}
    /\ cache' = base /\ log' = log /\ dirty' = dirty

Skipped(base, n) ==
    /\ snapshot' = [snapshot EXCEPT ![n] = NoSnapshot]
    /\ cache' = base /\ log' = log /\ dirty' = dirty /\ reply' = reply

LEMMA OpRunning ==
    ASSUME TypeOK, Control, NEW c \in Clients, pc[c] # "idle"
    PROVE  op[c] \in Ops /\ op[c] # NoOp
  BY DEF TypeOK, Control

LEMMA ApplyCases ==
    ASSUME TypeOK, Control, NEW c \in Clients, pc[c] # "idle", NEW base, Apply(c, base)
    PROVE  \/ IsWrite(op[c]) /\ \E e \in Store!Entries : Wrote(base, e)
           \/ \E n \in Names : Found(c, base, n)
           \/ \E n \in Names : Skipped(base, n)
<1> DEFINE n == op[c].name
           e(del) == [name |-> n, del |-> del]
<1>1. /\ op[c].kind \in {"get", "lookup", "set", "delete"} /\ n \in Names
      /\ e(TRUE) \in Store!Entries /\ e(FALSE) \in Store!Entries
  BY OpRunning DEF Ops, Store!Entries
<1>2. CASE op[c].kind \in {"get", "lookup"}
  <2>1. Found(c, base, n)
    BY <1>2 DEF Apply, Found
  <2>2. QED
    BY <1>1, <2>1
<1>3. CASE op[c].kind = "set"
  <2>1. Wrote(base, e(FALSE)) /\ IsWrite(op[c])
    BY <1>3 DEF Apply, Wrote, IsWrite
  <2>2. QED
    BY <1>1, <2>1
<1>4. CASE op[c].kind = "delete" /\ base[n] # 0
  <2>1. Wrote(base, e(TRUE)) /\ IsWrite(op[c])
    BY <1>4 DEF Apply, Wrote, IsWrite
  <2>2. QED
    BY <1>1, <2>1
<1>5. CASE op[c].kind = "delete" /\ base[n] = 0
  <2>1. Skipped(base, n)
    BY <1>5 DEF Apply, Skipped
  <2>2. QED
    BY <1>1, <2>1
<1>6. QED
  BY <1>1, <1>2, <1>3, <1>4, <1>5

-----------------------------------------------------------------------------
(* Types and control, whatever fails *)

LEMMA WritingFinite == IsFiniteSet(Writing) /\ Cardinality(Writing) \in Nat
<1>1. IsFiniteSet(Writing)
  BY StorageAssumption, FS_Subset DEF Writing
<1>2. QED
  BY <1>1, FS_CardinalityType

\* An operation that ends gives back the room it had in the log.
LEMMA ReturnRoom ==
    ASSUME TypeOK, NEW c \in Clients, Return(c)
    PROVE  /\ Cardinality(Writing') \in Nat
           /\ Cardinality(Writing') = IF IsWrite(op[c]) THEN Cardinality(Writing) - 1
                                                        ELSE Cardinality(Writing)
<1>1. Writing' = Writing \ {c}
  BY DEF Return, TypeOK, Writing, IsWrite, NoOp
<1>2. c \in Writing <=> IsWrite(op[c])
  BY DEF Writing
<1> DEFINE W == Writing
<1>3. IsFiniteSet(W) /\ Cardinality(W) \in Nat
  BY WritingFinite
<1> HIDE DEF W
<1>4. /\ IsFiniteSet(W \ {c})
      /\ Cardinality(W \ {c}) = IF c \in W THEN Cardinality(W) - 1 ELSE Cardinality(W)
  BY <1>3, FS_RemoveElement
<1>5. Cardinality(W \ {c}) \in Nat
  BY <1>4, FS_CardinalityType
<1>6. QED
  BY <1>1, <1>2, <1>4, <1>5 DEF W

LEMMA ReturnType ==
    ASSUME TypeOK, Control, NEW c \in Clients, Return(c)
    PROVE  /\ pc' \in [Clients -> {"idle", "waiting", "loading"}]
           /\ op' \in [Clients -> Ops \cup {NoOp}]
           /\ \A d \in Clients : op'[d] = NoOp <=> pc'[d] = "idle"
           /\ pc' = [pc EXCEPT ![c] = "idle"]
  BY DEF TypeOK, Control, Return

LEMMA ApplyType ==
    ASSUME TypeOK, Control, NEW c \in Clients, pc[c] # "idle", NEW base \in Data,
           Apply(c, base), Return(c)
    PROVE  /\ log' \in Seq(Store!Entries) /\ saved \in 0..Len(log')
           /\ \A w \in Writers : copy[w].len <= Len(log')
           /\ Len(log') + Cardinality(Writing') <= MaxWrites
           /\ cache' \in Data /\ dirty' \in BOOLEAN
           /\ snapshot' \in [Names -> Versions \cup {NoSnapshot}]
           /\ reply' \in [Clients -> Versions]
<1> DEFINE Typed ==
              /\ log' \in Seq(Store!Entries) /\ saved \in 0..Len(log')
              /\ Len(log') + Cardinality(Writing') <= MaxWrites
              /\ cache' \in Data /\ dirty' \in BOOLEAN
              /\ snapshot' \in [Names -> Versions \cup {NoSnapshot}]
              /\ reply' \in [Clients -> Versions]
<1>1. /\ Len(log) \in Nat /\ Cardinality(Writing) \in Nat /\ Cardinality(Writing') \in Nat
      /\ Cardinality(Writing') = IF IsWrite(op[c]) THEN Cardinality(Writing) - 1
                                                   ELSE Cardinality(Writing)
      /\ Len(log) + Cardinality(Writing) <= MaxWrites /\ MaxWrites \in Nat
      /\ saved \in 0..Len(log)
  BY WritingFinite, ReturnRoom, StorageAssumption DEF TypeOK, Control
<1>2. ASSUME IsWrite(op[c]), NEW e \in Store!Entries, Wrote(base, e)
      PROVE  Typed
  <2>1. /\ log' \in Seq(Store!Entries) /\ Len(log') = Len(log) + 1
    BY <1>2, AppendProperties DEF Wrote, TypeOK
  <2>2. Len(log') + Cardinality(Writing') <= MaxWrites /\ Len(log) + 1 \in Versions
    BY <1>1, <1>2, <2>1 DEF Versions
  <2>3. cache' \in Data /\ dirty' = TRUE
    BY <1>1, <1>2, <2>2 DEF Wrote, Data, Versions, Store!Entries
  <2>4. snapshot' \in [Names -> Versions \cup {NoSnapshot}] /\ reply' = reply
    BY <1>2 DEF Wrote, TypeOK
  <2>5. QED
    BY <1>1, <2>1, <2>2, <2>3, <2>4 DEF TypeOK
<1>3. ASSUME NEW n \in Names, Found(c, base, n)
      PROVE  Typed
  BY <1>1, <1>3 DEF TypeOK, Found, Data
<1>4. ASSUME NEW n \in Names, Skipped(base, n)
      PROVE  Typed
  BY <1>1, <1>4 DEF TypeOK, Skipped
<1>5. Typed
  BY <1>2, <1>3, <1>4, ApplyCases
<1>6. Len(log) <= Len(log')
  <2>1. \A e \in Store!Entries : Wrote(base, e) => Len(log') = Len(log) + 1
    BY AppendProperties DEF Wrote, TypeOK
  <2>2. (\E e \in Store!Entries : Wrote(base, e)) \/ log' = log
    BY ApplyCases DEF Found, Skipped
  <2>3. QED
    BY <1>1, <2>1, <2>2
<1>7. \A w \in Writers : copy[w].len \in Nat /\ copy[w].len <= Len(log)
  BY DEF TypeOK, Control, Versions
<1>8. \A w \in Writers : copy[w].len <= Len(log')
  BY <1>1, <1>5, <1>6, <1>7
<1>9. QED
  BY <1>5, <1>8

LEMMA InitType == Init => TypeOK /\ Control
<1> SUFFICES ASSUME Init
             PROVE  TypeOK /\ Control
  OBVIOUS
<1>1. Absent \in Data /\ NoCopy \in [data : Data, len : Versions] /\ 0 \in Versions
  BY StorageAssumption DEF Absent, Data, Versions, NoCopy
<1>2. /\ log = <<>> /\ log \in Seq(Store!Entries) /\ Len(log) = 0 /\ saved \in 0..Len(log)
  BY DEF Init
<1>3. Cardinality(Writing) = 0
  <2>1. Writing = {}
    BY DEF Init, Writing, IsWrite, NoOp
  <2>2. QED
    BY <2>1, FS_EmptySet
<1>4. Control
  BY <1>2, <1>3, StorageAssumption DEF Init, Control, Running, Writers, NoCopy
<1>5. /\ snapshot \in [Names -> Versions \cup {NoSnapshot}]
      /\ pc \in [Clients -> {"idle", "waiting", "loading"}]
      /\ op \in [Clients -> Ops \cup {NoOp}] /\ reply \in [Clients -> Versions]
  BY <1>1 DEF Init
<1>6. /\ writer \in [Writers -> {"pause", "writing", "truncated", "off", "waiting", "closed"}]
      /\ writer["loop"] = "pause" /\ writer["stop"] = "off"
  BY DEF Init, Writers
<1>7. /\ copy \in [Writers -> [data : Data, len : Versions]]
      /\ cache \in Data /\ disk \in Data
  BY <1>1 DEF Init
<1>8. faults \in [write : 0..MaxWriteFailures, load : 0..MaxLoadFailures, crash : 0..MaxCrashes]
  BY StorageAssumption DEF Init
<1>9. /\ <<loaded, fresh, dirty, torn, broken>> \in BOOLEAN \X BOOLEAN \X BOOLEAN \X BOOLEAN \X BOOLEAN
      /\ lock = "free"
      /\ \A c \in Clients : lock = c <=> pc[c] = "loading"
      /\ \A w \in Writers : lock = w <=> writer[w] \in {"writing", "truncated"}
  BY <1>6, StorageAssumption DEF Init, Writers
<1>10. QED
  BY <1>1, <1>2, <1>4, <1>5, <1>6, <1>7, <1>8, <1>9 DEF TypeOK

\* An operation begins only if the log has room for its write.
LEMMA CallRoom ==
    ASSUME TypeOK, Control, NEW c \in Clients, NEW o \in Ops, Call(c, o)
    PROVE  Len(log') + Cardinality(Writing') <= MaxWrites
<1>1. Cardinality(Writing') \in Nat /\ Cardinality(Writing) \in Nat /\ Len(log) \in Nat
  <2>1. IsFiniteSet(Writing')
    BY StorageAssumption, FS_Subset DEF Writing
  <2>2. QED
    BY <2>1, WritingFinite, FS_CardinalityType DEF TypeOK
<1>2. op' = [op EXCEPT ![c] = o] /\ log' = log
  BY DEF Call
<1>3. CASE IsWrite(o)
  <2>1. Writing' = Writing \cup {c}
    BY <1>2, <1>3 DEF Writing, TypeOK, IsWrite
  <2>2. Cardinality(Writing') <= Cardinality(Writing) + 1
    <3> DEFINE W == Writing
    <3>1. IsFiniteSet(W)
      BY WritingFinite
    <3> HIDE DEF W
    <3>2. Cardinality(W \cup {c}) = IF c \in W THEN Cardinality(W) ELSE Cardinality(W) + 1
      BY <3>1, FS_AddElement
    <3>3. QED
      BY <1>1, <2>1, <3>2 DEF W
  <2>3. Len(log) + Cardinality(Writing) < MaxWrites
    BY <1>3 DEF Call, Writing
  <2>4. QED
    BY <1>1, <1>2, <2>2, <2>3, StorageAssumption
<1>4. CASE ~ IsWrite(o)
  <2>1. Writing' \subseteq Writing
    BY <1>2, <1>4 DEF Writing, TypeOK, IsWrite
  <2>2. Cardinality(Writing') <= Cardinality(Writing)
    BY <2>1, WritingFinite, FS_Subset
  <2>3. QED
    BY <1>1, <1>2, <2>2, StorageAssumption DEF Control
<1>5. QED
  BY <1>3, <1>4

LEMMA ClientType ==
    ASSUME TypeOK, Control, NEW c \in Clients,
           \/ \E n \in Names : Hit(c, n)
           \/ \E o \in Ops : Call(c, o)
           \/ ClientStep(c)
    PROVE  (TypeOK /\ Control)'
<1>1. ASSUME NEW n \in Names, Hit(c, n)
      PROVE  (TypeOK /\ Control)'
  <2>1. reply' \in [Clients -> Versions]
    BY <1>1 DEF TypeOK, Hit
  <2>2. TypeOK'
    BY <1>1, <2>1 DEF TypeOK, Hit, cacheVars, diskVars
  <2>3. Control'
    BY <1>1 DEF Control, Hit, Writing, Running, cacheVars, diskVars
  <2>4. QED
    BY <2>2, <2>3
<1>2. ASSUME NEW o \in Ops, Call(c, o)
      PROVE  (TypeOK /\ Control)'
  <2>1. /\ pc' \in [Clients -> {"idle", "waiting", "loading"}]
        /\ op' \in [Clients -> Ops \cup {NoOp}]
        /\ \A d \in Clients : pc'[d] = "loading" <=> pc[d] = "loading"
    BY <1>2 DEF TypeOK, Call
  <2>2. \A d \in Clients : op'[d] = NoOp <=> pc'[d] = "idle"
    BY <1>2 DEF TypeOK, Control, Call, NoOp, Ops
  <2>3. TypeOK'
    BY <1>2, <2>1 DEF TypeOK, Call, cacheVars, diskVars
  <2>4. Control'
    BY <1>2, <2>2, CallRoom DEF Control, Call, Running, cacheVars, diskVars
  <2>5. QED
    BY <2>3, <2>4
<1>3. CASE Acquire(c)
  <2>1. pc[c] = "waiting" /\ lock = "free" /\ Running
    BY <1>3 DEF Acquire, Control
  <2>2. CASE NeedsLoad
    <3>1. /\ pc' = [pc EXCEPT ![c] = "loading"] /\ lock' = c
          /\ UNCHANGED <<log, cacheVars, reply, op, writer, copy, diskVars, broken, faults>>
      BY <1>3, <2>2 DEF Acquire, cacheVars
    <3>2. /\ pc' \in [Clients -> {"idle", "waiting", "loading"}]
          /\ \A d \in Clients : lock' = d <=> pc'[d] = "loading"
          /\ \A w \in Writers : lock' = w <=> writer'[w] \in {"writing", "truncated"}
          /\ \A d \in Clients : op'[d] = NoOp <=> pc'[d] = "idle"
      BY <2>1, <3>1, StorageAssumption DEF TypeOK, Control, Writers
    <3>3. TypeOK'
      BY <3>1, <3>2 DEF TypeOK, cacheVars, diskVars
    <3>4. Control'
      BY <2>1, <3>1, <3>2 DEF Control, Writing, Running, cacheVars, diskVars
    <3>5. QED
      BY <3>3, <3>4
  <2>3. CASE ~ NeedsLoad
    <3>1. Apply(c, cache) /\ Return(c) /\ cache \in Data
      BY <1>3, <2>3 DEF Acquire, TypeOK
    <3>2. UNCHANGED <<lock, loaded, fresh, writer, copy, diskVars, broken, faults>>
      BY <1>3, <2>3 DEF Acquire
    <3>3. \A d \in Clients : lock' = d <=> pc'[d] = "loading"
      BY <2>1, <3>1, <3>2 DEF Return, TypeOK
    <3>4. TypeOK'
      BY <2>1, <3>1, <3>2, <3>3, ApplyType, ReturnType DEF TypeOK, diskVars
    <3>5. Control'
      BY <2>1, <3>1, <3>2, ApplyType, ReturnType DEF Control, Running, diskVars
    <3>6. QED
      BY <3>4, <3>5
  <2>4. QED
    BY <2>2, <2>3
<1>4. ASSUME NEW data \in Data, Load(c, data),
             faults' \in [write : 0..MaxWriteFailures, load : 0..MaxLoadFailures,
                          crash : 0..MaxCrashes]
      PROVE  (TypeOK /\ Control)'
  <2>1. pc[c] = "loading" /\ lock = c /\ Running
    BY <1>4 DEF Load, Control, TypeOK
  <2>2. Apply(c, data) /\ Return(c)
    BY <1>4 DEF Load
  <2>3. /\ loaded' = TRUE /\ fresh' = TRUE /\ lock' = "free"
        /\ UNCHANGED <<writer, copy, diskVars, broken>>
    BY <1>4 DEF Load
  <2>4. /\ \A d \in Clients : lock' = d <=> pc'[d] = "loading"
        /\ \A w \in Writers : lock' = w <=> writer'[w] \in {"writing", "truncated"}
    BY <2>1, <2>2, <2>3, StorageAssumption DEF Return, TypeOK, Writers
  <2>5. TypeOK'
    BY <1>4, <2>1, <2>2, <2>3, <2>4, ApplyType, ReturnType DEF TypeOK, diskVars
  <2>6. Control'
    BY <2>1, <2>2, <2>3, ApplyType, ReturnType DEF Control, Running, diskVars
  <2>7. QED
    BY <2>5, <2>6
<1>5. Absent \in Data /\ disk \in Data
  BY StorageAssumption DEF Absent, Data, Versions, TypeOK
<1>6. CASE LoadSucceeds(c)
  <2>1. /\ Load(c, IF torn THEN Absent ELSE disk)
        /\ (IF torn THEN Absent ELSE disk) \in Data
        /\ faults' = faults
    BY <1>5, <1>6 DEF LoadSucceeds
  <2>2. QED
    BY <1>4, <2>1 DEF TypeOK
<1>7. CASE LoadFails(c)
  <2>1. faults' \in [write : 0..MaxWriteFailures, load : 0..MaxLoadFailures,
                     crash : 0..MaxCrashes]
    BY <1>7, StorageAssumption DEF LoadFails, TypeOK
  <2>2. QED
    BY <1>4, <1>5, <1>7, <2>1 DEF LoadFails
<1>8. QED
  BY <1>1, <1>2, <1>3, <1>6, <1>7 DEF ClientStep

LEMMA WriterType ==
    ASSUME TypeOK, Control, LoopWrites \/ \E w \in Writers : WriteStep(w)
    PROVE  (TypeOK /\ Control)'
<1> USE DEF Writers
<1>1. Len(log) \in Versions /\ NoCopy \in [data : Data, len : Versions]
  BY StorageAssumption, WritingFinite
     DEF TypeOK, Control, Versions, NoCopy, Data, Absent
<1>2. CASE LoopWrites
  <2>1. /\ lock = "free" /\ lock' = "loop"
        /\ copy' = [copy EXCEPT !["loop"] = [data |-> cache, len |-> Len(log)]]
        /\ writer' = [writer EXCEPT !["loop"] = "writing"]
        /\ UNCHANGED <<log, cacheVars, clientVars, diskVars, broken, faults>>
    BY <1>2 DEF LoopWrites, Begin
  <2>2. copy' \in [Writers -> [data : Data, len : Versions]]
    BY <1>1, <2>1 DEF TypeOK
  <2>3. TypeOK'
    BY <2>1, <2>2, StorageAssumption DEF TypeOK, cacheVars, clientVars, diskVars
  <2>4. Control'
    BY <1>2, <2>1 DEF LoopWrites, TypeOK, Control, Writing, Running, clientVars
  <2>5. QED
    BY <2>3, <2>4
<1>3. ASSUME NEW w \in Writers, Truncate(w)
      PROVE  (TypeOK /\ Control)'
  <2>1. TypeOK'
    BY <1>3 DEF Truncate, TypeOK, cacheVars, clientVars
  <2>2. Control'
    BY <1>3 DEF Truncate, TypeOK, Control, Writing, Running, clientVars
  <2>3. QED
    BY <2>1, <2>2
<1>4. ASSUME NEW w \in Writers, writer[w] \in {"writing", "truncated"}, EndWrite(w)
      PROVE  /\ lock' \in {"free"} /\ copy' \in [Writers -> [data : Data, len : Versions]]
             /\ writer' \in [Writers -> {"pause", "writing", "truncated", "off", "waiting",
                                         "closed"}]
             /\ \A x \in Writers : lock' = x <=> writer'[x] \in {"writing", "truncated"}
             /\ \A c \in Clients : lock' = c <=> pc[c] = "loading"
             /\ writer'["loop"] \in {"pause", "writing", "truncated", "off"}
             /\ writer'["stop"] \in {"off", "waiting", "writing", "truncated", "closed"}
             /\ writer'["stop"] \notin {"off", "waiting"} => writer'["loop"] = "off"
             /\ writer'["loop"] = "off" => writer'["stop"] # "off"
             /\ writer'["stop"] = "off" <=> writer["stop"] = "off"
             /\ \A x \in Writers : copy'[x].len <= Len(log)
  <2>1. copy' \in [Writers -> [data : Data, len : Versions]]
    BY <1>1, <1>4 DEF EndWrite, TypeOK
  <2>2. \A x \in Writers : copy'[x].len <= Len(log)
    BY <1>1, <1>4 DEF EndWrite, TypeOK, Control, NoCopy, Versions
  <2>3. QED
    BY <1>4, <2>1, <2>2, StorageAssumption DEF EndWrite, TypeOK, Control, Running
<1>5. ASSUME NEW w \in Writers, WriteSucceeds(w)
      PROVE  (TypeOK /\ Control)'
  <2>1. writer[w] \in {"writing", "truncated"} /\ EndWrite(w)
    BY <1>5 DEF WriteSucceeds
  <2>2. disk' \in Data /\ saved' \in 0..Len(log)
    BY <1>5 DEF WriteSucceeds, TypeOK, Control, Versions
  <2>3. TypeOK'
    BY <1>4, <1>5, <2>1, <2>2 DEF WriteSucceeds, TypeOK, clientVars
  <2>4. Control'
    BY <1>4, <1>5, <2>1 DEF WriteSucceeds, Control, Writing, Running, clientVars
  <2>5. QED
    BY <2>3, <2>4
<1>6. ASSUME NEW w \in Writers, WriteFails(w)
      PROVE  (TypeOK /\ Control)'
  <2>1. writer[w] \in {"writing", "truncated"} /\ EndWrite(w)
    BY <1>6 DEF WriteFails
  <2>2. faults' \in [write : 0..MaxWriteFailures, load : 0..MaxLoadFailures,
                     crash : 0..MaxCrashes]
    <3>1. faults.write + 1 \in 0..MaxWriteFailures
      BY <1>6, StorageAssumption DEF WriteFails, TypeOK
    <3>2. QED
      BY <1>6, <3>1 DEF WriteFails, TypeOK
  <2>3. TypeOK'
    BY <1>4, <1>6, <2>1, <2>2 DEF WriteFails, TypeOK, cacheVars, clientVars, diskVars
  <2>4. Control'
    BY <1>4, <1>6, <2>1 DEF WriteFails, Control, Writing, Running, clientVars
  <2>5. QED
    BY <2>3, <2>4
<1>7. QED
  BY <1>2, <1>3, <1>5, <1>6 DEF WriteStep

LEMMA CrashType ==
    ASSUME TypeOK, Control, Crash
    PROVE  (TypeOK /\ Control)'
<1>1. /\ Absent \in Data /\ NoCopy \in [data : Data, len : Versions] /\ NoCopy.len = 0
      /\ Len(log) \in Nat /\ saved \in 0..Len(log) /\ Len(log) <= MaxWrites
  BY StorageAssumption, WritingFinite DEF Absent, Data, Versions, NoCopy, TypeOK, Control
<1>2. /\ log' \in Seq(Store!Entries) /\ saved' \in 0..Len(log') /\ Len(log') <= Len(log)
      /\ disk' \in Data
  <2>1. CASE torn
    BY <1>1, <2>1 DEF Crash
  <2>2. CASE ~ torn
    <3>1. /\ SubSeq(log, 1, saved) \in Seq(Store!Entries)
          /\ Len(SubSeq(log, 1, saved)) = saved
      <4>1. \A i \in 1..saved : log[i] \in Store!Entries
        BY <1>1 DEF TypeOK
      <4>2. /\ SubSeq(log, 1, saved) \in Seq(Store!Entries)
            /\ Len(SubSeq(log, 1, saved)) = IF 1 <= saved THEN saved - 1 + 1 ELSE 0
        BY <1>1, <4>1, SubSeqProperties
      <4>3. QED
        BY <1>1, <4>2
    <3>2. QED
      BY <1>1, <2>2, <3>1 DEF Crash, TypeOK
  <2>3. QED
    BY <2>1, <2>2
<1>3. Cardinality(Writing') = 0
  <2>1. Writing' = {}
    BY DEF Crash, Writing, IsWrite, NoOp
  <2>2. QED
    BY <2>1, FS_EmptySet
<1>4. /\ pc' = [c \in Clients |-> "idle"] /\ op' = [c \in Clients |-> NoOp]
      /\ lock' = "free" /\ writer' = [loop |-> "pause", stop |-> "off"]
      /\ copy' = [w \in Writers |-> NoCopy]
      /\ loaded' = FALSE /\ fresh' = FALSE /\ dirty' = FALSE /\ torn' = FALSE /\ broken' = FALSE
      /\ snapshot' = [n \in Names |-> NoSnapshot] /\ cache' = Absent /\ reply' = reply
  BY DEF Crash
<1>5. faults' \in [write : 0..MaxWriteFailures, load : 0..MaxLoadFailures,
                   crash : 0..MaxCrashes]
  <2>1. faults.crash + 1 \in 0..MaxCrashes
    BY StorageAssumption DEF Crash, TypeOK
  <2>2. QED
    BY <2>1 DEF Crash, TypeOK
<1>6. TypeOK'
  <2>1. /\ lock' \in {"free", "loop", "stop"} \cup Clients
        /\ snapshot' \in [Names -> Versions \cup {NoSnapshot}]
        /\ pc' \in [Clients -> {"idle", "waiting", "loading"}]
        /\ op' \in [Clients -> Ops \cup {NoOp}]
        /\ writer' \in [Writers -> {"pause", "writing", "truncated", "off", "waiting", "closed"}]
        /\ copy' \in [Writers -> [data : Data, len : Versions]]
        /\ \A c \in Clients : lock' = c <=> pc'[c] = "loading"
        /\ \A w \in Writers : lock' = w <=> writer'[w] \in {"writing", "truncated"}
    BY <1>1, <1>4, StorageAssumption DEF Writers
  <2>2. QED
    BY <1>1, <1>2, <1>4, <1>5, <2>1 DEF TypeOK
<1>7. Control'
  BY <1>1, <1>2, <1>3, <1>4, StorageAssumption DEF Control, Running, Writers
<1>8. QED
  BY <1>6, <1>7

LEMMA TypeStep == TypeOK /\ Control /\ [Next]_vars => (TypeOK /\ Control)'
<1> SUFFICES ASSUME TypeOK, Control, [Next]_vars
             PROVE  (TypeOK /\ Control)'
  OBVIOUS
<1>1. ASSUME NEW c \in Clients,
             \/ \E n \in Names : Hit(c, n)
             \/ \E o \in Ops : Call(c, o)
             \/ ClientStep(c)
      PROVE  (TypeOK /\ Control)'
  BY <1>1, ClientType
<1>2. CASE LoopWrites \/ \E w \in Writers : WriteStep(w)
  BY <1>2, WriterType
<1>3. CASE CacheExpires
  <2>1. TypeOK'
    BY <1>3 DEF CacheExpires, TypeOK, clientVars, diskVars
  <2>2. Control'
    BY <1>3 DEF CacheExpires, Control, Writing, Running, clientVars
  <2>3. QED
    BY <2>1, <2>2
<1>4. ASSUME NEW n \in Names, SnapshotExpires(n)
      PROVE  (TypeOK /\ Control)'
  <2>1. TypeOK'
    BY <1>4 DEF SnapshotExpires, TypeOK, clientVars, diskVars
  <2>2. Control'
    BY <1>4 DEF SnapshotExpires, Control, Writing, Running, clientVars
  <2>3. QED
    BY <2>1, <2>2
<1>5. CASE LoopEnds
  <2>1. TypeOK'
    BY <1>5 DEF LoopEnds, TypeOK, Writers, cacheVars, clientVars, diskVars
  <2>2. Control'
    BY <1>5 DEF LoopEnds, TypeOK, Control, Writers, Writing, Running, clientVars
  <2>3. QED
    BY <2>1, <2>2
<1>6. CASE LoopCancelled
  <2>1. NoCopy \in [data : Data, len : Versions] /\ NoCopy.len = 0 /\ Len(log) \in Nat
    BY StorageAssumption DEF NoCopy, Absent, Data, Versions, TypeOK
  <2>2. /\ lock = "loop" /\ lock' = "free" /\ writer["loop"] \in {"writing", "truncated"}
        /\ writer' = [writer EXCEPT !["loop"] = "off"] /\ writer["stop"] = "waiting"
        /\ copy' = [copy EXCEPT !["loop"] = NoCopy]
        /\ UNCHANGED <<log, cacheVars, clientVars, diskVars, broken, faults>>
    BY <1>6 DEF LoopCancelled, TypeOK, Writers
  <2>3. TypeOK'
    <3>1. copy' \in [Writers -> [data : Data, len : Versions]]
      BY <2>1, <2>2 DEF TypeOK
    <3>2. QED
      BY <2>2, <3>1, StorageAssumption DEF TypeOK, Writers, cacheVars, clientVars, diskVars
  <2>4. Control'
    BY <2>1, <2>2 DEF TypeOK, Control, Writers, Writing, Running, clientVars
  <2>5. QED
    BY <2>3, <2>4
<1>7. CASE Stop
  <2>1. TypeOK'
    BY <1>7 DEF Stop, Running, TypeOK, Writers, cacheVars, clientVars, diskVars
  <2>2. Control'
    BY <1>7 DEF Stop, TypeOK, Control, Writers, Writing, Running, clientVars
  <2>3. QED
    BY <2>1, <2>2
<1>8. CASE Flush
  <2>1. CASE Begin("stop")
    <3>1. /\ lock = "free" /\ lock' = "stop"
          /\ copy' = [copy EXCEPT !["stop"] = [data |-> cache, len |-> Len(log)]]
          /\ writer' = [writer EXCEPT !["stop"] = "writing"]
          /\ writer["stop"] = "waiting" /\ writer["loop"] = "off"
          /\ UNCHANGED <<log, cacheVars, clientVars, diskVars, broken, faults>>
      BY <1>8, <2>1 DEF Flush, Begin
    <3>2. Len(log) \in Versions
      BY StorageAssumption, WritingFinite DEF TypeOK, Control, Versions
    <3>3. copy' \in [Writers -> [data : Data, len : Versions]]
      BY <3>1, <3>2 DEF TypeOK, Writers
    <3>4. TypeOK'
      BY <3>1, <3>3, StorageAssumption DEF TypeOK, Writers, cacheVars, clientVars, diskVars
    <3>5. Control'
      BY <3>1, <3>2 DEF TypeOK, Control, Writers, Writing, Running, Versions, clientVars
    <3>6. QED
      BY <3>4, <3>5
  <2>2. CASE ~ Begin("stop")
    <3>1. /\ writer["stop"] = "waiting" /\ writer["loop"] = "off"
          /\ writer' = [writer EXCEPT !["stop"] = "closed"]
          /\ UNCHANGED <<log, cacheVars, lock, clientVars, copy, diskVars, broken, faults>>
      BY <1>8, <2>2 DEF Flush
    <3>2. TypeOK'
      BY <3>1 DEF TypeOK, Writers, cacheVars, clientVars, diskVars
    <3>3. Control'
      BY <3>1 DEF TypeOK, Control, Writers, Writing, Running, clientVars
    <3>4. QED
      BY <3>2, <3>3
  <2>3. QED
    BY <2>1, <2>2
<1>9. CASE Crash
  BY <1>9, CrashType
<1>10. CASE UNCHANGED vars
  <2>1. TypeOK'
    BY <1>10 DEF vars, TypeOK, cacheVars, clientVars, diskVars
  <2>2. Control'
    BY <1>10 DEF vars, Control, Writing, Running, clientVars
  <2>3. QED
    BY <2>1, <2>2
<1>11. QED
  BY <1>1, <1>2, <1>3, <1>4, <1>5, <1>6, <1>7, <1>8, <1>9, <1>10 DEF Next

-----------------------------------------------------------------------------
(* Contents, until a load fails *)

\* A write leaves every saved prefix of the log as it is.
LEMMA PrefixKept ==
    ASSUME NEW l \in Seq(Store!Entries), NEW e \in Store!Entries, NEW k \in 0..Len(l)
    PROVE  SubSeq(Append(l, e), 1, k) = SubSeq(l, 1, k)
<1>1. CASE k = 0
  BY <1>1, SubSeqEmpty
<1>2. CASE k # 0
  <2>1. Append(l, e) = l \o <<e>> /\ <<e>> \in Seq(Store!Entries)
    BY AppendIsConcat
  <2>2. 1 \in 1..Len(l) /\ k \in 1..Len(l)
    BY <1>2
  <2>3. SubSeq(l \o <<e>>, 1, k) = SubSeq(l, 1, k)
    BY <2>1, <2>2, SubSeqOfConcat1
  <2>4. QED
    BY <2>1, <2>3
<1>3. QED
  BY <1>1, <1>2

\* What the cache and the snapshot answer from is what the log says.
SeesLog(data) ==
    /\ data = Store!Contents(log)
    /\ \A n \in Names : snapshot[n] # NoSnapshot => snapshot[n] = Store!Latest(log, n)

LEMMA SeesLogIffReads ==
    ASSUME TypeOK, loaded
    PROVE  ReadsSeeWrites <=> SeesLog(cache)
<1>1. cache = [n \in Names |-> cache[n]]
  BY DEF TypeOK, Data
<1>2. QED
  BY <1>1 DEF ReadsSeeWrites, SeesLog, Store!Contents

\* Applied to the contents of the log, an operation is one step of the store,
\* and what it leaves behind agrees with the log again.
LEMMA ApplySound ==
    ASSUME TypeOK, Control, NEW c \in Clients, pc[c] # "idle",
           NEW base, SeesLog(base), Apply(c, base)
    PROVE  /\ cache' = Store!Contents(log')
           /\ \A n \in Names : snapshot'[n] # NoSnapshot => snapshot'[n] = Store!Latest(log', n)
           /\ ~ dirty' => log' = log /\ dirty' = dirty
           /\ dirty => dirty'
           /\ SubSeq(log', 1, saved) = SubSeq(log, 1, saved)
           /\ [Store!Next]_(Store!store)
<1> DEFINE Good ==
              /\ cache' = Store!Contents(log')
              /\ \A n \in Names :
                    snapshot'[n] # NoSnapshot => snapshot'[n] = Store!Latest(log', n)
              /\ ~ dirty' => log' = log /\ dirty' = dirty
              /\ dirty => dirty'
              /\ SubSeq(log', 1, saved) = SubSeq(log, 1, saved)
              /\ [Store!Next]_(Store!store)
<1>1. /\ log \in Seq(Store!Entries) /\ saved \in 0..Len(log) /\ DOMAIN snapshot = Names
      /\ base = Store!Contents(log)
      /\ \A n \in Names : snapshot[n] # NoSnapshot => snapshot[n] = Store!Latest(log, n)
  BY DEF TypeOK, SeesLog
<1>2. ASSUME NEW e \in Store!Entries, Wrote(base, e)
      PROVE  Good
  <2>1. cache' = Store!Contents(log')
    BY <1>1, <1>2, ContentsAppend DEF Wrote
  <2>2. ASSUME NEW n \in Names, snapshot'[n] # NoSnapshot
        PROVE  snapshot'[n] = Store!Latest(log', n)
    <3>1. n # e.name /\ snapshot'[n] = snapshot[n]
      BY <1>1, <1>2, <2>2 DEF Wrote
    <3>2. Store!Latest(Append(log, e), n) = Store!Latest(log, n)
      BY <1>1, <3>1, LatestAppend
    <3>3. QED
      BY <1>1, <1>2, <2>2, <3>1, <3>2 DEF Wrote
  <2>3. SubSeq(log', 1, saved) = SubSeq(log, 1, saved)
    BY <1>1, <1>2, PrefixKept DEF Wrote
  <2>4. Store!Next
    BY <1>2 DEF Wrote, Store!Next, Store!Write
  <2>5. dirty'
    BY <1>2 DEF Wrote
  <2>6. QED
    BY <2>1, <2>2, <2>3, <2>4, <2>5, Zenon
<1>3. ASSUME NEW n \in Names, Found(c, base, n)
      PROVE  Good
  <2>1. base[n] = Store!Latest(log, n)
    BY <1>1 DEF Store!Contents
  <2>2. Store!Next
    BY <1>3, <2>1 DEF Found, Store!Next, Store!Read
  <2>3. \A k \in Names : snapshot'[k] # NoSnapshot => snapshot'[k] = Store!Latest(log', k)
    BY <1>1, <1>3, <2>1 DEF Found
  <2>4. QED
    BY <1>1, <1>3, <2>2, <2>3 DEF Found
<1>4. ASSUME NEW n \in Names, Skipped(base, n)
      PROVE  Good
  <2>1. \A k \in Names : snapshot'[k] # NoSnapshot => snapshot'[k] = Store!Latest(log', k)
    BY <1>1, <1>4 DEF Skipped
  <2>2. QED
    BY <1>1, <1>4, <2>1 DEF Skipped, Store!store
<1>5. QED
  BY <1>2, <1>3, <1>4, ApplyCases

\* An operation on the contents of the log, from the lock to its return.
LEMMA OperationSound ==
    ASSUME TypeOK, Control, Sound, NEW c \in Clients, pc[c] # "idle", lock \in {"free", c},
           NEW base, SeesLog(base), Apply(c, base), Return(c),
           loaded' = TRUE, UNCHANGED <<writer, copy, diskVars, broken>>
    PROVE  Sound' /\ [Store!Next]_(Store!store)
<1>1. /\ cache' = Store!Contents(log')
      /\ \A n \in Names : snapshot'[n] # NoSnapshot => snapshot'[n] = Store!Latest(log', n)
      /\ ~ dirty' => log' = log /\ dirty' = dirty
      /\ SubSeq(log', 1, saved) = SubSeq(log, 1, saved)
      /\ [Store!Next]_(Store!store)
  BY ApplySound
<1>2. ReadsSeeWrites'
  BY <1>1 DEF ReadsSeeWrites, Store!Contents
<1>3. CleanIsSaved'
  BY <1>1 DEF Sound, CleanIsSaved, diskVars
<1>4. (disk = Store!Contents(SubSeq(log, 1, saved)))'
  BY <1>1 DEF Sound, diskVars
<1>5. \A d \in Clients : pc'[d] # "loading"
  BY StorageAssumption DEF Return, TypeOK
<1>6. \A w \in Writers : writer'[w] \notin {"writing", "truncated"}
  BY StorageAssumption DEF TypeOK, Writers
<1>7. writer'["stop"] # "closed"
  BY DEF Control, Running
<1>8. QED
  BY <1>1, <1>2, <1>3, <1>4, <1>5, <1>6, <1>7 DEF Sound

\* A client's step, with no failing load: what it sees and what it does to the
\* store.
LEMMA ClientSound ==
    ASSUME TypeOK, Control, Sound, NEW c \in Clients,
           \/ \E n \in Names : Hit(c, n)
           \/ \E o \in Ops : Call(c, o)
           \/ Acquire(c)
           \/ LoadSucceeds(c)
    PROVE  Sound' /\ [Store!Next]_(Store!store)
<1> USE DEF Sound
<1>1. ASSUME NEW n \in Names, Hit(c, n)
      PROVE  Sound' /\ [Store!Next]_(Store!store)
  <2>1. Sound'
    BY <1>1 DEF Hit, ReadsSeeWrites, CleanIsSaved, cacheVars, diskVars
  <2>2. Store!Next
    BY <1>1 DEF Hit, ReadsSeeWrites, Store!Next, Store!Read
  <2>3. QED
    BY <2>1, <2>2
<1>2. ASSUME NEW o \in Ops, Call(c, o)
      PROVE  Sound' /\ [Store!Next]_(Store!store)
  <2>1. \A d \in Clients : pc'[d] = "loading" => pc[d] = "loading"
    BY <1>2 DEF Call, TypeOK
  <2>2. Sound'
    BY <1>2, <2>1 DEF Call, ReadsSeeWrites, CleanIsSaved, cacheVars, diskVars
  <2>3. UNCHANGED Store!store
    BY <1>2 DEF Call, Store!store
  <2>4. QED
    BY <2>2, <2>3
<1>3. CASE Acquire(c) /\ NeedsLoad
  <2>1. ~ dirty
    BY <1>3 DEF NeedsLoad
  <2>2. /\ \A d \in Clients : pc'[d] = "loading" => d = c \/ pc[d] = "loading"
        /\ UNCHANGED <<log, cacheVars, reply, writer, copy, diskVars, broken>>
    BY <1>3 DEF Acquire, TypeOK, cacheVars
  <2>3. Sound'
    BY <2>1, <2>2 DEF ReadsSeeWrites, CleanIsSaved, cacheVars, diskVars
  <2>4. UNCHANGED Store!store
    BY <2>2 DEF Store!store
  <2>5. QED
    BY <2>3, <2>4
<1>4. CASE Acquire(c) /\ ~ NeedsLoad
  <2>1. /\ pc[c] # "idle" /\ lock = "free" /\ loaded
        /\ Apply(c, cache) /\ Return(c)
        /\ loaded' = loaded /\ UNCHANGED <<writer, copy, diskVars, broken>>
    BY <1>4 DEF Acquire, NeedsLoad
  <2>2. SeesLog(cache)
    BY <2>1, SeesLogIffReads
  <2>3. loaded \in BOOLEAN
    BY DEF TypeOK
  <2>4. QED
    BY <2>1, <2>2, <2>3, OperationSound
<1>5. CASE LoadSucceeds(c)
  <2>1. /\ pc[c] = "loading" /\ lock = c
        /\ Apply(c, IF torn THEN Absent ELSE disk) /\ Return(c)
        /\ loaded' = TRUE /\ UNCHANGED <<writer, copy, diskVars, broken>>
    BY <1>5 DEF LoadSucceeds, Load, TypeOK
  <2>2. ~ torn /\ disk = Store!Contents(log)
    BY <2>1 DEF CleanIsSaved
  <2>3. SeesLog(disk)
    BY <2>2 DEF SeesLog, ReadsSeeWrites
  <2>4. QED
    BY <2>1, <2>2, <2>3, OperationSound
<1>6. QED
  BY <1>1, <1>2, <1>3, <1>4, <1>5

LEMMA InitSound == Init => Sound
<1> SUFFICES ASSUME Init
             PROVE  Sound
  OBVIOUS
<1>1. SubSeq(log, 1, saved) = <<>> /\ log = <<>>
  BY SubSeqEmpty DEF Init
<1>2. disk = Store!Contents(<<>>) /\ ~ torn /\ saved = Len(log)
  BY <1>1, ContentsEmpty DEF Init
<1>3. ReadsSeeWrites /\ CleanIsSaved
  BY <1>1, <1>2 DEF Init, ReadsSeeWrites, CleanIsSaved
<1>4. /\ \A c \in Clients : pc[c] = "idle"
      /\ \A w \in Writers : writer[w] \notin {"writing", "truncated"}
      /\ ~ dirty /\ writer["stop"] = "off"
  BY DEF Init, Writers
<1>5. QED
  BY <1>1, <1>2, <1>3, <1>4 DEF Sound

\* What a write-back copies is the log, whole.
LEMMA BeginSound ==
    ASSUME TypeOK, Control, Sound, NEW w \in Writers, Begin(w), writer[w] # "closed"
    PROVE  Sound'
<1>1. /\ lock = "free" /\ dirty
      /\ copy' = [copy EXCEPT ![w] = [data |-> cache, len |-> Len(log)]]
      /\ writer' = [writer EXCEPT ![w] = "writing"]
      /\ UNCHANGED <<log, cacheVars, clientVars, diskVars, broken, faults>>
  BY DEF Begin
<1>2. cache = Store!Contents(log)
  BY <1>1, SeesLogIffReads DEF Sound, SeesLog
<1>3. \A x \in Writers : writer'[x] \in {"writing", "truncated"} =>
         dirty' /\ copy'[x] = [data |-> Store!Contents(log'), len |-> Len(log')]
  <2>1. \A x \in Writers : writer[x] \notin {"writing", "truncated"}
    BY <1>1, StorageAssumption DEF TypeOK, Writers
  <2>2. QED
    BY <1>1, <1>2, <2>1 DEF TypeOK, cacheVars
<1>4. ReadsSeeWrites' /\ CleanIsSaved'
  BY <1>1 DEF Sound, ReadsSeeWrites, CleanIsSaved, cacheVars, diskVars
<1>5. (writer["stop"] = "closed" /\ ~ broken => ~ dirty)'
  BY <1>1 DEF Sound, TypeOK, cacheVars
<1>6. QED
  BY <1>1, <1>3, <1>4, <1>5 DEF Sound, cacheVars, clientVars, diskVars

LEMMA EndWriteQuiet ==
    ASSUME TypeOK, Control, NEW w \in Writers, writer[w] \in {"writing", "truncated"}, EndWrite(w)
    PROVE  /\ \A x \in Writers : writer'[x] \notin {"writing", "truncated"}
           /\ writer'["stop"] = "closed" => w = "stop"
           /\ \A c \in Clients : pc[c] # "loading"
  BY StorageAssumption DEF TypeOK, Control, Writers, EndWrite

LEMMA WriterSound ==
    ASSUME TypeOK, Control, Sound, LoopWrites \/ \E w \in Writers : WriteStep(w)
    PROVE  Sound'
<1>1. CASE LoopWrites
  BY <1>1, BeginSound DEF LoopWrites, Writers
<1>2. ASSUME NEW w \in Writers, Truncate(w)
      PROVE  Sound'
  <2>1. /\ dirty /\ UNCHANGED <<log, cacheVars, clientVars, copy, disk, saved, broken>>
        /\ writer' = [writer EXCEPT ![w] = "truncated"] /\ writer[w] = "writing"
    BY <1>2 DEF Truncate, Sound
  <2>2. ReadsSeeWrites' /\ CleanIsSaved'
    BY <2>1 DEF Sound, ReadsSeeWrites, CleanIsSaved, cacheVars
  <2>3. \A x \in Writers : writer'[x] \in {"writing", "truncated"} =>
           writer[x] \in {"writing", "truncated"}
    BY <2>1 DEF TypeOK
  <2>4. writer'["stop"] = "closed" => writer["stop"] = "closed"
    BY <2>1 DEF TypeOK, Writers
  <2>5. QED
    BY <2>1, <2>2, <2>3, <2>4 DEF Sound, cacheVars, clientVars
<1>3. ASSUME NEW w \in Writers, WriteSucceeds(w)
      PROVE  Sound'
  <2>1. /\ writer[w] \in {"writing", "truncated"} /\ EndWrite(w)
        /\ disk' = copy[w].data /\ saved' = copy[w].len /\ ~ torn' /\ ~ dirty'
        /\ UNCHANGED <<log, cache, loaded, fresh, snapshot, clientVars>>
    BY <1>3 DEF WriteSucceeds
  <2>2. disk' = Store!Contents(log) /\ saved' = Len(log)
    BY <2>1 DEF Sound
  <2>3. SubSeq(log', 1, saved') = log
    BY <2>1, <2>2, SubSeqFull DEF TypeOK
  <2>4. ReadsSeeWrites' /\ CleanIsSaved'
    BY <2>1, <2>2 DEF Sound, ReadsSeeWrites, CleanIsSaved
  <2>5. QED
    BY <2>1, <2>2, <2>3, <2>4, EndWriteQuiet DEF Sound, clientVars
<1>4. ASSUME NEW w \in Writers, WriteFails(w)
      PROVE  Sound'
  <2>1. /\ writer[w] \in {"writing", "truncated"} /\ EndWrite(w) /\ broken'
        /\ UNCHANGED <<log, cacheVars, clientVars, diskVars>>
    BY <1>4 DEF WriteFails
  <2>2. ReadsSeeWrites' /\ CleanIsSaved'
    BY <2>1 DEF Sound, ReadsSeeWrites, CleanIsSaved, cacheVars, diskVars
  <2>3. QED
    BY <2>1, <2>2, EndWriteQuiet DEF Sound, cacheVars, clientVars, diskVars
<1>5. QED
  BY <1>1, <1>2, <1>3, <1>4 DEF WriteStep

\* A crash cuts the log back to what the backend has: nothing if the file was
\* truncated, a prefix otherwise.
LEMMA CrashSound ==
    ASSUME TypeOK, Control, Sound, Crash
    PROVE  Sound' /\ [Store!Next]_(Store!store)
<1>1. Len(log) \in Nat /\ saved \in 0..Len(log)
  BY DEF TypeOK
<1>2. PICK k \in 0..Len(log) : /\ log' = SubSeq(log, 1, k) /\ saved' = k
                               /\ disk' = Store!Contents(log')
  <2>1. CASE torn
    <3>1. SubSeq(log, 1, 0) = <<>>
      BY SubSeqEmpty
    <3>2. QED
      BY <1>1, <2>1, <3>1, ContentsEmpty DEF Crash
  <2>2. CASE ~ torn
    BY <1>1, <2>2 DEF Crash, Sound
  <2>3. QED
    BY <2>1, <2>2
<1>3. log' \in Seq(Store!Entries) /\ Len(log') = k
  <2>1. \A i \in 1..k : log[i] \in Store!Entries
    BY <1>1 DEF TypeOK
  <2>2. /\ SubSeq(log, 1, k) \in Seq(Store!Entries)
        /\ Len(SubSeq(log, 1, k)) = IF 1 <= k THEN k - 1 + 1 ELSE 0
    BY <1>1, <2>1, SubSeqProperties
  <2>3. QED
    BY <1>1, <1>2, <2>2
<1>4. SubSeq(log', 1, saved') = log'
  BY <1>2, <1>3, SubSeqFull
<1>5. /\ \A c \in Clients : pc'[c] = "idle"
      /\ \A w \in Writers : writer'[w] \notin {"writing", "truncated"}
      /\ ~ dirty' /\ ~ loaded' /\ ~ torn' /\ writer'["stop"] = "off"
      /\ \A n \in Names : snapshot'[n] = NoSnapshot
  BY DEF Crash, Writers
<1>6. ReadsSeeWrites' /\ CleanIsSaved'
  BY <1>2, <1>3, <1>5 DEF ReadsSeeWrites, CleanIsSaved
<1>7. Sound'
  BY <1>2, <1>4, <1>5, <1>6 DEF Sound
<1>8. Store!Next
  BY <1>2 DEF Crash, Store!Next, Store!Crash
<1>9. QED
  BY <1>7, <1>8

\* Time, the loop's end and stop() change neither contents nor flags.
LEMMA QuietSound ==
    ASSUME TypeOK, Control, Sound,
           \/ CacheExpires \/ \E n \in Names : SnapshotExpires(n)
           \/ LoopEnds \/ LoopCancelled \/ Stop \/ Flush \/ UNCHANGED vars
    PROVE  Sound'
<1> USE DEF Sound
<1>1. CASE CacheExpires
  BY <1>1 DEF CacheExpires, ReadsSeeWrites, CleanIsSaved, clientVars, diskVars
<1>2. ASSUME NEW n \in Names, SnapshotExpires(n)
      PROVE  Sound'
  <2>1. ReadsSeeWrites'
    BY <1>2 DEF SnapshotExpires, ReadsSeeWrites, TypeOK
  <2>2. QED
    BY <1>2, <2>1 DEF SnapshotExpires, CleanIsSaved, clientVars, diskVars
<1>3. CASE LoopEnds \/ LoopCancelled \/ Stop
  <2>1. /\ UNCHANGED <<log, cacheVars, clientVars, diskVars, broken>>
        /\ writer'["stop"] # "closed"
        /\ \A w \in Writers : writer'[w] \in {"writing", "truncated"} =>
              writer[w] \in {"writing", "truncated"} /\ copy'[w] = copy[w]
    BY <1>3 DEF LoopEnds, LoopCancelled, Stop, TypeOK, Writers
  <2>2. QED
    BY <2>1 DEF ReadsSeeWrites, CleanIsSaved, cacheVars, clientVars, diskVars
<1>4. CASE Flush
  <2>1. CASE Begin("stop")
    BY <1>4, <2>1, BeginSound DEF Flush, Writers
  <2>2. CASE ~ Begin("stop")
    <3>1. /\ ~ dirty /\ UNCHANGED <<log, cacheVars, clientVars, copy, diskVars, broken>>
          /\ \A w \in Writers : writer'[w] \in {"writing", "truncated"} =>
                writer[w] \in {"writing", "truncated"}
      BY <1>4, <2>2 DEF Flush, TypeOK, Writers
    <3>2. QED
      BY <3>1 DEF ReadsSeeWrites, CleanIsSaved, cacheVars, clientVars, diskVars
  <2>3. QED
    BY <2>1, <2>2
<1>5. CASE UNCHANGED vars
  BY <1>5 DEF vars, ReadsSeeWrites, CleanIsSaved, cacheVars, clientVars, diskVars
<1>6. QED
  BY <1>1, <1>2, <1>3, <1>4, <1>5

-----------------------------------------------------------------------------
(* The theorems *)

\* No load has failed so far; the properties below hold until one does, as a
\* failed load reads as an empty store.
NoLoadFailed == faults.load = 0

\* Of the steps only a failing load breaks what holds until then.
LEMMA SoundStep ==
    ASSUME TypeOK, Control, NoLoadFailed => Sound, [Next]_vars, NoLoadFailed'
    PROVE  NoLoadFailed /\ Sound' /\ [Store!Next]_(Store!store)
<1>1. faults.load \in Nat /\ \A c \in Clients : ~ LoadFails(c)
  BY DEF TypeOK, LoadFails, NoLoadFailed
<1>2. NoLoadFailed
  <2>1. faults' = faults \/ faults'.load = faults.load
    BY <1>1 DEF Next, ClientStep, WriteStep, Hit, Call, Acquire, LoadSucceeds, CacheExpires,
           SnapshotExpires, LoopWrites, Begin, LoopEnds, LoopCancelled, Truncate, WriteSucceeds,
           WriteFails, Stop, Flush, Crash, TypeOK, vars
  <2>2. QED
    BY <2>1 DEF NoLoadFailed
<1>3. Sound
  BY <1>2
<1>4. ASSUME NEW c \in Clients,
             \/ \E n \in Names : Hit(c, n)
             \/ \E o \in Ops : Call(c, o)
             \/ ClientStep(c)
      PROVE  Sound' /\ [Store!Next]_(Store!store)
  BY <1>1, <1>3, <1>4, ClientSound DEF ClientStep
<1>5. CASE LoopWrites \/ \E w \in Writers : WriteStep(w)
  <2>1. UNCHANGED Store!store
    BY <1>5 DEF LoopWrites, Begin, WriteStep, Truncate, WriteSucceeds, WriteFails,
           clientVars, Store!store
  <2>2. QED
    BY <1>2, <1>3, <1>5, <2>1, WriterSound
<1>6. CASE Crash
  BY <1>2, <1>3, <1>6, CrashSound
<1>7. CASE \/ CacheExpires \/ \E n \in Names : SnapshotExpires(n)
           \/ LoopEnds \/ LoopCancelled \/ Stop \/ Flush \/ UNCHANGED vars
  <2>1. UNCHANGED Store!store
    BY <1>7 DEF CacheExpires, SnapshotExpires, LoopEnds, LoopCancelled, Stop, Flush, Begin,
           vars, clientVars, Store!store
  <2>2. QED
    BY <1>2, <1>3, <1>7, <2>1, QuietSound
<1>8. QED
  BY <1>2, <1>4, <1>5, <1>6, <1>7 DEF Next

LEMMA StorageInv == Spec => [](TypeOK /\ Control /\ (NoLoadFailed => Sound))
<1>1. TypeOK /\ Control /\ (NoLoadFailed => Sound) /\ [Next]_vars => (NoLoadFailed => Sound)'
  BY SoundStep
<1>2. QED
  BY <1>1, InitType, InitSound, TypeStep, PTL DEF Spec

\* Every reachable state is of the declared type, and the lock has exactly the
\* holder that is loading or writing, whatever fails.
THEOREM StorageTypeCorrect == Spec => []TypeOK
  BY StorageInv, PTL

\* Until a load fails, whatever is not marked dirty is in the backend, whole,
\* however many write-backs failed, were cancelled or cut off by a crash.
THEOREM CleanDataIsSaved == Spec => [](NoLoadFailed => CleanIsSaved)
<1>1. (NoLoadFailed => Sound) => (NoLoadFailed => CleanIsSaved)
  BY DEF Sound
<1>2. QED
  BY <1>1, StorageInv, PTL

\* Until a load fails, a stop that could write leaves nothing behind.
THEOREM StopLeavesNothing == Spec => [](NoLoadFailed => StopSaves)
<1>1. (NoLoadFailed => Sound) => (NoLoadFailed => StopSaves)
  BY DEF Sound, StopSaves, CleanIsSaved
<1>2. QED
  BY <1>1, StorageInv, PTL

\* Until a load fails, cache and snapshot hold the value written last.
THEOREM WritesAreSeen == Spec => [](NoLoadFailed => ReadsSeeWrites)
<1>1. (NoLoadFailed => Sound) => (NoLoadFailed => ReadsSeeWrites)
  BY DEF Sound
<1>2. QED
  BY <1>1, StorageInv, PTL

\* As long as no load fails, snapshot, cache and backend together are one
\* store: every step is a write, a read, a crash that loses the last writes, or
\* nothing to whoever looks at the log and the replies.
THEOREM StorageIsAtomic == Spec /\ []NoLoadFailed => AtomicStore
<1>1. Init => Store!Init
  BY DEF Init, Store!Init
<1>2. TypeOK /\ Control /\ (NoLoadFailed => Sound) /\ [Next]_vars /\ NoLoadFailed'
      => [Store!Next]_(Store!store)
  BY SoundStep
<1>3. QED
  BY <1>1, <1>2, StorageInv, PTL DEF Spec, AtomicStore, Store!Spec
=============================================================================
