----------------------- MODULE QuotaReservationProofs -----------------------
(***************************************************************************)
(* Theorems about QuotaReservation, for every set of keys, models and      *)
(* requests and every value of the limits and of the times, reservations   *)
(* that run out under their call included.                                 *)
(***************************************************************************)
EXTENDS QuotaReservation, FiniteSetTheorems, FunctionTheorems, TLAPS

-----------------------------------------------------------------------------
(* Entries *)

LEMMA NextResetType ==
    ASSUME NEW t \in Nat
    PROVE  NextReset(t) \in Nat
<1>1. DayLength \in Nat /\ DayLength > 0
  BY QuotaAssumption
<1>2. t % DayLength \in 0..(DayLength - 1)
  BY <1>1
<1>3. QED
  BY <1>1, <1>2 DEF NextReset

LEMMA DefaultEntryType ==
    ASSUME NEW t \in Nat
    PROVE  DefaultEntry(t) \in Entry
BY NextResetType, QuotaAssumption DEF DefaultEntry, Entry

LEMMA ResetUsageType ==
    ASSUME NEW e \in Entry, NEW t \in Nat
    PROVE  /\ ResetUsage(e, t) \in Entry
           /\ ResetUsage(e, t).success = 0
           /\ \A m \in Models : ResetUsage(e, t).ok[m] = 0
           /\ ResetUsage(e, t).total = e.total
           /\ ResetUsage(e, t).perModel = e.perModel
BY NextResetType DEF ResetUsage, Entry

\* An operation finds an entry whose counters are those of _stats or zero,
\* and whose limits are those of _stats when the key has an entry.
LEMMA TouchedEntry ==
    ASSUME TypeOK, NEW k \in Keys
    PROVE  /\ Touched(k) \in Entry
           /\ Touched(k).success \in {0, stats[k].success}
           /\ \A m \in Models : Touched(k).ok[m] \in {0, stats[k].ok[m]}
<1>1. now \in Nat /\ stats[k] \in Entry
  BY QuotaAssumption DEF TypeOK
<1>2. CASE k \notin known
  <2>1. Touched(k) = DefaultEntry(now)
    BY <1>2 DEF Touched
  <2>2. QED
    BY <1>1, <2>1, DefaultEntryType DEF DefaultEntry
<1>3. CASE k \in known /\ now >= stats[k].resetAt
  BY <1>1, <1>3, ResetUsageType DEF Touched
<1>4. CASE k \in known /\ ~ (now >= stats[k].resetAt)
  BY <1>1, <1>4 DEF Touched, Entry
<1>5. QED
  BY <1>2, <1>3, <1>4

LEMMA CountedEntry ==
    ASSUME NEW e \in Entry, NEW m \in Models
    PROVE  /\ Counted(e, m) \in Entry
           /\ Counted(e, m).success = e.success + 1
           /\ Counted(e, m).ok[m] = e.ok[m] + 1
           /\ \A n \in Models \ {m} : Counted(e, m).ok[n] = e.ok[n]
           /\ Counted(e, m).total = e.total
           /\ Counted(e, m).perModel = e.perModel
<1>1. /\ e.ok \in [Models -> Nat]
      /\ e.success \in Nat
  BY DEF Entry
<1>2. /\ Bumped(e.ok, m) \in [Models -> Nat]
      /\ Bumped(e.ok, m)[m] = e.ok[m] + 1
      /\ \A n \in Models \ {m} : Bumped(e.ok, m)[n] = e.ok[n]
  BY <1>1 DEF Bumped
<1>3. /\ Counted(e, m) \in Entry
      /\ Counted(e, m).success = e.success + 1
      /\ Counted(e, m).ok = Bumped(e.ok, m)
      /\ Counted(e, m).total = e.total
      /\ Counted(e, m).perModel = e.perModel
  <2>1. ASSUME NEW n \in Nat, NEW f \in [Models -> Nat]
        PROVE  /\ [e EXCEPT !.success = n, !.ok = f] \in Entry
               /\ [e EXCEPT !.success = n, !.ok = f].success = n
               /\ [e EXCEPT !.success = n, !.ok = f].ok = f
               /\ [e EXCEPT !.success = n, !.ok = f].total = e.total
               /\ [e EXCEPT !.success = n, !.ok = f].perModel = e.perModel
    BY DEF Entry
  <2>2. e.success + 1 \in Nat
    BY <1>1
  <2>3. QED
    BY <1>2, <2>1, <2>2 DEF Counted
<1>4. QED
  BY <1>2, <1>3

-----------------------------------------------------------------------------
(* Types *)

LEMMA InitTypeOK == Init => TypeOK
BY DefaultEntryType, QuotaAssumption DEF Init, TypeOK, Holding

LEMMA PutEntryType ==
    ASSUME TypeOK, NEW k \in Keys, NEW e \in Entry, PutEntry(k, e)
    PROVE  stats' \in [Keys -> Entry] /\ known' \in SUBSET Keys
BY DEF PutEntry, TypeOK

LEMMA ReleaseOneType ==
    ASSUME TypeOK, NEW k \in Keys, NEW m, ReleaseOne(k, m)
    PROVE  pending' \in [Keys -> SUBSET Slot]
<1>1. Live(k) \in SUBSET Slot
  BY DEF TypeOK, Live
<1>2. \A s : Live(k) \ {s} \in SUBSET Slot
  BY <1>1
<1>3. QED
  BY <1>1, <1>2 DEF ReleaseOne, TypeOK

\* What the end of an attempt does to the types, whatever its outcome.
LEMMA EndAttemptType ==
    ASSUME TypeOK, NEW r \in Requests, Holding(r), EndAttempt(r)
    PROVE  /\ key[r] \in Keys
           /\ model[r] \in Models
           /\ pending' \in [Keys -> SUBSET Slot]
           /\ key' \in [Requests -> Keys \cup {NoKey}]
           /\ key' = [key EXCEPT ![r] = NoKey]
           /\ since' \in [Requests -> Nat]
<1>1. key[r] \in Keys /\ model[r] \in Models
  BY DEF TypeOK, Holding
<1>2. pending' \in [Keys -> SUBSET Slot]
  BY <1>1, ReleaseOneType DEF EndAttempt
<1>3. QED
  BY <1>1, <1>2 DEF EndAttempt, TypeOK

LEMMA FinishType ==
    ASSUME TypeOK, NEW r \in Requests, Holding(r), Finish(r),
           stats' \in [Keys -> Entry], known' \in SUBSET Keys
    PROVE  TypeOK'
<1>1. /\ key' = [key EXCEPT ![r] = NoKey]
      /\ pending' \in [Keys -> SUBSET Slot]
      /\ since' \in [Requests -> Nat]
  BY EndAttemptType DEF Finish
<1>2. QED
  BY <1>1, QuotaAssumption DEF Finish, TypeOK, Holding

LEMMA TypeStep == TypeOK /\ [Next]_vars => TypeOK'
<1> SUFFICES ASSUME TypeOK, [Next]_vars
             PROVE  TypeOK'
  OBVIOUS
<1> USE DEF TypeOK
<1>1. ASSUME NEW r \in Requests, NEW m \in Models, Start(r, m)
      PROVE  TypeOK'
  BY <1>1 DEF Start, tableVars, Holding
<1>2. ASSUME NEW r \in Requests, NEW k \in Keys, Reserve(r, k)
      PROVE  TypeOK'
  <2>1. stats' \in [Keys -> Entry] /\ known' \in SUBSET Keys
    BY <1>2, TouchedEntry, PutEntryType DEF Reserve
  <2>2. [req |-> r, attempt |-> attempt[r], model |-> model[r], exp |-> now + PendingTTL]
          \in Slot
    BY <1>2, QuotaAssumption DEF Reserve, Slot
  <2>3. Live(k) \in SUBSET Slot
    BY DEF Live
  <2>4. pending' \in [Keys -> SUBSET Slot]
    BY <1>2, <2>2, <2>3 DEF Reserve
  <2>5. QED
    BY <1>2, <2>1, <2>4, QuotaAssumption DEF Reserve, Holding
<1>3. ASSUME NEW r \in Requests, NEW k \in Keys, Blocked(r, k)
      PROVE  TypeOK'
  <2>1. stats' \in [Keys -> Entry] /\ known' \in SUBSET Keys
    BY <1>3, TouchedEntry, PutEntryType DEF Blocked
  <2>2. pending' \in [Keys -> SUBSET Slot]
    BY <1>3 DEF Blocked, Live
  <2>3. QED
    BY <1>3, <2>1, <2>2 DEF Blocked, Holding
<1>4. ASSUME NEW r \in Requests, GiveUp(r)
      PROVE  TypeOK'
  BY <1>4 DEF GiveUp, tableVars, Holding
<1>5. ASSUME NEW r \in Requests, Succeed(r)
      PROVE  TypeOK'
  <2>1. Holding(r) /\ Finish(r) /\ key[r] \in Keys /\ model[r] \in Models
    BY <1>5 DEF Succeed, Holding
  <2>2. Counted(Touched(key[r]), model[r]) \in Entry
    BY <2>1, TouchedEntry, CountedEntry
  <2>3. stats' \in [Keys -> Entry] /\ known' \in SUBSET Keys
    BY <1>5, <2>1, <2>2, PutEntryType DEF Succeed
  <2>4. QED
    BY <2>1, <2>3, FinishType
<1>6. ASSUME NEW r \in Requests, Fail(r)
      PROVE  TypeOK'
  <2>1. Holding(r) /\ Finish(r) /\ key[r] \in Keys
    BY <1>6 DEF Fail, Holding
  <2>2. stats' \in [Keys -> Entry] /\ known' \in SUBSET Keys
    BY <1>6, <2>1, TouchedEntry, PutEntryType DEF Fail
  <2>3. QED
    BY <2>1, <2>2, FinishType
<1>7. ASSUME NEW r \in Requests, BackOff(r)
      PROVE  TypeOK'
  BY <1>7 DEF BackOff, tableVars, Holding
<1>8. ASSUME NEW r \in Requests, Raise(r)
      PROVE  TypeOK'
  <2>1. key[r] \in Keys
    BY <1>8 DEF Raise, Holding
  <2>2. stats' \in [Keys -> Entry] /\ known' \in SUBSET Keys
    BY <1>8, <2>1, TouchedEntry, PutEntryType DEF Raise
  <2>3. QED
    BY <1>8, <2>2 DEF Raise, Holding
<1>9. ASSUME NEW r \in Requests, Retry(r)
      PROVE  TypeOK'
  <2>1. Holding(r) /\ EndAttempt(r)
    BY <1>9 DEF Retry, Holding
  <2>2. /\ key' = [key EXCEPT ![r] = NoKey]
        /\ pending' \in [Keys -> SUBSET Slot]
        /\ since' \in [Requests -> Nat]
    BY <2>1, EndAttemptType
  <2>3. attempt' \in [Requests -> 0..MaxRetries]
    BY <1>9, QuotaAssumption DEF Retry
  <2>4. QED
    BY <1>9, <2>2, <2>3, QuotaAssumption DEF Retry, Holding
<1>10. ASSUME NEW r \in Requests, Disconnect(r)
       PROVE  TypeOK'
  <2>1. CASE Holding(r) /\ Finish(r) /\ UNCHANGED <<stats, known>>
    BY <2>1, FinishType
  <2>2. CASE GiveUp(r)
    BY <1>4, <2>2
  <2>3. QED
    BY <1>10, <2>1, <2>2 DEF Disconnect
<1>11. ASSUME NEW k \in Keys, SetLimits(k)
       PROVE  TypeOK'
  <2>1. PICK t \in TotalLimits \cup {stats[k].total},
             q \in ModelLimits \cup {stats[k].perModel} :
               PutEntry(k, [Touched(k) EXCEPT !.total = t, !.perModel = q])
    BY <1>11 DEF SetLimits
  <2>2. t \in TotalLimits \cup {DefaultTotal} /\ q \in [Models -> Nat] /\ Touched(k) \in Entry
    BY TouchedEntry, QuotaAssumption DEF Entry
  <2>3. [Touched(k) EXCEPT !.total = t, !.perModel = q] \in Entry
    BY <2>2 DEF Entry
  <2>4. stats' \in [Keys -> Entry] /\ known' \in SUBSET Keys
    BY <2>1, <2>3, PutEntryType
  <2>5. QED
    BY <1>11, <2>4 DEF SetLimits, requestVars, Holding
<1>12. ASSUME NEW k \in Keys, DeleteStats(k)
       PROVE  TypeOK'
  <2>1. stats' \in [Keys -> Entry]
    BY <1>12, DefaultEntryType DEF DeleteStats
  <2>2. QED
    BY <1>12, <2>1 DEF DeleteStats, requestVars, Holding
<1>13. ASSUME NEW S \in SUBSET Keys, ResetStats(S)
       PROVE  TypeOK'
  <2>1. now \in Nat
    BY QuotaAssumption
  <2>2. stats' \in [Keys -> Entry]
    BY <1>13, <2>1, TouchedEntry, ResetUsageType DEF ResetStats
  <2>3. QED
    BY <1>13, <2>2 DEF ResetStats, requestVars, Holding
<1>14. ASSUME NEW S \in SUBSET Keys, ViewStats(S)
       PROVE  TypeOK'
  <2>1. stats' \in [Keys -> Entry]
    BY <1>14, TouchedEntry DEF ViewStats
  <2>2. QED
    BY <1>14, <2>1 DEF ViewStats, requestVars, Holding
<1>15. CASE Tick
  <2>1. \A k \in Keys : expired[k] \cup {s \in Live(k) : s.exp = now + 1} \in SUBSET Slot
    BY DEF Live
  <2>2. expired' \in [Keys -> SUBSET Slot]
    BY <1>15, <2>1 DEF Tick
  <2>3. now' \in 0..MaxTime
    BY <1>15, QuotaAssumption DEF Tick
  <2>4. QED
    BY <1>15, <2>2, <2>3 DEF Tick, tableVars, requestVars, Holding
<1>16. CASE UNCHANGED vars
  BY <1>16 DEF vars, tableVars, requestVars, Holding
<1>17. ASSUME NEW r \in Requests, RequestStep(r)
       PROVE  TypeOK'
  BY <1>1, <1>2, <1>3, <1>4, <1>5, <1>6, <1>7, <1>8, <1>9, <1>10, <1>17 DEF RequestStep
<1>18. CASE AdminStep
  <2>1. known \in SUBSET Keys /\ {} \in SUBSET Keys /\ \A k \in Keys : {k} \in SUBSET Keys
    OBVIOUS
  <2>2. QED
    BY <1>11, <1>12, <1>13, <1>14, <1>18, <2>1 DEF AdminStep
<1>19. QED
  BY <1>15, <1>16, <1>17, <1>18 DEF Next

\* The state always has the shape the code relies on: a request points at a
\* key exactly while its attempt runs, knows its model, and never sleeps
\* before an attempt that the retry limit does not allow.
THEOREM TypeCorrect == Spec => []TypeOK
<1>1. Init => TypeOK
  BY InitTypeOK
<1>2. TypeOK /\ [Next]_vars => TypeOK'
  BY TypeStep
<1>3. QED
  BY <1>1, <1>2, PTL DEF Spec

-----------------------------------------------------------------------------
(* Three kinds of steps, as far as reservations are concerned: a step that *)
(* at most drops expired slots, one that makes a reservation, and one that *)
(* ends an attempt.                                                        *)

Quiet ==
    /\ \/ UNCHANGED <<now, expired>>
       \/ /\ now' = now + 1
          /\ \A r \in Requests : key[r] \in Keys => now < since[r] + MaxHold
          /\ expired' = [k \in Keys |-> expired[k] \cup {s \in Live(k) : s.exp = now + 1}]
    /\ \A k \in Keys : pending'[k] = pending[k] \/ pending'[k] = Live(k)
    /\ UNCHANGED <<key, since, attempt>>
    /\ \A r \in Requests :
         /\ key[r] \in Keys => model'[r] = model[r]
         /\ pc[r] \notin {"idle", "selecting"} => pc'[r] \notin {"idle", "selecting"}

Ends(r) ==
    /\ Holding(r)
    /\ EndAttempt(r)
    /\ UNCHANGED <<now, model, expired>>
    /\ \A q \in Requests \ {r} : pc'[q] = pc[q] /\ attempt'[q] = attempt[q]
    /\ \/ pc'[r] = "done" /\ attempt'[r] = attempt[r]
       \/ attempt'[r] = attempt[r] + 1

LEMMA SucceedEnds ==
    ASSUME TypeOK, NEW r \in Requests, Succeed(r)
    PROVE  Ends(r)
BY DEF Succeed, Finish, Ends, Holding, TypeOK

LEMMA StepKinds ==
    ASSUME TypeOK, [Next]_vars
    PROVE  \/ Quiet
           \/ \E r \in Requests, k \in Keys : Reserve(r, k)
           \/ \E r \in Requests : Ends(r)
<1> USE DEF TypeOK
<1>1. ASSUME NEW r \in Requests, NEW m \in Models, Start(r, m)
      PROVE  Quiet
  BY <1>1 DEF Start, tableVars, Quiet, Holding
<1>2. ASSUME NEW r \in Requests, NEW k \in Keys, Blocked(r, k)
      PROVE  Quiet
  BY <1>2 DEF Blocked, Quiet, Live
<1>3. ASSUME NEW r \in Requests, GiveUp(r)
      PROVE  Quiet
  BY <1>3 DEF GiveUp, tableVars, Quiet
<1>4. ASSUME NEW r \in Requests, Holding(r), Finish(r)
      PROVE  Ends(r)
  BY <1>4 DEF Finish, Ends
<1>5. ASSUME NEW r \in Requests, Succeed(r) \/ Fail(r)
      PROVE  Ends(r)
  BY <1>4, <1>5 DEF Succeed, Fail, Holding
<1>6. ASSUME NEW r \in Requests, BackOff(r) \/ Raise(r)
      PROVE  Quiet
  BY <1>6 DEF BackOff, Raise, tableVars, Quiet
<1>7. ASSUME NEW r \in Requests, Retry(r)
      PROVE  Ends(r)
  BY <1>7 DEF Retry, Ends, Holding
<1>8. ASSUME NEW r \in Requests, Disconnect(r)
      PROVE  Quiet \/ Ends(r)
  BY <1>3, <1>4, <1>8 DEF Disconnect
<1>9. CASE AdminStep
  BY <1>9 DEF AdminStep, SetLimits, DeleteStats, ResetStats, ViewStats, requestVars, Quiet
<1>10. CASE Tick
  BY <1>10 DEF Tick, tableVars, requestVars, Quiet, Holding
<1>11. CASE UNCHANGED vars
  BY <1>11 DEF vars, tableVars, requestVars, Quiet
<1>12. ASSUME NEW r \in Requests, RequestStep(r)
       PROVE  \/ Quiet
              \/ \E k \in Keys : Reserve(r, k)
              \/ Ends(r)
  BY <1>1, <1>2, <1>3, <1>5, <1>6, <1>7, <1>8, <1>12 DEF RequestStep
<1>13. QED
  BY <1>9, <1>10, <1>11, <1>12 DEF Next

-----------------------------------------------------------------------------
(* Slots and attempts *)

\* The part of the invariant that does not depend on how long reservations
\* live.
SlotInv ==
    /\ TypeOK
    /\ SlotsFinite
    /\ SlotsFresh
    /\ HoldsBounded
    /\ SlotsCovered

\* What a release does to the slots of the key: those that expired go, and
\* of the bucket the slot that expires first.
LEMMA ReleasedSlots ==
    ASSUME TypeOK, NEW k \in Keys, NEW m \in Models, ReleaseOne(k, m)
    PROVE  /\ \A j \in Keys \ {k} : pending'[j] = pending[j]
           /\ \/ Bucket(Live(k), m) = {} /\ pending'[k] = Live(k)
              \/ \E s \in Earliest(Bucket(Live(k), m)) : pending'[k] = Live(k) \ {s}
BY DEF ReleaseOne, TypeOK

LEMMA HoldersFinite ==
    ASSUME NEW k, NEW m
    PROVE  /\ IsFiniteSet(Holders(k))
           /\ IsFiniteSet(HoldersFor(k, m))
<1>1. Holders(k) \subseteq Requests /\ HoldersFor(k, m) \subseteq Requests
  BY DEF Holders, HoldersFor
<1>2. QED
  BY <1>1, RequestsFinite, FS_Subset

LEMMA InitSlotInv == Init => SlotInv
<1> SUFFICES ASSUME Init PROVE SlotInv
  OBVIOUS
<1>1. TypeOK
  BY InitTypeOK
<1>2. SlotsFinite
  BY FS_EmptySet DEF Init, SlotsFinite
<1>3. SlotsFresh
  BY DEF Init, SlotsFresh
<1>4. HoldsBounded
  BY QuotaAssumption DEF Init, HoldsBounded
<1>5. ASSUME NEW k \in Keys, NEW m \in Models, NEW t \in 0..MaxTime
      PROVE  Cardinality(Due(k, m, t)) <= Cardinality(Begun(k, m, t))
  <2>1. Due(k, m, t) = {} /\ Begun(k, m, t) = {}
    BY QuotaAssumption DEF Init, Due, Bucket, Begun, HoldersFor, Holders
  <2>2. QED
    BY <2>1, FS_EmptySet
<1>6. QED
  BY <1>1, <1>2, <1>3, <1>4, <1>5 DEF SlotInv, SlotsCovered

LEMMA SlotsFiniteStep ==
    ASSUME TypeOK, SlotsFinite, [Next]_vars
    PROVE  SlotsFinite'
<1> SUFFICES ASSUME NEW j \in Keys
             PROVE  IsFiniteSet(pending'[j])
  BY DEF SlotsFinite
<1>1. IsFiniteSet(pending[j]) /\ Live(j) \subseteq pending[j]
  BY DEF SlotsFinite, Live
<1>2. IsFiniteSet(Live(j))
  BY <1>1, FS_Subset
<1>3. CASE Quiet
  BY <1>1, <1>2, <1>3 DEF Quiet
<1>4. ASSUME NEW r \in Requests, NEW k \in Keys, Reserve(r, k)
      PROVE  IsFiniteSet(pending'[j])
  <2> DEFINE slot == [req |-> r, attempt |-> attempt[r], model |-> model[r],
                      exp |-> now + PendingTTL]
  <2>1. pending' = [pending EXCEPT ![k] = Live(k) \cup {slot}]
    BY <1>4 DEF Reserve
  <2>2. IsFiniteSet(Live(j) \cup {slot})
    BY <1>2, FS_AddElement
  <2>3. pending'[j] = Live(j) \cup {slot} \/ pending'[j] = pending[j]
    BY <2>1 DEF TypeOK
  <2>4. QED
    BY <1>1, <2>2, <2>3
<1>5. ASSUME NEW r \in Requests, Ends(r)
      PROVE  IsFiniteSet(pending'[j])
  <2>1. key[r] \in Keys /\ model[r] \in Models /\ ReleaseOne(key[r], model[r])
    BY <1>5 DEF Ends, EndAttempt, TypeOK, Holding
  <2>2. pending'[j] \subseteq pending[j]
    BY <1>1, <2>1, ReleasedSlots
  <2>3. QED
    BY <1>1, <2>2, FS_Subset
<1>6. QED
  BY <1>3, <1>4, <1>5, StepKinds

LEMMA SlotsFreshStep ==
    ASSUME TypeOK, SlotsFresh, [Next]_vars
    PROVE  SlotsFresh'
<1> USE DEF TypeOK
<1> DEFINE Fresh(s) == /\ PendingTTL <= s.exp /\ s.exp <= now + PendingTTL
                       /\ s.attempt <= attempt[s.req]
                       /\ s.attempt = attempt[s.req] => pc[s.req] \notin {"idle", "selecting"}
<1> SUFFICES ASSUME NEW j \in Keys, NEW s \in pending'[j]
             PROVE  Fresh(s)'
  BY DEF SlotsFresh
<1>1. Live(j) \subseteq pending[j]
  BY DEF Live
<1>2. ASSUME s \in pending[j]
      PROVE  Fresh(s) /\ s \in Slot /\ s.req \in Requests /\ s.exp \in Nat /\ s.attempt \in Nat
  BY <1>2 DEF SlotsFresh, Slot
<1>3. PendingTTL \in Nat /\ now \in Nat
  BY QuotaAssumption
<1>4. CASE Quiet
  <2>1. s \in pending[j]
    BY <1>1, <1>4 DEF Quiet
  <2>2. /\ now' = now \/ now' = now + 1
        /\ attempt' = attempt
        /\ \A r \in Requests :
              pc[r] \notin {"idle", "selecting"} => pc'[r] \notin {"idle", "selecting"}
    BY <1>4 DEF Quiet
  <2>3. s.exp <= now' + PendingTTL
    BY <1>2, <1>3, <2>1, <2>2
  <2>4. QED
    BY <1>2, <2>1, <2>2, <2>3
<1>5. ASSUME NEW r \in Requests, NEW k \in Keys, Reserve(r, k)
      PROVE  Fresh(s)'
  <2> DEFINE slot == [req |-> r, attempt |-> attempt[r], model |-> model[r],
                      exp |-> now + PendingTTL]
  <2>1. /\ pending' = [pending EXCEPT ![k] = Live(k) \cup {slot}]
        /\ pc' = [pc EXCEPT ![r] = "upstream"]
        /\ UNCHANGED <<now, attempt>>
    BY <1>5 DEF Reserve
  <2>2. s \in pending[j] \/ s = slot
    BY <1>1, <2>1
  <2>3. CASE s \in pending[j]
    BY <1>2, <2>1, <2>3
  <2>4. CASE s = slot
    <3>1. s.exp = now + PendingTTL /\ s.attempt = attempt[r] /\ s.req = r
      BY <2>4
    <3>2. attempt[r] \in Nat /\ pc'[r] = "upstream"
      BY <2>1, QuotaAssumption
    <3>3. QED
      BY <1>3, <2>1, <3>1, <3>2
  <2>5. QED
    BY <2>2, <2>3, <2>4
<1>6. ASSUME NEW r \in Requests, Ends(r)
      PROVE  Fresh(s)'
  <2>1. key[r] \in Keys /\ model[r] \in Models /\ ReleaseOne(key[r], model[r])
    BY <1>6 DEF Ends, EndAttempt, Holding
  <2>2. s \in pending[j]
    BY <1>1, <2>1, ReleasedSlots
  <2>3. now' = now
    BY <1>6 DEF Ends
  <2>4. CASE s.req # r
    <3>1. pc'[s.req] = pc[s.req] /\ attempt'[s.req] = attempt[s.req]
      BY <1>2, <1>6, <2>2, <2>4 DEF Ends
    <3>2. QED
      BY <1>2, <2>2, <2>3, <3>1
  <2>5. CASE s.req = r
    <3>1. attempt[r] \in Nat
      BY QuotaAssumption
    <3>2. \/ pc'[r] = "done" /\ attempt'[r] = attempt[r]
          \/ attempt'[r] = attempt[r] + 1
      BY <1>6 DEF Ends
    <3>3. QED
      BY <1>2, <2>2, <2>3, <2>5, <3>1, <3>2
  <2>6. QED
    BY <2>4, <2>5
<1>7. QED
  BY <1>4, <1>5, <1>6, StepKinds

LEMMA HoldsBoundedStep ==
    ASSUME TypeOK, HoldsBounded, [Next]_vars
    PROVE  HoldsBounded'
<1> USE DEF TypeOK
<1> SUFFICES ASSUME NEW q \in Requests, key'[q] \in Keys
             PROVE  since'[q] <= now' /\ now' <= since'[q] + MaxHold
  BY DEF HoldsBounded
<1>1. now \in Nat /\ MaxHold \in Nat /\ since[q] \in Nat
  BY QuotaAssumption
<1>2. CASE Quiet
  BY <1>1, <1>2 DEF Quiet, HoldsBounded
<1>3. ASSUME NEW r \in Requests, NEW k \in Keys, Reserve(r, k)
      PROVE  since'[q] <= now' /\ now' <= since'[q] + MaxHold
  BY <1>1, <1>3 DEF Reserve, HoldsBounded
<1>4. ASSUME NEW r \in Requests, Ends(r)
      PROVE  since'[q] <= now' /\ now' <= since'[q] + MaxHold
  <2>1. /\ key' = [key EXCEPT ![r] = NoKey]
        /\ since' = [since EXCEPT ![r] = 0]
        /\ now' = now
    BY <1>4 DEF Ends, EndAttempt
  <2>2. q # r
    BY <2>1, QuotaAssumption
  <2>3. QED
    BY <2>1, <2>2 DEF HoldsBounded
<1>5. QED
  BY <1>2, <1>3, <1>4, StepKinds

\* The attempts in flight before and after a step of each kind.
LEMMA HoldersQuiet ==
    ASSUME TypeOK, Quiet, NEW k \in Keys, NEW m
    PROVE  /\ Holders(k)' = Holders(k)
           /\ HoldersFor(k, m)' = HoldersFor(k, m)
BY DEF Quiet, Holders, HoldersFor, TypeOK

LEMMA HoldersReserve ==
    ASSUME TypeOK, NEW r \in Requests, NEW k \in Keys, Reserve(r, k)
    PROVE  /\ model[r] \in Models /\ model' = model
           /\ r \notin Holders(k)
           /\ Holders(k)' = Holders(k) \cup {r}
           /\ \A j \in Keys \ {k} : Holders(j)' = Holders(j)
           /\ HoldersFor(k, model[r])' = HoldersFor(k, model[r]) \cup {r}
           /\ \A j \in Keys, m \in Models :
                 (j # k \/ m # model[r]) => HoldersFor(j, m)' = HoldersFor(j, m)
<1>1. /\ pc[r] = "selecting" /\ key' = [key EXCEPT ![r] = k] /\ model' = model
  BY DEF Reserve
<1>2. key[r] \notin Keys /\ model[r] \in Models
  BY <1>1 DEF TypeOK, Holding
<1>3. QED
  BY <1>1, <1>2 DEF Holders, HoldersFor, TypeOK

LEMMA HoldersEnds ==
    ASSUME TypeOK, NEW r \in Requests, Ends(r)
    PROVE  /\ key[r] \in Keys /\ model[r] \in Models /\ model' = model
           /\ ReleaseOne(key[r], model[r])
           /\ r \in HoldersFor(key[r], model[r])
           /\ \A j \in Keys : Holders(j)' = Holders(j) \ {r}
           /\ \A j \in Keys, m \in Models : HoldersFor(j, m)' = HoldersFor(j, m) \ {r}
<1>1. /\ key[r] \in Keys /\ model[r] \in Models
      /\ ReleaseOne(key[r], model[r])
      /\ key' = [key EXCEPT ![r] = NoKey] /\ model' = model
  BY DEF Ends, EndAttempt, TypeOK, Holding
<1>2. \A q \in Requests : key'[q] = IF q = r THEN NoKey ELSE key[q]
  BY <1>1 DEF TypeOK
<1>3. ASSUME NEW j \in Keys
      PROVE  Holders(j)' = Holders(j) \ {r}
  <2>1. \A q \in Requests : key'[q] = j <=> key[q] = j /\ q # r
    BY <1>2, QuotaAssumption
  <2>2. QED
    BY <2>1 DEF Holders
<1>4. ASSUME NEW j \in Keys, NEW m \in Models
      PROVE  HoldersFor(j, m)' = HoldersFor(j, m) \ {r}
  BY <1>1, <1>3 DEF HoldersFor
<1>5. r \in HoldersFor(key[r], model[r])
  BY DEF HoldersFor, Holders
<1>6. QED
  BY <1>1, <1>3, <1>4, <1>5

\* A reservation adds one slot and one attempt; a release takes the slot
\* that expires first and one attempt: neither leaves, for any t, more slots
\* due by t + PendingTTL than attempts begun by t.
LEMMA SlotsCoveredStep ==
    ASSUME SlotInv, [Next]_vars
    PROVE  SlotsCovered'
<1> USE DEF SlotInv, TypeOK
<1> SUFFICES ASSUME NEW j \in Keys, NEW m \in Models, NEW t \in 0..MaxTime
             PROVE  Cardinality(Due(j, m, t)') <= Cardinality(Begun(j, m, t)')
  BY DEF SlotsCovered, Due, Begun, HoldersFor, Holders, Bucket
<1>1. /\ IsFiniteSet(Due(j, m, t)) /\ IsFiniteSet(Begun(j, m, t))
      /\ Cardinality(Due(j, m, t)) \in Nat /\ Cardinality(Begun(j, m, t)) \in Nat
      /\ Cardinality(Due(j, m, t)) <= Cardinality(Begun(j, m, t))
  <2>1. Due(j, m, t) \subseteq pending[j] /\ Begun(j, m, t) \subseteq HoldersFor(j, m)
    BY DEF Due, Bucket, Begun
  <2>2. IsFiniteSet(Due(j, m, t)) /\ IsFiniteSet(Begun(j, m, t))
    BY <2>1, HoldersFinite, FS_Subset DEF SlotsFinite
  <2>3. QED
    BY <2>2, FS_CardinalityType DEF SlotsCovered
<1>2. ASSUME pending'[j] \subseteq pending[j], Begun(j, m, t)' = Begun(j, m, t)
      PROVE  Cardinality(Due(j, m, t)') <= Cardinality(Begun(j, m, t)')
  <2>1. Due(j, m, t)' \subseteq Due(j, m, t)
    BY <1>2 DEF Due, Bucket
  <2>2. IsFiniteSet(Due(j, m, t)') /\ Cardinality(Due(j, m, t)') <= Cardinality(Due(j, m, t))
    BY <1>1, <2>1, FS_Subset
  <2>3. Cardinality(Due(j, m, t)') \in Nat
    BY <2>2, FS_CardinalityType
  <2>4. QED
    BY <1>1, <1>2, <2>2, <2>3
<1>3. Live(j) \subseteq pending[j]
  BY DEF Live
<1>4. CASE Quiet
  <2>1. Begun(j, m, t)' = Begun(j, m, t)
    BY <1>4, HoldersQuiet DEF Quiet, Begun
  <2>2. pending'[j] \subseteq pending[j]
    BY <1>3, <1>4 DEF Quiet
  <2>3. QED
    BY <1>2, <2>1, <2>2
<1>5. ASSUME NEW r \in Requests, NEW k \in Keys, Reserve(r, k)
      PROVE  Cardinality(Due(j, m, t)') <= Cardinality(Begun(j, m, t)')
  <2> DEFINE slot == [req |-> r, attempt |-> attempt[r], model |-> model[r],
                      exp |-> now + PendingTTL]
  <2>1. /\ pending' = [pending EXCEPT ![k] = Live(k) \cup {slot}]
        /\ since' = [since EXCEPT ![r] = now]
    BY <1>5 DEF Reserve
  <2>2. /\ slot.model = model[r] /\ slot.exp = now + PendingTTL
        /\ now \in Nat /\ PendingTTL \in Nat /\ t \in Nat
    BY QuotaAssumption
  <2>3. /\ r \notin HoldersFor(j, m)
        /\ HoldersFor(j, m)' =
             IF j = k /\ m = model[r] THEN HoldersFor(j, m) \cup {r} ELSE HoldersFor(j, m)
    <3>1. key[r] \notin Keys
      BY <1>5 DEF Reserve, Holding
    <3>2. QED
      BY <1>5, <3>1, HoldersReserve DEF HoldersFor, Holders
  <2>4. CASE j = k /\ m = model[r] /\ now <= t
    <3>1. Due(j, m, t)' \subseteq Due(j, m, t) \cup {slot}
      BY <1>3, <2>1, <2>4 DEF Due, Bucket
    <3>2. Begun(j, m, t)' = Begun(j, m, t) \cup {r} /\ r \notin Begun(j, m, t)
      BY <2>1, <2>3, <2>4 DEF Begun, HoldersFor, Holders
    <3>3. Cardinality(Begun(j, m, t)') = Cardinality(Begun(j, m, t)) + 1
      BY <1>1, <3>2, FS_AddElement
    <3>4. /\ IsFiniteSet(Due(j, m, t) \cup {slot})
          /\ Cardinality(Due(j, m, t) \cup {slot}) <= Cardinality(Due(j, m, t)) + 1
          /\ Cardinality(Due(j, m, t) \cup {slot}) \in Nat
      <4>1. /\ IsFiniteSet(Due(j, m, t) \cup {slot})
            /\ \/ Cardinality(Due(j, m, t) \cup {slot}) = Cardinality(Due(j, m, t)) + 1
               \/ Cardinality(Due(j, m, t) \cup {slot}) = Cardinality(Due(j, m, t))
        BY <1>1, FS_AddElement
      <4>2. QED
        BY <1>1, <4>1
    <3>5. /\ IsFiniteSet(Due(j, m, t)')
          /\ Cardinality(Due(j, m, t)') <= Cardinality(Due(j, m, t) \cup {slot})
      BY <3>1, <3>4, FS_Subset
    <3>6. Cardinality(Due(j, m, t)') \in Nat
      BY <3>5, FS_CardinalityType
    <3>7. QED
      BY <1>1, <3>3, <3>4, <3>5, <3>6
  <2>5. CASE ~ (j = k /\ m = model[r] /\ now <= t)
    <3>1. Due(j, m, t)' \subseteq Due(j, m, t)
      <4>1. ASSUME NEW s \in Due(j, m, t)'
            PROVE  s \in Due(j, m, t)
        <5>1. s \in pending'[j] /\ s.model = m /\ s.exp <= t + PendingTTL
          BY <4>1 DEF Due, Bucket
        <5>2. s # slot \/ j # k
          BY <2>2, <2>5, <5>1
        <5>3. s \in pending[j]
          BY <1>3, <2>1, <5>1, <5>2
        <5>4. QED
          BY <5>1, <5>3 DEF Due, Bucket
      <4>2. QED
        BY <4>1
    <3>2. Begun(j, m, t)' = Begun(j, m, t)
      BY <2>1, <2>2, <2>3, <2>5 DEF Begun, HoldersFor, Holders
    <3>3. IsFiniteSet(Due(j, m, t)') /\ Cardinality(Due(j, m, t)') <= Cardinality(Due(j, m, t))
      BY <1>1, <3>1, FS_Subset
    <3>4. Cardinality(Due(j, m, t)') \in Nat
      BY <3>3, FS_CardinalityType
    <3>5. QED
      BY <1>1, <3>2, <3>3, <3>4
  <2>6. QED
    BY <2>4, <2>5
<1>6. ASSUME NEW r \in Requests, Ends(r)
      PROVE  Cardinality(Due(j, m, t)') <= Cardinality(Begun(j, m, t)')
  <2> DEFINE k == key[r]
             bucket == Bucket(Live(k), model[r])
  <2>1. /\ k \in Keys /\ model[r] \in Models /\ ReleaseOne(k, model[r])
        /\ since' = [since EXCEPT ![r] = 0]
    BY <1>6, HoldersEnds DEF Ends, EndAttempt
  <2>2. pending'[j] \subseteq pending[j]
    BY <1>3, <2>1, ReleasedSlots
  <2>3. CASE ~ (j = k /\ m = model[r] /\ since[r] <= t)
    <3>1. Begun(j, m, t)' = Begun(j, m, t)
      BY <1>6, <2>1, <2>3, HoldersEnds DEF Begun, HoldersFor, Holders
    <3>2. QED
      BY <1>2, <2>2, <3>1
  <2>4. CASE j = k /\ m = model[r] /\ since[r] <= t
    <3>1. r \in Begun(j, m, t) /\ Begun(j, m, t)' = Begun(j, m, t) \ {r}
      BY <1>6, <2>1, <2>4, HoldersEnds DEF Begun, HoldersFor, Holders
    <3>2. Cardinality(Begun(j, m, t)') = Cardinality(Begun(j, m, t)) - 1
      BY <1>1, <3>1, FS_RemoveElement
    <3>3. Cardinality(Begun(j, m, t)') \in Nat
      BY <1>1, <3>1, FS_RemoveElement, FS_CardinalityType
    <3>4. CASE Due(j, m, t)' = {}
      BY <3>3, <3>4, FS_EmptySet
    <3>5. ASSUME NEW s \in Due(j, m, t), s \notin Due(j, m, t)',
                 Due(j, m, t)' \subseteq Due(j, m, t)
          PROVE  Cardinality(Due(j, m, t)') <= Cardinality(Begun(j, m, t)')
      <4>1. Due(j, m, t)' \subseteq Due(j, m, t) \ {s}
        BY <3>5
      <4>2. /\ IsFiniteSet(Due(j, m, t) \ {s})
            /\ Cardinality(Due(j, m, t) \ {s}) = Cardinality(Due(j, m, t)) - 1
        BY <1>1, <3>5, FS_RemoveElement
      <4>3. /\ IsFiniteSet(Due(j, m, t)')
            /\ Cardinality(Due(j, m, t)') <= Cardinality(Due(j, m, t) \ {s})
        BY <4>1, <4>2, FS_Subset
      <4>4. Cardinality(Due(j, m, t)') \in Nat
        BY <4>3, FS_CardinalityType
      <4>5. QED
        BY <1>1, <3>2, <4>2, <4>3, <4>4
    <3>6. Due(j, m, t)' \subseteq Due(j, m, t)
      BY <2>2 DEF Due, Bucket
    <3>7. CASE bucket = {}
      <4>1. pending'[j] = Live(j)
        BY <2>1, <2>4, <3>7, ReleasedSlots DEF Earliest
      <4>2. Due(j, m, t)' = {}
        BY <2>4, <3>7, <4>1 DEF Due, Bucket
      <4>3. QED
        BY <3>4, <4>2
    <3>8. ASSUME NEW s \in Earliest(bucket), pending'[j] = Live(j) \ {s}
          PROVE  Cardinality(Due(j, m, t)') <= Cardinality(Begun(j, m, t)')
      <4>1. s \in Live(j) /\ s.model = m /\ \A u \in bucket : s.exp <= u.exp
        BY <2>4, <3>8 DEF Earliest, Bucket
      <4>2. CASE s.exp <= t + PendingTTL
        <5>1. s \in Due(j, m, t) /\ s \notin Due(j, m, t)'
          BY <1>3, <3>8, <4>1, <4>2 DEF Due, Bucket
        <5>2. QED
          BY <3>5, <3>6, <5>1
      <4>3. CASE ~ (s.exp <= t + PendingTTL)
        <5>1. ASSUME NEW u \in Due(j, m, t)'
              PROVE  FALSE
          <6>1. u \in Live(j) /\ u.model = m /\ u.exp <= t + PendingTTL
            BY <3>8, <5>1 DEF Due, Bucket
          <6>2. s.exp <= u.exp
            BY <2>4, <4>1, <6>1 DEF Bucket
          <6>3. s.exp \in Nat /\ u.exp \in Nat /\ t \in Nat /\ PendingTTL \in Nat
            BY <1>3, <4>1, <6>1, QuotaAssumption DEF Slot
          <6>4. QED
            BY <4>3, <6>1, <6>2, <6>3
        <5>2. QED
          BY <3>4, <5>1
      <4>4. QED
        BY <4>2, <4>3
    <3>9. QED
      BY <2>1, <2>4, <3>7, <3>8, ReleasedSlots
  <2>5. QED
    BY <2>3, <2>4
<1>7. QED
  BY <1>4, <1>5, <1>6, StepKinds

LEMMA SlotInvStep ==
    ASSUME SlotInv, [Next]_vars
    PROVE  SlotInv'
BY TypeStep, SlotsFiniteStep, SlotsFreshStep, HoldsBoundedStep, SlotsCoveredStep DEF SlotInv

LEMMA SlotInvAlways == Spec => []SlotInv
BY InitSlotInv, SlotInvStep, PTL DEF Spec

\* The last instant has every slot due and every attempt begun.
LEMMA NoLeakNow == SlotInv => NoLeakedReservation
<1>1. ASSUME SlotInv, NEW k \in Keys, NEW m \in Models
      PROVE  Cardinality(Bucket(pending[k], m)) <= Cardinality(HoldersFor(k, m))
  <2>1. now \in Nat /\ MaxTime \in Nat /\ now <= MaxTime /\ PendingTTL \in Nat
    BY <1>1, QuotaAssumption DEF SlotInv, TypeOK
  <2>2. Bucket(pending[k], m) = Due(k, m, MaxTime)
    <3>1. ASSUME NEW s \in pending[k]
          PROVE  s.exp <= MaxTime + PendingTTL
      <4>1. s.exp \in Nat /\ s.exp <= now + PendingTTL
        BY <1>1 DEF SlotInv, SlotsFresh, TypeOK, Slot
      <4>2. QED
        BY <2>1, <4>1
    <3>2. QED
      BY <3>1 DEF Due, Bucket
  <2>3. Cardinality(Due(k, m, MaxTime)) <= Cardinality(Begun(k, m, MaxTime))
    BY <1>1, <2>1 DEF SlotInv, SlotsCovered
  <2>4. Begun(k, m, MaxTime) \subseteq HoldersFor(k, m)
    BY DEF Begun
  <2>5. /\ Cardinality(Begun(k, m, MaxTime)) <= Cardinality(HoldersFor(k, m))
        /\ Cardinality(HoldersFor(k, m)) \in Nat
        /\ Cardinality(Begun(k, m, MaxTime)) \in Nat
    BY <2>4, HoldersFinite, FS_Subset, FS_CardinalityType
  <2>6. Cardinality(Due(k, m, MaxTime)) \in Nat
    <3>1. IsFiniteSet(Due(k, m, MaxTime))
      BY <1>1, FS_Subset DEF SlotInv, SlotsFinite, Due, Bucket
    <3>2. QED
      BY <3>1, FS_CardinalityType
  <2>7. QED
    BY <2>2, <2>3, <2>5, <2>6
<1>2. QED
  BY <1>1 DEF NoLeakedReservation

\* No reservation leaks, whatever the life of a reservation and however long
\* attempts take: the table never holds more slots for a key and a model
\* than there are attempts in flight on them.
THEOREM NoLeak == Spec => []NoLeakedReservation
BY NoLeakNow, SlotInvAlways, PTL

-----------------------------------------------------------------------------
(* Attempts and live slots *)

PairInv ==
    /\ SlotInv
    /\ ExpiredPast
    /\ HoldersCovered
    /\ KeyCovered

\* Elements that move from one set to another keep the sum of the sizes.
LEMMA MoveBetween ==
    ASSUME NEW S, NEW X, NEW E \in SUBSET S, IsFiniteSet(S), IsFiniteSet(X), E \cap X = {}
    PROVE  /\ IsFiniteSet(X \cup E)
           /\ Cardinality(S \ E) + Cardinality(X \cup E) = Cardinality(S) + Cardinality(X)
<1>1. IsFiniteSet(E) /\ S \cap E = E /\ X \cap E = {}
  BY FS_Subset
<1>2. /\ Cardinality(S \ E) = Cardinality(S) - Cardinality(E)
      /\ IsFiniteSet(X \cup E)
      /\ Cardinality(X \cup E) = Cardinality(X) + Cardinality(E) - Cardinality({})
  <2>1. Cardinality(S \ E) = Cardinality(S) - Cardinality(S \cap E)
    BY FS_Difference
  <2>2. /\ IsFiniteSet(X \cup E)
        /\ Cardinality(X \cup E) = Cardinality(X) + Cardinality(E) - Cardinality(X \cap E)
    BY <1>1, FS_Union
  <2>3. X \cap E = {}
    OBVIOUS
  <2>4. QED
    BY <1>1, <2>1, <2>2, <2>3
<1>3. /\ Cardinality({}) = 0
      /\ Cardinality(S) \in Nat /\ Cardinality(X) \in Nat /\ Cardinality(E) \in Nat
  BY <1>1, FS_EmptySet, FS_CardinalityType
<1>4. QED
  BY <1>2, <1>3

LEMMA InitPairInv == Init => PairInv
<1> SUFFICES ASSUME Init PROVE PairInv
  OBVIOUS
<1>1. ASSUME NEW k \in Keys
      PROVE  /\ Live(k) = {} /\ Holders(k) = {} /\ expired[k] = {}
             /\ \A m \in Models :
                  /\ Bucket(Live(k), m) = {} /\ HoldersFor(k, m) = {}
                  /\ Bucket(expired[k], m) = {}
  BY QuotaAssumption DEF Init, Live, Bucket, Holders, HoldersFor
<1>2. Cardinality({}) = 0 /\ IsFiniteSet({})
  BY FS_EmptySet
<1>3. HoldersCovered /\ KeyCovered
  <2>1. \A k \in Keys : Cardinality(Holders(k)) <= Cardinality(Live(k)) + Cardinality(expired[k])
    BY <1>1, <1>2
  <2>2. \A k \in Keys, m \in Models :
           Cardinality(HoldersFor(k, m)) <=
               Cardinality(Bucket(Live(k), m)) + Cardinality(Bucket(expired[k], m))
    BY <1>1, <1>2
  <2>3. QED
    BY <2>1, <2>2 DEF HoldersCovered, KeyCovered
<1>4. ExpiredPast
  BY <1>1, <1>2 DEF ExpiredPast
<1>5. QED
  BY <1>3, <1>4, InitSlotInv DEF PairInv

\* What is finite of a key, and how large.
LEMMA KeyIsFinite ==
    ASSUME SlotInv, ExpiredPast, NEW k \in Keys
    PROVE  /\ IsFiniteSet(Live(k)) /\ Cardinality(Live(k)) \in Nat
           /\ IsFiniteSet(expired[k]) /\ Cardinality(expired[k]) \in Nat
           /\ IsFiniteSet(Holders(k)) /\ Cardinality(Holders(k)) \in Nat
           /\ \A m : /\ IsFiniteSet(Bucket(Live(k), m)) /\ Cardinality(Bucket(Live(k), m)) \in Nat
                     /\ IsFiniteSet(Bucket(expired[k], m)) /\ Cardinality(Bucket(expired[k], m)) \in Nat
                     /\ IsFiniteSet(HoldersFor(k, m)) /\ Cardinality(HoldersFor(k, m)) \in Nat
<1>1. IsFiniteSet(pending[k]) /\ Live(k) \subseteq pending[k]
  BY DEF SlotInv, SlotsFinite, Live
<1>2. IsFiniteSet(Live(k)) /\ IsFiniteSet(expired[k])
  BY <1>1, FS_Subset DEF ExpiredPast
<1>3. \A m : Bucket(Live(k), m) \subseteq Live(k) /\ Bucket(expired[k], m) \subseteq expired[k]
  BY DEF Bucket
<1>4. \A m : IsFiniteSet(Bucket(Live(k), m)) /\ IsFiniteSet(Bucket(expired[k], m))
  BY <1>2, <1>3, FS_Subset
<1>5. QED
  BY <1>2, <1>4, HoldersFinite, FS_CardinalityType

\* The slots of j are those an attempt may count on: in the live ones and in
\* those that ran out together.
Backed(j) ==
    /\ Cardinality(Holders(j)) <= Cardinality(Live(j)) + Cardinality(expired[j])
    /\ \A m \in Models :
          Cardinality(HoldersFor(j, m)) <=
              Cardinality(Bucket(Live(j), m)) + Cardinality(Bucket(expired[j], m))

\* A step that neither begins nor ends an attempt: what is live either stays
\* or runs out.
LEMMA BackedQuiet ==
    ASSUME PairInv, Quiet, NEW j \in Keys
    PROVE  Backed(j)'
<1>1. SlotInv /\ ExpiredPast /\ TypeOK /\ Backed(j) /\ now \in Nat
  BY QuotaAssumption DEF PairInv, SlotInv, TypeOK, HoldersCovered, KeyCovered, Backed
<1>2. Holders(j)' = Holders(j) /\ \A m \in Models : HoldersFor(j, m)' = HoldersFor(j, m)
  BY <1>1, HoldersQuiet
<1>3. \A s \in pending[j] : s.exp \in Nat
  BY <1>1 DEF TypeOK, Slot
<1>4. CASE UNCHANGED <<now, expired>>
  <2>1. Live(j)' = Live(j) /\ expired'[j] = expired[j]
    BY <1>4 DEF Quiet, Live
  <2>2. QED
    BY <1>1, <1>2, <2>1 DEF Backed, Bucket
<1>5. CASE /\ now' = now + 1
           /\ expired' = [k \in Keys |-> expired[k] \cup {s \in Live(k) : s.exp = now + 1}]
  <2> DEFINE E == {s \in Live(j) : s.exp = now + 1}
  <2>1. expired'[j] = expired[j] \cup E /\ E \in SUBSET Live(j)
    BY <1>5
  <2>2. Live(j)' = Live(j) \ E
    BY <1>1, <1>3, <1>5 DEF Quiet, Live
  <2>3. E \cap expired[j] = {}
    BY <1>1 DEF Live, ExpiredPast
  <2>4. Cardinality(Live(j) \ E) + Cardinality(expired[j] \cup E)
          = Cardinality(Live(j)) + Cardinality(expired[j])
    BY <1>1, <2>1, <2>3, KeyIsFinite, MoveBetween
  <2>5. ASSUME NEW m \in Models
        PROVE  Cardinality(Bucket(Live(j) \ E, m)) + Cardinality(Bucket(expired[j] \cup E, m))
                 = Cardinality(Bucket(Live(j), m)) + Cardinality(Bucket(expired[j], m))
    <3>1. /\ Bucket(E, m) \in SUBSET Bucket(Live(j), m)
          /\ Bucket(E, m) \cap Bucket(expired[j], m) = {}
          /\ Bucket(Live(j) \ E, m) = Bucket(Live(j), m) \ Bucket(E, m)
          /\ Bucket(expired[j] \cup E, m) = Bucket(expired[j], m) \cup Bucket(E, m)
      BY <2>1, <2>3 DEF Bucket
    <3>2. IsFiniteSet(Bucket(Live(j), m)) /\ IsFiniteSet(Bucket(expired[j], m))
      BY <1>1, KeyIsFinite
    <3>3. QED
      BY <3>1, <3>2, MoveBetween
  <2>6. Cardinality(Holders(j)') <= Cardinality(Live(j)') + Cardinality(expired'[j])
    BY <1>1, <1>2, <2>1, <2>2, <2>4 DEF Backed
  <2>7. ASSUME NEW m \in Models
        PROVE  Cardinality(HoldersFor(j, m)') <=
                 Cardinality(Bucket(Live(j)', m)) + Cardinality(Bucket(expired'[j], m))
    BY <1>1, <1>2, <2>1, <2>2, <2>5 DEF Backed
  <2>8. QED
    BY <2>6, <2>7 DEF Backed, Bucket
<1>6. QED
  BY <1>4, <1>5 DEF Quiet

\* A reservation: an attempt and its slot.
LEMMA BackedReserve ==
    ASSUME PairInv, NEW r \in Requests, NEW k \in Keys, Reserve(r, k), NEW j \in Keys
    PROVE  Backed(j)'
<1> DEFINE slot == [req |-> r, attempt |-> attempt[r], model |-> model[r],
                    exp |-> now + PendingTTL]
<1>1. SlotInv /\ ExpiredPast /\ TypeOK /\ Backed(j) /\ now \in Nat
  BY QuotaAssumption DEF PairInv, SlotInv, TypeOK, HoldersCovered, KeyCovered, Backed
<1>2. /\ r \notin Holders(k)
      /\ Holders(k)' = Holders(k) \cup {r}
      /\ \A i \in Keys \ {k} : Holders(i)' = Holders(i)
      /\ \A m \in Models : m = model[r] => HoldersFor(k, m)' = HoldersFor(k, m) \cup {r}
      /\ \A i \in Keys, m \in Models :
            (i # k \/ m # model[r]) => HoldersFor(i, m)' = HoldersFor(i, m)
  <2>1. model[r] \in Models /\ model'[r] = model[r]
    BY <1>1, HoldersReserve
  <2>2. QED
    BY <1>1, <2>1, HoldersReserve
<1>3. /\ pending' = [pending EXCEPT ![k] = Live(k) \cup {slot}]
      /\ UNCHANGED <<now, expired>>
      /\ pc[r] = "selecting"
  BY DEF Reserve
<1>4. slot \notin Live(k) /\ slot.model = model[r]
  BY <1>1, <1>3 DEF SlotInv, SlotsFresh, Live
<1>4a. /\ IsFiniteSet(Live(j)) /\ Cardinality(Live(j)) \in Nat
       /\ Cardinality(expired[j]) \in Nat
       /\ IsFiniteSet(Holders(j)) /\ Cardinality(Holders(j)) \in Nat
       /\ \A m : /\ IsFiniteSet(Bucket(Live(j), m)) /\ Cardinality(Bucket(Live(j), m)) \in Nat
                 /\ Cardinality(Bucket(expired[j], m)) \in Nat
                 /\ IsFiniteSet(HoldersFor(j, m)) /\ Cardinality(HoldersFor(j, m)) \in Nat
  BY <1>1, KeyIsFinite
<1>5. CASE j # k
  <2>1. Live(j)' = Live(j)
    BY <1>1, <1>3, <1>5 DEF TypeOK, Live
  <2>2. QED
    BY <1>1, <1>2, <1>3, <1>5, <2>1 DEF Backed, Bucket
<1>6. CASE j = k
  <2>1. Live(j)' = Live(j) \cup {slot}
    BY <1>1, <1>3, <1>6, QuotaAssumption DEF TypeOK, Live
  <2>2. /\ Cardinality(Live(j)') = Cardinality(Live(j)) + 1
        /\ Cardinality(Holders(j)') = Cardinality(Holders(j)) + 1
    <3>1. slot \notin Live(j) /\ r \notin Holders(j) /\ Holders(j)' = Holders(j) \cup {r}
      BY <1>2, <1>4, <1>6
    <3>2. Cardinality(Live(j) \cup {slot}) = Cardinality(Live(j)) + 1
      BY <1>4a, <3>1, FS_AddElement
    <3>3. Cardinality(Holders(j) \cup {r}) = Cardinality(Holders(j)) + 1
      BY <1>4a, <3>1, FS_AddElement
    <3>4. QED
      BY <2>1, <3>1, <3>2, <3>3
  <2>3. ASSUME NEW m \in Models
        PROVE  Cardinality(HoldersFor(j, m)') <=
                 Cardinality(Bucket(Live(j)', m)) + Cardinality(Bucket(expired[j], m))
    <3>1. CASE m # model[r]
      <4>1. Bucket(Live(j)', m) = Bucket(Live(j), m)
        BY <1>4, <2>1, <3>1 DEF Bucket
      <4>2. QED
        BY <1>1, <1>2, <1>6, <3>1, <4>1 DEF Backed
    <3>2. CASE m = model[r]
      <4>1. Bucket(Live(j)', m) = Bucket(Live(j), m) \cup {slot}
        BY <1>4, <2>1, <3>2 DEF Bucket
      <4>2. slot \notin Bucket(Live(j), m) /\ r \notin HoldersFor(j, m)
        BY <1>2, <1>4, <1>6 DEF Bucket, HoldersFor
      <4>3. /\ Cardinality(Bucket(Live(j)', m)) = Cardinality(Bucket(Live(j), m)) + 1
            /\ Cardinality(HoldersFor(j, m)') = Cardinality(HoldersFor(j, m)) + 1
        <5>1. HoldersFor(j, m)' = HoldersFor(j, m) \cup {r}
          BY <1>2, <1>6, <3>2
        <5>2. Cardinality(Bucket(Live(j), m) \cup {slot}) = Cardinality(Bucket(Live(j), m)) + 1
          BY <1>4a, <4>2, <3>2, FS_AddElement
        <5>3. Cardinality(HoldersFor(j, m) \cup {r}) = Cardinality(HoldersFor(j, m)) + 1
          BY <1>4a, <4>2, <3>2, FS_AddElement
        <5>4. QED
          BY <4>1, <5>1, <5>2, <5>3
      <4>4. QED
        BY <1>1, <1>4a, <4>3 DEF Backed
    <3>3. QED
      BY <3>1, <3>2
  <2>4. Cardinality(Holders(j)') <= Cardinality(Live(j)') + Cardinality(expired[j])
    BY <1>1, <1>4a, <2>2 DEF Backed
  <2>5. QED
    BY <1>3, <2>3, <2>4 DEF Backed, Bucket
<1>7. QED
  BY <1>5, <1>6

\* The end of an attempt takes at most one slot, of its key and model.
LEMMA BackedEnds ==
    ASSUME PairInv, NEW r \in Requests, Ends(r), NEW j \in Keys
    PROVE  Backed(j)'
<1>1. SlotInv /\ ExpiredPast /\ TypeOK /\ Backed(j) /\ UNCHANGED <<now, expired>>
  BY DEF PairInv, SlotInv, HoldersCovered, KeyCovered, Backed, Ends
<1>2. /\ key[r] \in Keys /\ model[r] \in Models
      /\ ReleaseOne(key[r], model[r])
      /\ r \in HoldersFor(key[r], model[r])
      /\ Holders(j)' = Holders(j) \ {r}
      /\ \A m \in Models : HoldersFor(j, m)' = HoldersFor(j, m) \ {r}
  BY <1>1, HoldersEnds
<1>2a. /\ IsFiniteSet(Live(j)) /\ Cardinality(Live(j)) \in Nat
       /\ Cardinality(expired[j]) \in Nat
       /\ IsFiniteSet(Holders(j)) /\ Cardinality(Holders(j)) \in Nat
       /\ \A m : /\ IsFiniteSet(Bucket(Live(j), m)) /\ Cardinality(Bucket(Live(j), m)) \in Nat
                 /\ Cardinality(Bucket(expired[j], m)) \in Nat
                 /\ IsFiniteSet(HoldersFor(j, m)) /\ Cardinality(HoldersFor(j, m)) \in Nat
  BY <1>1, KeyIsFinite
<1>3. CASE j # key[r]
  <2>1. Live(j)' = Live(j)
    BY <1>1, <1>2, <1>3, ReleasedSlots DEF Live
  <2>2. Holders(j)' = Holders(j) /\ \A m \in Models : HoldersFor(j, m)' = HoldersFor(j, m)
    BY <1>2, <1>3 DEF Holders, HoldersFor
  <2>3. QED
    BY <1>1, <2>1, <2>2 DEF Backed, Bucket
<1>4. CASE j = key[r]
  <2>1. r \in Holders(j) /\ r \in HoldersFor(j, model[r])
    BY <1>2, <1>4 DEF HoldersFor
  <2>2. /\ Cardinality(Holders(j)') = Cardinality(Holders(j)) - 1
        /\ \A m \in Models : m = model[r] =>
              Cardinality(HoldersFor(j, m)') = Cardinality(HoldersFor(j, m)) - 1
    <3>1. Cardinality(Holders(j) \ {r}) = Cardinality(Holders(j)) - 1
      BY <1>2a, <2>1, FS_RemoveElement
    <3>2. Cardinality(HoldersFor(j, model[r]) \ {r}) = Cardinality(HoldersFor(j, model[r])) - 1
      BY <1>2a, <2>1, FS_RemoveElement
    <3>3. QED
      BY <1>2, <3>1, <3>2
  <2>3. \A m \in Models \ {model[r]} : HoldersFor(j, m)' = HoldersFor(j, m)
    BY <1>2 DEF HoldersFor
  <2>4. CASE pending'[j] = Live(j)
    <3>1. Live(j)' = Live(j)
      BY <1>1, <2>4 DEF Live
    <3>2. Cardinality(Holders(j)') <= Cardinality(Live(j)) + Cardinality(expired[j])
      BY <1>1, <1>2a, <2>2 DEF Backed
    <3>3. ASSUME NEW m \in Models
          PROVE  Cardinality(HoldersFor(j, m)') <=
                   Cardinality(Bucket(Live(j), m)) + Cardinality(Bucket(expired[j], m))
      <4>1. CASE m = model[r]
        BY <1>1, <1>2a, <2>2, <4>1 DEF Backed
      <4>2. CASE m # model[r]
        BY <1>1, <2>3, <4>2 DEF Backed
      <4>3. QED
        BY <4>1, <4>2
    <3>4. QED
      BY <1>1, <3>1, <3>2, <3>3 DEF Backed, Bucket
  <2>5. ASSUME NEW s \in Bucket(Live(j), model[r]), pending'[j] = Live(j) \ {s}
        PROVE  Backed(j)'
    <3>1. Live(j)' = Live(j) \ {s} /\ s \in Live(j) /\ s.model = model[r]
      BY <1>1, <2>5 DEF Live, Bucket
    <3>2. Cardinality(Live(j)') = Cardinality(Live(j)) - 1
      BY <1>2a, <3>1, FS_RemoveElement
    <3>3. \A m \in Models : m = model[r] =>
             Cardinality(Bucket(Live(j)', m)) = Cardinality(Bucket(Live(j), m)) - 1
      <4>1. \A m : Bucket(Live(j)', m) = Bucket(Live(j), m) \ {s}
        BY <3>1 DEF Bucket
      <4>2. Cardinality(Bucket(Live(j), model[r]) \ {s}) = Cardinality(Bucket(Live(j), model[r])) - 1
        BY <1>2a, <2>5, FS_RemoveElement
      <4>3. QED
        BY <4>1, <4>2
    <3>4. \A m \in Models \ {model[r]} : Bucket(Live(j)', m) = Bucket(Live(j), m)
      BY <3>1 DEF Bucket
    <3>5. Cardinality(Holders(j)') <= Cardinality(Live(j)') + Cardinality(expired[j])
      BY <1>1, <1>2a, <2>2, <3>2 DEF Backed
    <3>6. ASSUME NEW m \in Models
          PROVE  Cardinality(HoldersFor(j, m)') <=
                   Cardinality(Bucket(Live(j)', m)) + Cardinality(Bucket(expired[j], m))
      <4>1. CASE m = model[r]
        BY <1>1, <1>2a, <2>2, <3>3, <4>1 DEF Backed
      <4>2. CASE m # model[r]
        BY <1>1, <2>3, <3>4, <4>2 DEF Backed
      <4>3. QED
        BY <4>1, <4>2
    <3>7. QED
      BY <1>1, <3>5, <3>6 DEF Backed, Bucket
  <2>6. QED
    BY <1>1, <1>2, <1>4, <2>4, <2>5, ReleasedSlots DEF Earliest
<1>5. QED
  BY <1>3, <1>4

LEMMA ExpiredPastStep ==
    ASSUME SlotInv, ExpiredPast, [Next]_vars
    PROVE  ExpiredPast'
<1>1. TypeOK /\ now \in Nat
  BY QuotaAssumption DEF SlotInv, TypeOK
<1>2. CASE UNCHANGED <<now, expired>>
  BY <1>2 DEF ExpiredPast
<1>3. CASE /\ now' = now + 1
           /\ expired' = [k \in Keys |-> expired[k] \cup {s \in Live(k) : s.exp = now + 1}]
  <2>1. ASSUME NEW k \in Keys
        PROVE  IsFiniteSet(expired'[k]) /\ \A s \in expired'[k] : s.exp <= now'
    <3> DEFINE E == {s \in Live(k) : s.exp = now + 1}
    <3>1. expired'[k] = expired[k] \cup E
      BY <1>3
    <3>2. IsFiniteSet(E)
      <4>1. E \in SUBSET Live(k)
        OBVIOUS
      <4>2. QED
        BY <4>1, KeyIsFinite, FS_Subset
    <3>3. IsFiniteSet(expired[k] \cup E)
      BY <3>2, FS_Union DEF ExpiredPast
    <3>4. \A s \in expired[k] : s.exp \in Nat /\ s.exp <= now
      BY <1>1 DEF ExpiredPast, TypeOK, Slot
    <3>5. QED
      BY <1>1, <1>3, <3>1, <3>3, <3>4
  <2>2. QED
    BY <2>1 DEF ExpiredPast
<1>4. QED
  BY <1>1, <1>2, <1>3, StepKinds DEF Quiet, Reserve, Ends

\* A key has no more slots than attempts, as it has none too many for any
\* model: the injections of the models' slots into their attempts are one.
LEMMA NoMoreSlots ==
    ASSUME SlotInv, NEW k \in Keys
    PROVE  Cardinality(Live(k)) <= Cardinality(Holders(k))
<1> DEFINE P == pending[k]
           Into(m) == {f \in [Bucket(P, m) -> HoldersFor(k, m)] :
                          \A a, b \in Bucket(P, m) : f[a] = f[b] => a = b}
           F == [m \in Models |-> CHOOSE f : f \in Into(m)]
           g == [s \in P |-> F[s.model][s]]
<1>1. /\ IsFiniteSet(P) /\ Live(k) \in SUBSET P
      /\ \A s \in P : s.model \in Models
      /\ IsFiniteSet(Holders(k))
  BY HoldersFinite DEF SlotInv, SlotsFinite, TypeOK, Slot, Live
<1>2. ASSUME NEW m \in Models
      PROVE  F[m] \in Into(m)
  <2> DEFINE S == Bucket(P, m)
             T == HoldersFor(k, m)
  <2>1. IsFiniteSet(S) /\ IsFiniteSet(T) /\ Cardinality(S) <= Cardinality(T)
    <3>1. S \in SUBSET P
      BY DEF Bucket
    <3>2. QED
      BY <1>1, <3>1, HoldersFinite, FS_Subset, NoLeakNow DEF NoLeakedReservation
  <2>2. /\ Cardinality(S) \in Nat /\ Cardinality(T) \in Nat
        /\ ExistsBijection(1..Cardinality(S), S)
        /\ ExistsBijection(1..Cardinality(T), T)
    BY <2>1, FS_CardinalityType
  <2>3. ExistsBijection(S, 1..Cardinality(S))
    BY <2>2, Fun_ExistsBijSymmetric
  <2>4. PICK u : u \in Bijection(S, 1..Cardinality(S))
    BY <2>3, Fun_ExistsBij
  <2>5. PICK v : v \in Bijection(1..Cardinality(T), T)
    BY <2>2, Fun_ExistsBij
  <2>6. u \in [S -> 1..Cardinality(S)] /\ \A a, b \in S : u[a] = u[b] => a = b
    <3> HIDE DEF S, T
    <3>1. QED
      BY <2>4, Fun_BijectionProperties
  <2>7. /\ v \in [1..Cardinality(T) -> T]
        /\ \A a, b \in 1..Cardinality(T) : v[a] = v[b] => a = b
    BY <2>5, Fun_BijectionProperties
  <2>8. \A a \in S : u[a] \in 1..Cardinality(T)
    BY <2>1, <2>2, <2>6
  <2>9. [a \in S |-> v[u[a]]] \in Into(m)
    BY <2>6, <2>7, <2>8
  <2>10. QED
    BY <2>9
<1>3. \A s \in P : g[s] \in HoldersFor(k, s.model) /\ s \in Bucket(P, s.model)
  BY <1>1, <1>2 DEF Bucket
<1>4. g \in [P -> Holders(k)]
  BY <1>3 DEF HoldersFor
<1>5. ASSUME NEW a \in P, NEW b \in P, g[a] = g[b]
      PROVE  a = b
  <2>1. a.model = b.model
    BY <1>3, <1>5 DEF HoldersFor
  <2>2. F[a.model][a] = F[a.model][b] /\ a \in Bucket(P, a.model) /\ b \in Bucket(P, a.model)
    BY <1>3, <1>5, <2>1
  <2>3. QED
    BY <1>1, <1>2, <2>2
<1>6. Cardinality(P) <= Cardinality(Holders(k))
  <2>1. g \in Injection(P, Holders(k))
    BY <1>4, <1>5, Fun_IsInj
  <2>2. QED
    BY <1>1, <2>1, FS_Injection
<1>7. Cardinality(Live(k)) <= Cardinality(P)
  BY <1>1, FS_Subset
<1>8. QED
  BY <1>1, <1>6, <1>7, FS_Subset, FS_CardinalityType

LEMMA PairInvStep ==
    ASSUME PairInv, [Next]_vars
    PROVE  PairInv'
<1>1. SlotInv /\ SlotInv' /\ TypeOK
  BY SlotInvStep DEF PairInv, SlotInv
<1>2. ExpiredPast'
  BY <1>1, ExpiredPastStep DEF PairInv
<1>3. \A j \in Keys : Backed(j)'
  BY <1>1, StepKinds, BackedQuiet, BackedReserve, BackedEnds
<1>4. HoldersCovered' /\ KeyCovered'
  BY <1>3 DEF Backed, HoldersCovered, KeyCovered
<1>5. QED
  BY <1>1, <1>2, <1>4 DEF PairInv

LEMMA PairInvAlways == Spec => []PairInv
BY InitPairInv, PairInvStep, PTL DEF Spec

\* Every attempt in flight keeps a slot of its key and model until it ends,
\* except for as many as reservations of that key and model ran out.
THEOREM EveryHolderCovered == Spec => []HoldersCovered
<1>1. PairInv => HoldersCovered
  BY DEF PairInv
<1>2. QED
  BY <1>1, PairInvAlways, PTL

-----------------------------------------------------------------------------
(* Calls counted or in flight *)

CountsStay(k) ==
    /\ stats'[k].success \in {0, stats[k].success}
    /\ \A m \in Models : stats'[k].ok[m] \in {0, stats[k].ok[m]}

\* Only a good answer counts a call.
LEMMA CountKinds ==
    ASSUME TypeOK, [Next]_vars
    PROVE  \/ /\ \A k \in Keys : CountsStay(k)
              /\ Quiet \/ \E r \in Requests : Ends(r)
           \/ \E r \in Requests, k \in Keys : Reserve(r, k)
           \/ \E r \in Requests : Succeed(r)
<1> USE DEF TypeOK
<1>1. ASSUME NEW k \in Keys, PutEntry(k, Touched(k))
      PROVE  \A j \in Keys : CountsStay(j)
  BY <1>1, TouchedEntry DEF PutEntry, CountsStay
<1>2. ASSUME UNCHANGED stats
      PROVE  \A j \in Keys : CountsStay(j)
  BY <1>2 DEF CountsStay
<1> DEFINE Stays == \A k \in Keys : CountsStay(k)
<1>3. ASSUME NEW r \in Requests, RequestStep(r)
      PROVE  Stays \/ Succeed(r) \/ \E k \in Keys : Reserve(r, k)
  <2>1. ASSUME NEW k \in Keys, Blocked(r, k)
        PROVE  Stays
    BY <1>1, <2>1 DEF Blocked
  <2>2. ASSUME Fail(r) \/ Raise(r)
        PROVE  Stays
    <3>1. key[r] \in Keys
      BY <2>2 DEF Fail, Raise, Holding
    <3>2. PutEntry(key[r], Touched(key[r])) \/ UNCHANGED stats
      BY <2>2 DEF Fail, Raise
    <3>3. QED
      BY <1>1, <1>2, <3>1, <3>2
  <2>3. ASSUME \/ \E m \in Models : Start(r, m)
               \/ GiveUp(r) \/ BackOff(r) \/ Retry(r) \/ Disconnect(r)
        PROVE  Stays
    BY <1>2, <2>3 DEF Start, GiveUp, BackOff, Retry, Disconnect, tableVars
  <2>4. QED
    BY <1>3, <2>1, <2>2, <2>3 DEF RequestStep
<1>4. ASSUME AdminStep
      PROVE  Stays
  <2>1. ASSUME NEW k \in Keys, SetLimits(k)
        PROVE  Stays
    <3>1. PICK t, q : PutEntry(k, [Touched(k) EXCEPT !.total = t, !.perModel = q])
      BY <2>1 DEF SetLimits
    <3>2. Touched(k) \in Entry
      BY TouchedEntry
    <3>3. /\ stats'[k].success = Touched(k).success
          /\ stats'[k].ok = Touched(k).ok
          /\ \A j \in Keys \ {k} : stats'[j] = stats[j]
      BY <3>1, <3>2 DEF PutEntry, Entry
    <3>4. QED
      BY <3>3, TouchedEntry DEF CountsStay
  <2>2. ASSUME NEW k \in Keys, DeleteStats(k)
        PROVE  Stays
    BY <2>2 DEF DeleteStats, DefaultEntry, CountsStay
  <2>3. ASSUME NEW S, ResetStats(S)
        PROVE  Stays
    <3>1. now \in Nat
      BY QuotaAssumption
    <3>2. ASSUME NEW k \in Keys
          PROVE  CountsStay(k)
      <4>1. Touched(k) \in Entry
        BY TouchedEntry
      <4>2. stats'[k] = IF k \in S THEN ResetUsage(Touched(k), now) ELSE stats[k]
        BY <2>3 DEF ResetStats
      <4>3. CASE k \in S
        <5>1. /\ stats'[k] = ResetUsage(Touched(k), now)
              /\ ResetUsage(Touched(k), now).success = 0
              /\ \A m \in Models : ResetUsage(Touched(k), now).ok[m] = 0
          BY <3>1, <4>1, <4>2, <4>3, ResetUsageType
        <5>2. QED
          BY <5>1 DEF CountsStay
      <4>4. CASE k \notin S
        BY <4>2, <4>4 DEF CountsStay
      <4>5. QED
        BY <4>3, <4>4
    <3>3. QED
      BY <3>2
  <2>4. ASSUME NEW S, ViewStats(S)
        PROVE  Stays
    BY <2>4, TouchedEntry DEF ViewStats, CountsStay
  <2>5. QED
    BY <1>4, <2>1, <2>2, <2>3, <2>4 DEF AdminStep
<1>5. CASE Tick \/ UNCHANGED vars
  BY <1>2, <1>5, StepKinds DEF Tick, vars, tableVars, Reserve
<1>6. QED
  BY <1>3, <1>4, <1>5, StepKinds DEF Next

LEMMA WithinLimitStep ==
    ASSUME PairInv, [Next]_vars, NEW k \in Keys
    PROVE  WithinLimit(k)
<1>1. SlotInv /\ TypeOK /\ stats \in [Keys -> Entry]
  BY DEF PairInv, SlotInv, TypeOK
<1>2. /\ IsFiniteSet(Holders(k)) /\ Cardinality(Holders(k)) \in Nat
      /\ \A m : IsFiniteSet(HoldersFor(k, m)) /\ Cardinality(HoldersFor(k, m)) \in Nat
  BY HoldersFinite, FS_CardinalityType
<1>3. stats[k].success \in Nat /\ \A m \in Models : stats[k].ok[m] \in Nat
  BY <1>1 DEF Entry
\* A count that does not grow needs no room.
<1>4. ASSUME Committed(k)' <= Committed(k),
             \A m \in Models : CommittedFor(k, m)' <= CommittedFor(k, m),
             Committed(k)' \in Nat, \A m \in Models : CommittedFor(k, m)' \in Nat
      PROVE  WithinLimit(k)
  <2>1. Committed(k) \in Nat /\ \A m \in Models : CommittedFor(k, m) \in Nat
    BY <1>2, <1>3 DEF Committed, CommittedFor
  <2>2. QED
    BY <1>4, <2>1 DEF WithinLimit
<1>5. ASSUME CountsStay(k),
             Cardinality(Holders(k)') \in Nat, Cardinality(Holders(k)') <= Cardinality(Holders(k)),
             \A m \in Models : /\ Cardinality(HoldersFor(k, m)') \in Nat
                               /\ Cardinality(HoldersFor(k, m)') <= Cardinality(HoldersFor(k, m))
      PROVE  WithinLimit(k)
  <2>1. Committed(k)' \in Nat /\ Committed(k)' <= Committed(k)
    BY <1>2, <1>3, <1>5 DEF CountsStay, Committed
  <2>2. ASSUME NEW m \in Models
        PROVE  CommittedFor(k, m)' \in Nat /\ CommittedFor(k, m)' <= CommittedFor(k, m)
    BY <1>2, <1>3, <1>5 DEF CountsStay, CommittedFor
  <2>3. QED
    BY <1>4, <2>1, <2>2
<1>6. ASSUME Quiet, CountsStay(k)
      PROVE  WithinLimit(k)
  BY <1>1, <1>2, <1>5, <1>6, HoldersQuiet
\* The attempts in flight on k once attempt r has ended.
<1>7. ASSUME NEW r \in Requests, Ends(r)
      PROVE  /\ Cardinality(Holders(k)') =
                  IF key[r] = k THEN Cardinality(Holders(k)) - 1 ELSE Cardinality(Holders(k))
             /\ Cardinality(Holders(k)') \in Nat
             /\ \A m \in Models :
                  /\ Cardinality(HoldersFor(k, m)') =
                       IF key[r] = k /\ model[r] = m
                       THEN Cardinality(HoldersFor(k, m)) - 1
                       ELSE Cardinality(HoldersFor(k, m))
                  /\ Cardinality(HoldersFor(k, m)') \in Nat
  <2>1. /\ Holders(k)' = Holders(k) \ {r}
        /\ \A m \in Models : HoldersFor(k, m)' = HoldersFor(k, m) \ {r}
    BY <1>1, <1>7, HoldersEnds
  <2>2. /\ r \in Holders(k) <=> key[r] = k
        /\ \A m : r \in HoldersFor(k, m) <=> key[r] = k /\ model[r] = m
    BY DEF Holders, HoldersFor
  <2>3. /\ Cardinality(Holders(k) \ {r}) =
              IF key[r] = k THEN Cardinality(Holders(k)) - 1 ELSE Cardinality(Holders(k))
        /\ Cardinality(Holders(k) \ {r}) \in Nat
    BY <1>2, <2>2, FS_RemoveElement, FS_CardinalityType
  <2>4. ASSUME NEW m \in Models
        PROVE  /\ Cardinality(HoldersFor(k, m) \ {r}) =
                    IF key[r] = k /\ model[r] = m
                    THEN Cardinality(HoldersFor(k, m)) - 1
                    ELSE Cardinality(HoldersFor(k, m))
               /\ Cardinality(HoldersFor(k, m) \ {r}) \in Nat
    BY <1>2, <2>2, FS_RemoveElement, FS_CardinalityType
  <2>5. QED
    BY <2>1, <2>3, <2>4
<1>8. ASSUME NEW r \in Requests, Ends(r), CountsStay(k)
      PROVE  WithinLimit(k)
  <2>1. /\ Cardinality(Holders(k)') <= Cardinality(Holders(k))
        /\ \A m \in Models : Cardinality(HoldersFor(k, m)') <= Cardinality(HoldersFor(k, m))
    BY <1>2, <1>7, <1>8
  <2>2. QED
    BY <1>5, <1>7, <1>8, <2>1
<1>9. ASSUME NEW r \in Requests, Succeed(r)
      PROVE  WithinLimit(k)
  <2>1. Ends(r) /\ key[r] \in Keys /\ model[r] \in Models
    BY <1>1, <1>9, SucceedEnds, HoldersEnds
  <2>2. stats' = [stats EXCEPT ![key[r]] = Counted(Touched(key[r]), model[r])]
    BY <1>9 DEF Succeed, PutEntry
  <2>3. CASE key[r] # k
    <3>1. stats'[k] = stats[k]
      BY <1>1, <2>2, <2>3
    <3>2. QED
      BY <1>8, <2>1, <3>1 DEF CountsStay
  <2>4. CASE key[r] = k
    <3>1. stats'[k] = Counted(Touched(k), model[r])
      BY <1>1, <2>2, <2>4
    <3>2. /\ Touched(k) \in Entry
          /\ Touched(k).success \in Nat /\ Touched(k).success <= stats[k].success
          /\ \A m \in Models : Touched(k).ok[m] \in Nat /\ Touched(k).ok[m] <= stats[k].ok[m]
      BY <1>1, <1>3, TouchedEntry
    <3>3. /\ stats'[k].success = Touched(k).success + 1
          /\ stats'[k].ok[model[r]] = Touched(k).ok[model[r]] + 1
          /\ \A m \in Models \ {model[r]} : stats'[k].ok[m] = Touched(k).ok[m]
      BY <2>1, <3>1, <3>2, CountedEntry
    <3>4. Committed(k)' \in Nat /\ Committed(k)' <= Committed(k)
      BY <1>2, <1>3, <1>7, <2>1, <2>4, <3>2, <3>3 DEF Committed
    <3>5. ASSUME NEW m \in Models
          PROVE  CommittedFor(k, m)' \in Nat /\ CommittedFor(k, m)' <= CommittedFor(k, m)
      <4>1. CASE m = model[r]
        BY <1>2, <1>3, <1>7, <2>1, <2>4, <3>2, <3>3, <4>1 DEF CommittedFor
      <4>2. CASE m # model[r]
        BY <1>2, <1>3, <1>7, <2>1, <2>4, <3>2, <3>3, <4>2 DEF CommittedFor
      <4>3. QED
        BY <4>1, <4>2
    <3>6. QED
      BY <1>4, <3>4, <3>5
  <2>5. QED
    BY <2>3, <2>4
<1>10. ASSUME NEW r \in Requests, NEW j \in Keys, Reserve(r, j)
       PROVE  WithinLimit(k)
  <2>1. /\ stats' = [stats EXCEPT ![j] = Touched(j)]
        /\ HasRoom(Touched(j), Live(j), model[r])
    BY <1>10 DEF Reserve, PutEntry
  <2>2. CASE j # k
    <3>1. stats'[k] = stats[k]
      BY <1>1, <2>1, <2>2
    <3>2. Holders(k)' = Holders(k) /\ \A m \in Models : HoldersFor(k, m)' = HoldersFor(k, m)
      BY <1>1, <1>10, <2>2, HoldersReserve
    <3>3. QED
      BY <1>2, <1>5, <3>1, <3>2 DEF CountsStay
  <2>3. CASE j = k
    <3> DEFINE e == Touched(k)
    <3>1. stats'[k] = e /\ HasRoom(e, Live(k), model[r])
      BY <1>1, <2>1, <2>3
    <3>2. /\ e \in Entry
          /\ e.success \in Nat
          /\ \A m \in Models : e.ok[m] \in Nat /\ e.ok[m] <= stats[k].ok[m]
      BY <1>1, <1>3, TouchedEntry
    <3>3. /\ Cardinality(Holders(k)) <= Cardinality(Live(k)) + Cardinality(expired[k])
          /\ \A m \in Models :
                Cardinality(HoldersFor(k, m)) <=
                    Cardinality(Bucket(Live(k), m)) + Cardinality(Bucket(expired[k], m))
          /\ expired' = expired
      BY <1>10, <2>3 DEF PairInv, KeyCovered, HoldersCovered, Reserve
    <3>3a. /\ Cardinality(Live(k)) \in Nat /\ Cardinality(expired[k]) \in Nat
          /\ \A m : /\ Cardinality(Bucket(Live(k), m)) \in Nat
                    /\ Cardinality(Bucket(expired[k], m)) \in Nat
      BY <1>1, KeyIsFinite DEF PairInv
    <3>4. /\ model[r] \in Models /\ model' = model
          /\ Holders(k)' = Holders(k) \cup {r}
          /\ \A m \in Models :
                HoldersFor(k, m)' = IF m = model[r] THEN HoldersFor(k, m) \cup {r}
                                    ELSE HoldersFor(k, m)
          /\ r \notin Holders(k) /\ \A m : r \notin HoldersFor(k, m)
      <4>1. pc[r] = "selecting" /\ key' = [key EXCEPT ![r] = k] /\ model' = model
        BY <1>10, <2>3 DEF Reserve
      <4>2. key[r] \notin Keys /\ model[r] \in Models
        BY <1>1, <4>1 DEF TypeOK, Holding
      <4>3. QED
        BY <1>1, <4>1, <4>2 DEF Holders, HoldersFor, TypeOK
    <3>5. Cardinality(Holders(k)') = Cardinality(Holders(k)) + 1
      BY <1>2, <3>4, FS_AddElement
    <3>6. Committed(k)' <= e.total + Cardinality(expired'[k])
      <4>1. /\ e.success + Cardinality(Holders(k)) < e.total + Cardinality(expired[k])
            /\ e.total \in Nat
        <5>1. e.total \in Nat /\ e.success + Cardinality(Live(k)) < e.total
          BY <3>1, <3>2, QuotaAssumption DEF HasRoom, Entry
        <5>2. QED
          BY <1>2, <3>2, <3>3, <3>3a, <5>1
      <4>2. Committed(k)' = e.success + Cardinality(Holders(k)) + 1
        BY <1>2, <3>1, <3>2, <3>5 DEF Committed
      <4>3. QED
        BY <1>2, <3>2, <3>3, <3>3a, <4>1, <4>2
    <3>7. ASSUME NEW m \in Models, CommittedFor(k, m)' > CommittedFor(k, m)
          PROVE  \/ stats'[k].perModel[m] = 0
                 \/ CommittedFor(k, m)' <=
                        stats'[k].perModel[m] + Cardinality(Bucket(expired'[k], m))
      <4>1. CASE m # model[r]
        <5>1. CommittedFor(k, m)' = e.ok[m] + Cardinality(HoldersFor(k, m))
          BY <3>1, <3>4, <4>1 DEF CommittedFor
        <5>2. QED
          BY <1>2, <1>3, <3>2, <3>7, <5>1 DEF CommittedFor
      <4>2. CASE m = model[r]
        <5>1. Cardinality(HoldersFor(k, m)') = Cardinality(HoldersFor(k, m)) + 1
          BY <1>2, <3>4, <4>2, FS_AddElement
        <5>2. CommittedFor(k, m)' = e.ok[m] + Cardinality(HoldersFor(k, m)) + 1
          BY <1>2, <3>1, <3>2, <5>1 DEF CommittedFor
        <5>3. /\ e.perModel[m] \in Nat
              /\ e.perModel[m] # 0 =>
                    e.ok[m] + Cardinality(HoldersFor(k, m))
                      < e.perModel[m] + Cardinality(Bucket(expired[k], m))
          BY <1>2, <3>1, <3>2, <3>3, <3>3a, <4>2 DEF HasRoom, Entry
        <5>4. QED
          BY <1>2, <3>1, <3>2, <3>3, <3>3a, <5>2, <5>3
      <4>3. QED
        BY <4>1, <4>2
    <3>8. QED
      BY <3>1, <3>6, <3>7 DEF WithinLimit
  <2>4. QED
    BY <2>2, <2>3
<1>11. QED
  BY <1>1, <1>6, <1>8, <1>9, <1>10, CountKinds

\* The calls of a key that are counted or in flight, in total and for a model,
\* grow only within the limit in force, or past it by one call at most for each
\* reservation that ran out.
THEOREM LimitsRespected == Spec => CommitmentsWithinLimit
<1>1. PairInv /\ [Next]_vars => [\A k \in Keys : WithinLimit(k)]_vars
  BY WithinLimitStep
<1>2. QED
  BY <1>1, PairInvAlways, PTL DEF Spec, CommitmentsWithinLimit

-----------------------------------------------------------------------------
(* The table implements QuotaLedger *)

\* A key without an entry has the default limit, which an operation that
\* creates the entry finds.
Unlisted == \A k \in Keys \ known : stats[k].total = DefaultTotal

RefInv == PairInv /\ Unlisted

\* The entry that an operation finds has the limit in force.
LEMMA TouchedTotal ==
    ASSUME TypeOK, Unlisted, NEW k \in Keys
    PROVE  Touched(k).total = stats[k].total
<1>1. now \in Nat /\ stats[k] \in Entry
  BY QuotaAssumption DEF TypeOK
<1>2. CASE k \notin known
  BY <1>2 DEF Touched, DefaultEntry, Unlisted
<1>3. CASE k \in known
  BY <1>1, <1>3 DEF Touched, ResetUsage, Entry
<1>4. QED
  BY <1>2, <1>3

LEMMA UnlistedStep ==
    ASSUME TypeOK, Unlisted, [Next]_vars
    PROVE  Unlisted'
<1> USE DEF TypeOK
<1>1. ASSUME NEW k \in Keys, NEW e, PutEntry(k, e)
      PROVE  Unlisted'
  BY <1>1 DEF PutEntry, Unlisted
<1>2. ASSUME UNCHANGED <<stats, known>>
      PROVE  Unlisted'
  BY <1>2 DEF Unlisted
<1>3. ASSUME NEW r \in Requests, RequestStep(r)
      PROVE  Unlisted'
  <2>1. ASSUME NEW k \in Keys, Reserve(r, k) \/ Blocked(r, k)
        PROVE  Unlisted'
    BY <1>1, <2>1 DEF Reserve, Blocked
  <2>2. ASSUME Succeed(r) \/ Fail(r) \/ Raise(r)
        PROVE  Unlisted'
    <3>1. key[r] \in Keys
      BY <2>2 DEF Succeed, Fail, Raise, Holding
    <3>2. (\E e : PutEntry(key[r], e)) \/ UNCHANGED <<stats, known>>
      BY <2>2 DEF Succeed, Fail, Raise
    <3>3. QED
      BY <1>1, <1>2, <3>1, <3>2
  <2>3. ASSUME \/ \E m \in Models : Start(r, m)
               \/ GiveUp(r) \/ BackOff(r) \/ Retry(r) \/ Disconnect(r)
        PROVE  Unlisted'
    BY <1>2, <2>3 DEF Start, GiveUp, BackOff, Retry, Disconnect, tableVars
  <2>4. QED
    BY <1>3, <2>1, <2>2, <2>3 DEF RequestStep
<1>4. ASSUME AdminStep
      PROVE  Unlisted'
  <2>1. ASSUME NEW k \in Keys, SetLimits(k)
        PROVE  Unlisted'
    BY <1>1, <2>1 DEF SetLimits
  <2>2. ASSUME NEW k \in Keys, DeleteStats(k)
        PROVE  Unlisted'
    BY <2>2 DEF DeleteStats, DefaultEntry, Unlisted
  <2>3. ASSUME NEW S, ResetStats(S)
        PROVE  Unlisted'
    BY <2>3 DEF ResetStats, Unlisted
  <2>4. ASSUME NEW S, ViewStats(S)
        PROVE  Unlisted'
    BY <2>4 DEF ViewStats, Unlisted
  <2>5. QED
    BY <1>4, <2>1, <2>2, <2>3, <2>4 DEF AdminStep
<1>5. CASE Tick \/ UNCHANGED vars
  BY <1>2, <1>5 DEF Tick, vars, tableVars
<1>6. QED
  BY <1>3, <1>4, <1>5 DEF Next

LEMMA RefInvAlways == Spec => []RefInv
<1>1. Init => RefInv
  BY InitPairInv DEF Init, RefInv, Unlisted, DefaultEntry
<1>2. RefInv /\ [Next]_vars => RefInv'
  BY PairInvStep, UnlistedStep DEF RefInv, PairInv, SlotInv
<1>3. QED
  BY <1>1, <1>2, PTL DEF Spec

-----------------------------------------------------------------------------
(* Steps by what they do to the ledger *)

\* An attempt ends uncounted; at most the entry of its key is touched.
Aborts(r) ==
    /\ Ends(r)
    /\ UNCHANGED stats \/ stats' = [stats EXCEPT ![key[r]] = Touched(key[r])]

LEMMA LedgerKinds ==
    ASSUME TypeOK, [Next]_vars
    PROVE  \/ UNCHANGED <<key, expired>> /\ \A k \in Keys : CountsStay(k)
           \/ Tick
           \/ \E r \in Requests, k \in Keys : Reserve(r, k)
           \/ \E r \in Requests : Succeed(r)
           \/ \E r \in Requests : Aborts(r)
<1>1. ASSUME UNCHANGED key, NEW r \in Requests
      PROVE  ~ Ends(r)
  BY <1>1, QuotaAssumption DEF Ends, EndAttempt, Holding, TypeOK
<1>2. CASE UNCHANGED <<key, expired>>
  BY <1>1, <1>2, CountKinds DEF Quiet
<1>3. ASSUME NEW r \in Requests, Fail(r) \/ Retry(r) \/ (Holding(r) /\ UNCHANGED <<stats, known>> /\ Finish(r))
      PROVE  Aborts(r)
  <2>1. Ends(r)
    BY <1>3 DEF Fail, Retry, Finish, Ends, Holding, TypeOK
  <2>2. UNCHANGED stats \/ stats' = [stats EXCEPT ![key[r]] = Touched(key[r])]
    BY <1>3 DEF Fail, Retry, PutEntry
  <2>3. QED
    BY <2>1, <2>2 DEF Aborts
<1>4. ASSUME NEW r \in Requests, RequestStep(r)
      PROVE  \/ UNCHANGED <<key, expired>> \/ Succeed(r) \/ Aborts(r)
             \/ \E k \in Keys : Reserve(r, k)
  <2>1. ASSUME Disconnect(r)
        PROVE  UNCHANGED <<key, expired>> \/ Aborts(r)
    BY <1>3, <2>1 DEF Disconnect, GiveUp
  <2>2. ASSUME \/ \E m \in Models : Start(r, m)
               \/ \E k \in Keys : Blocked(r, k)
               \/ GiveUp(r) \/ BackOff(r) \/ Raise(r)
        PROVE  UNCHANGED <<key, expired>>
    BY <2>2 DEF Start, Blocked, GiveUp, BackOff, Raise
  <2>3. QED
    BY <1>3, <1>4, <2>1, <2>2 DEF RequestStep
<1>5. CASE AdminStep \/ UNCHANGED vars
  <2>1. UNCHANGED <<key, expired>>
    BY <1>5 DEF AdminStep, SetLimits, DeleteStats, ResetStats, ViewStats, vars, requestVars
  <2>2. QED
    BY <1>2, <2>1
<1>6. QED
  BY <1>2, <1>4, <1>5 DEF Next

LEMMA HoldersCount ==
    ASSUME NEW k
    PROVE  IsFiniteSet(Holders(k)) /\ Cardinality(Holders(k)) \in Nat
BY HoldersFinite, FS_CardinalityType

\* Resets, new limits and everything that only touches entries.
LEMMA AdministerStep ==
    ASSUME TypeOK, TypeOK', UNCHANGED <<key, expired>>, \A k \in Keys : CountsStay(k)
    PROVE  Ledger!Administer
<1>1. \A k \in Keys : Holders(k)' = Holders(k)
  BY DEF Holders
<1>2. stats' \in [Keys -> Entry]
  BY DEF TypeOK
<1>3. /\ [k \in Keys |-> stats'[k].success] \in [Keys -> Nat]
      /\ [k \in Keys |-> stats'[k].total] \in [Keys -> TotalLimits \cup {DefaultTotal}]
  BY <1>2 DEF Entry
<1>4. \A k \in Keys : stats'[k].success \in {0, stats[k].success}
  BY DEF CountsStay
<1>5. [k \in Keys |-> Cardinality(Holders(k)')] = [k \in Keys |-> Cardinality(Holders(k))]
  BY <1>1
<1>6. [k \in Keys |-> Cardinality(expired'[k])] = [k \in Keys |-> Cardinality(expired[k])]
  OBVIOUS
<1>7. QED
  BY <1>3, <1>4, <1>5, <1>6 DEF Ledger!Administer, Ledger!Usage

\* Time passes: the reservations that run out are of calls in flight, one each.
LEMMA LapseStep ==
    ASSUME RefInv, Tick
    PROVE  Ledger!Lapse
<1>1. SlotInv /\ ExpiredPast /\ TypeOK /\ now \in Nat
  BY QuotaAssumption DEF RefInv, PairInv, SlotInv, TypeOK
<1>2. /\ UNCHANGED <<stats, key>>
      /\ expired' = [k \in Keys |-> expired[k] \cup {s \in Live(k) : s.exp = now + 1}]
  BY DEF Tick, tableVars, requestVars
<1>3. ASSUME NEW k \in Keys
      PROVE  /\ Cardinality(expired'[k]) \in Nat
             /\ Cardinality(expired[k]) \in Nat
             /\ Cardinality(Holders(k)) \in Nat
             /\ Cardinality(expired[k]) <= Cardinality(expired'[k])
             /\ Cardinality(expired'[k]) <= Cardinality(expired[k]) + Cardinality(Holders(k))
  <2> DEFINE E == {s \in Live(k) : s.exp = now + 1}
  <2>1. expired'[k] = expired[k] \cup E /\ E \in SUBSET Live(k)
    BY <1>2
  <2>2. /\ IsFiniteSet(Live(k)) /\ Cardinality(Live(k)) \in Nat
        /\ IsFiniteSet(expired[k]) /\ Cardinality(expired[k]) \in Nat
        /\ Cardinality(Holders(k)) \in Nat
    BY <1>1, KeyIsFinite
  <2>3. E \cap expired[k] = {}
    BY <1>1 DEF ExpiredPast
  <2>4. /\ IsFiniteSet(expired[k] \cup E)
        /\ Cardinality(Live(k) \ E) + Cardinality(expired[k] \cup E)
             = Cardinality(Live(k)) + Cardinality(expired[k])
    BY <2>1, <2>2, <2>3, MoveBetween
  <2>5. /\ Cardinality(Live(k) \ E) \in Nat /\ Cardinality(Live(k) \ E) <= Cardinality(Live(k))
        /\ Cardinality(expired[k] \cup E) \in Nat
    BY <2>2, <2>4, FS_Subset, FS_CardinalityType
  <2>6. Cardinality(Live(k)) <= Cardinality(Holders(k))
    BY <1>1, NoMoreSlots
  <2>7. QED
    BY <2>1, <2>2, <2>4, <2>5, <2>6
<1>4. \A k \in Keys : Holders(k)' = Holders(k)
  BY <1>2 DEF Holders
<1>5. /\ [k \in Keys |-> stats'[k].success] = [k \in Keys |-> stats[k].success]
      /\ [k \in Keys |-> stats'[k].total] = [k \in Keys |-> stats[k].total]
      /\ [k \in Keys |-> Cardinality(Holders(k)')] = [k \in Keys |-> Cardinality(Holders(k))]
  BY <1>2, <1>4
<1>6. QED
  BY <1>3, <1>5 DEF Ledger!Lapse

\* A reservation is the admission of a call: every call in flight has its
\* slot, except for those the ledger has lost from sight.
LEMMA AdmitStep ==
    ASSUME RefInv, NEW r \in Requests, NEW k \in Keys, Reserve(r, k)
    PROVE  Ledger!Admit(k)
<1> DEFINE e == Touched(k)
<1>1. /\ TypeOK /\ Unlisted /\ stats \in [Keys -> Entry]
      /\ Cardinality(Holders(k)) <= Cardinality(Live(k)) + Cardinality(expired[k])
      /\ Cardinality(Live(k)) \in Nat /\ Cardinality(expired[k]) \in Nat
      /\ Cardinality(Holders(k)) \in Nat
  BY KeyIsFinite DEF RefInv, PairInv, SlotInv, KeyCovered, TypeOK
<1>2. /\ stats' = [stats EXCEPT ![k] = e]
      /\ e.success + Cardinality(Live(k)) < e.total
      /\ expired' = expired
  BY DEF Reserve, PutEntry, HasRoom
<1>3. /\ e.total = stats[k].total
      /\ e.success \in {0, stats[k].success}
      /\ e.success \in Nat /\ e.total \in Nat
  BY <1>1, TouchedTotal, TouchedEntry, QuotaAssumption DEF Entry
<1>4. /\ Cardinality(Holders(k)') = Cardinality(Holders(k)) + 1
      /\ \A j \in Keys \ {k} : Holders(j)' = Holders(j)
  BY <1>1, HoldersReserve, HoldersCount, FS_AddElement
<1>5. /\ stats'[k] = e
      /\ \A j \in Keys \ {k} : stats'[j] = stats[j]
  BY <1>1, <1>2
<1>6. [j \in Keys |-> stats'[j].success] = [[j \in Keys |-> stats[j].success] EXCEPT ![k] = e.success]
  BY <1>5
<1>7. [j \in Keys |-> stats'[j].total] = [j \in Keys |-> stats[j].total]
  BY <1>3, <1>5
<1>8. [j \in Keys |-> Cardinality(Holders(j)')]
        = [[j \in Keys |-> Cardinality(Holders(j))] EXCEPT ![k] = Cardinality(Holders(k)) + 1]
  BY <1>4
<1>9. e.success + Cardinality(Holders(k)) < stats[k].total + Cardinality(expired[k])
  BY <1>1, <1>2, <1>3
<1>10. [j \in Keys |-> Cardinality(expired'[j])] = [j \in Keys |-> Cardinality(expired[j])]
  BY <1>2
<1>11. QED
  BY <1>3, <1>6, <1>7, <1>8, <1>9, <1>10 DEF Ledger!Admit, Ledger!Usage

\* What the end of an attempt does to the calls in flight.
LEMMA EndedHolders ==
    ASSUME TypeOK, NEW r \in Requests, Ends(r), NEW k \in Keys, k = key[r]
    PROVE  /\ Cardinality(Holders(k)) > 0
           /\ [j \in Keys |-> Cardinality(Holders(j)')]
                = [[j \in Keys |-> Cardinality(Holders(j))]
                      EXCEPT ![k] = Cardinality(Holders(k)) - 1]
<1>1. /\ r \in Holders(k)
      /\ \A j \in Keys : Holders(j)' = Holders(j) \ {r}
      /\ \A j \in Keys \ {k} : r \notin Holders(j)
  BY HoldersEnds DEF Holders
<1>2. /\ Cardinality(Holders(k) \ {r}) = Cardinality(Holders(k)) - 1
      /\ Cardinality(Holders(k) \ {r}) \in Nat
  BY <1>1, HoldersCount, FS_RemoveElement, FS_CardinalityType
<1>3. \A j \in Keys \ {k} : Holders(j)' = Holders(j)
  BY <1>1
<1>4. Cardinality(Holders(k)') = Cardinality(Holders(k)) - 1
  BY <1>1, <1>2
<1>5. Cardinality(Holders(k)) > 0
  BY <1>2, HoldersCount
<1>6. QED
  BY <1>3, <1>4, <1>5

\* A good answer commits the call.
LEMMA CommitStep ==
    ASSUME TypeOK, Unlisted, NEW r \in Requests, Succeed(r), NEW k \in Keys, k = key[r]
    PROVE  Ledger!Commit(k)
<1>1. Ends(r) /\ k \in Keys /\ model[r] \in Models
  BY SucceedEnds, HoldersEnds
<1>2. Touched(k) \in Entry /\ Touched(k).success \in {0, stats[k].success} /\ Touched(k).total = stats[k].total
  BY <1>1, TouchedEntry, TouchedTotal
<1>3. stats' = [stats EXCEPT ![k] = Counted(Touched(k), model[r])] /\ stats \in [Keys -> Entry]
  BY DEF Succeed, PutEntry, TypeOK
<1>4. /\ stats'[k].success = Touched(k).success + 1
      /\ stats'[k].total = stats[k].total
      /\ \A j \in Keys \ {k} : stats'[j] = stats[j]
  BY <1>1, <1>2, <1>3, CountedEntry
<1>5. [j \in Keys |-> stats'[j].success]
        = [[j \in Keys |-> stats[j].success] EXCEPT ![k] = Touched(k).success + 1]
  BY <1>4
<1>6. [j \in Keys |-> stats'[j].total] = [j \in Keys |-> stats[j].total]
  BY <1>4
<1>7. [j \in Keys |-> Cardinality(expired'[j])] = [j \in Keys |-> Cardinality(expired[j])]
  BY <1>1 DEF Ends
<1>8. QED
  BY <1>1, <1>2, <1>5, <1>6, <1>7, EndedHolders DEF Ledger!Commit, Ledger!Usage

\* Any other end of an attempt aborts the call.
LEMMA AbortStep ==
    ASSUME TypeOK, Unlisted, NEW r \in Requests, Aborts(r), NEW k \in Keys, k = key[r]
    PROVE  Ledger!Abort(k)
<1>1. Ends(r) /\ k \in Keys
  BY HoldersEnds DEF Aborts
<1>2. Touched(k).success \in {0, stats[k].success} /\ Touched(k).total = stats[k].total
  BY <1>1, TouchedEntry, TouchedTotal
<1>3. PICK u \in {0, stats[k].success} :
         /\ stats'[k].success = u
         /\ stats'[k].total = stats[k].total
         /\ \A j \in Keys \ {k} : stats'[j] = stats[j]
  BY <1>1, <1>2 DEF Aborts, TypeOK
<1>4. [j \in Keys |-> stats'[j].success] = [[j \in Keys |-> stats[j].success] EXCEPT ![k] = u]
  BY <1>3
<1>5. [j \in Keys |-> stats'[j].total] = [j \in Keys |-> stats[j].total]
  BY <1>3
<1>6. [j \in Keys |-> Cardinality(expired'[j])] = [j \in Keys |-> Cardinality(expired[j])]
  BY <1>1 DEF Ends
<1>7. QED
  BY <1>1, <1>3, <1>4, <1>5, <1>6, EndedHolders DEF Ledger!Abort, Ledger!Usage

LEMMA LedgerStep ==
    ASSUME RefInv, RefInv', [Next]_vars
    PROVE  Ledger!Next
<1>1. TypeOK /\ Unlisted /\ TypeOK'
  BY DEF RefInv, PairInv, SlotInv
<1>2. CASE UNCHANGED <<key, expired>> /\ \A k \in Keys : CountsStay(k)
  BY <1>1, <1>2, AdministerStep DEF Ledger!Next
<1>2a. CASE Tick
  BY <1>2a, LapseStep DEF Ledger!Next
<1>3. ASSUME NEW r \in Requests, NEW k \in Keys, Reserve(r, k)
      PROVE  Ledger!Next
  BY <1>3, AdmitStep DEF Ledger!Next
<1>4. ASSUME NEW r \in Requests, Succeed(r)
      PROVE  Ledger!Next
  <2>1. PICK k \in Keys : k = key[r]
    BY <1>1, <1>4, SucceedEnds, HoldersEnds
  <2>2. Ledger!Commit(k)
    BY <1>1, <1>4, <2>1, CommitStep
  <2>3. QED
    BY <2>2 DEF Ledger!Next
<1>5. ASSUME NEW r \in Requests, Aborts(r)
      PROVE  Ledger!Next
  <2>1. PICK k \in Keys : k = key[r]
    BY <1>1, <1>5, HoldersEnds DEF Aborts
  <2>2. Ledger!Abort(k)
    BY <1>1, <1>5, <2>1, AbortStep
  <2>3. QED
    BY <2>2 DEF Ledger!Next
<1>6. QED
  BY <1>1, <1>2, <1>2a, <1>3, <1>4, <1>5, LedgerKinds

LEMMA LedgerInit == Init => Ledger!Init
<1> SUFFICES ASSUME Init
             PROVE  Ledger!Init
  OBVIOUS
<1>1. \A k \in Keys : Holders(k) = {} /\ expired[k] = {} /\ stats[k].success = 0 /\ stats[k].total = DefaultTotal
  BY QuotaAssumption DEF Init, DefaultEntry, Holders
<1>2. Cardinality({}) = 0
  BY FS_EmptySet
<1>3. /\ [k \in Keys |-> stats[k].success] = [k \in Keys |-> 0]
      /\ [k \in Keys |-> Cardinality(Holders(k))] = [k \in Keys |-> 0]
      /\ [k \in Keys |-> Cardinality(expired[k])] = [k \in Keys |-> 0]
      /\ [k \in Keys |-> stats[k].total] \in [Keys -> TotalLimits \cup {DefaultTotal}]
  BY <1>1, <1>2
<1>4. QED
  BY <1>3 DEF Ledger!Init

\* The table of reservations implements the ledger: every step, of any
\* request, of the administrator or of the clock, admits, commits or aborts
\* one call, resets counts and limits, or loses calls in flight from sight,
\* whatever the lives of the reservations and of the attempts.
THEOREM TableImplementsLedger == Spec => LedgerSpec
<1>1. RefInv /\ RefInv' /\ [Next]_vars => [Ledger!Next]_Ledger!ledger
  BY LedgerStep
<1>2. QED
  BY <1>1, LedgerInit, RefInvAlways, PTL DEF Spec, LedgerSpec, Ledger!Spec

-----------------------------------------------------------------------------
(* Termination                                                               *)

\* The steps a request may still take: for each attempt that is left as many
\* as a selection that tries every key, the call and the pause have together.
Round == Cardinality(Keys) + 4
StepsLeft(r) ==
    CASE pc[r] = "idle" -> Round * (MaxRetries + 1)
      [] pc[r] = "selecting" -> Round * (MaxRetries - attempt[r]) + 3 + Cardinality(Keys \ excluded[r])
      [] pc[r] = "upstream" -> Round * (MaxRetries - attempt[r]) + 2
      [] pc[r] = "sleeping" -> Round * (MaxRetries - attempt[r]) + 1
      [] pc[r] = "done" -> 0

\* Where a request is.
Turn(r) == <<pc[r], attempt[r], excluded[r]>>

StepsRunOut == [][\A r \in Requests : Turn(r)' # Turn(r) => StepsLeft(r)' < StepsLeft(r)]_vars

\* What a request has before it begins.
Fresh == \A r \in Requests : pc[r] = "idle" => attempt[r] = 0

LEMMA Rounds ==
    ASSUME IsFiniteSet(Keys)
    PROVE  /\ Round \in Nat /\ Round > 0 /\ MaxRetries \in Nat
           /\ \A S : Cardinality(Keys \ S) \in Nat /\ Cardinality(Keys \ S) + 4 <= Round
           /\ \A a \in 0..MaxRetries : Round * (MaxRetries - a) \in Nat
           /\ \A a \in 0..MaxRetries : a < MaxRetries =>
                  Round * (MaxRetries - a) = Round * (MaxRetries - (a + 1)) + Round
           /\ Round * (MaxRetries + 1) = Round * (MaxRetries - 0) + Round
<1>1. Cardinality(Keys) \in Nat
  BY FS_CardinalityType
<1>2. ASSUME NEW S
      PROVE  Cardinality(Keys \ S) \in Nat /\ Cardinality(Keys \ S) <= Cardinality(Keys)
  <2>1. Keys \ S \subseteq Keys
    OBVIOUS
  <2>2. QED
    BY <2>1, FS_Subset, FS_CardinalityType
<1> DEFINE w == Round
<1>3. w \in Nat /\ w > 0 /\ w = Cardinality(Keys) + 4 /\ MaxRetries \in Nat
  BY <1>1, QuotaAssumption DEF Round
<1>4. \A S : Cardinality(Keys \ S) \in Nat /\ Cardinality(Keys \ S) + 4 <= w
  <2>1. TAKE S
  <2> DEFINE c == Cardinality(Keys \ S)
             n == Cardinality(Keys)
  <2>2. c \in Nat /\ n \in Nat /\ c <= n /\ w = n + 4
    BY <1>1, <1>2, <1>3
  <2> HIDE DEF c, n, w
  <2>3. c \in Nat /\ c + 4 <= w
    BY <2>2
  <2>4. QED
    BY <2>3 DEF c
<1> HIDE DEF w
<1>5. \A n \in Nat : w * n \in Nat /\ w * (n + 1) = w * n + w
  BY <1>3
<1>6. ASSUME NEW a \in 0..MaxRetries
      PROVE  /\ MaxRetries - a \in Nat
             /\ a < MaxRetries => MaxRetries - (a + 1) \in Nat /\ MaxRetries - a = (MaxRetries - (a + 1)) + 1
  BY <1>3
<1>7. \A a \in 0..MaxRetries :
        /\ w * (MaxRetries - a) \in Nat
        /\ a < MaxRetries => w * (MaxRetries - a) = w * (MaxRetries - (a + 1)) + w
  BY <1>5, <1>6
<1>8. MaxRetries - 0 = MaxRetries
  BY <1>3
<1>9. w * (MaxRetries + 1) = w * (MaxRetries - 0) + w
  BY <1>3, <1>5, <1>8
<1>10. QED
  BY <1>3, <1>4, <1>7, <1>9 DEF w

\* The same, of the parts of a request by themselves.
Amount(p, a, S) ==
    CASE p = "idle" -> Round * (MaxRetries + 1)
      [] p = "selecting" -> Round * (MaxRetries - a) + 3 + Cardinality(Keys \ S)
      [] p = "upstream" -> Round * (MaxRetries - a) + 2
      [] p = "sleeping" -> Round * (MaxRetries - a) + 1
      [] p = "done" -> 0

\* The ways a request can go.
Goes(p, a, S, q, b, T) ==
    \/ p = "idle" /\ q = "selecting" /\ a = 0 /\ b = 0 /\ T = S
    \/ p = "selecting" /\ q = "upstream" /\ b = a
    \/ p = "selecting" /\ q = "selecting" /\ b = a /\ \E k \in Keys \ S : T = S \cup {k}
    \/ p = "upstream" /\ q = "sleeping" /\ b = a
    \/ p = "sleeping" /\ q = "selecting" /\ a < MaxRetries /\ b = a + 1
    \/ p # "idle" /\ p # "done" /\ q = "done"

LEMMA GoesDown ==
    ASSUME IsFiniteSet(Keys), NEW p \in {"idle", "selecting", "upstream", "sleeping", "done"}, NEW q,
           NEW a \in 0..MaxRetries, NEW b, NEW S \in SUBSET Keys, NEW T, Goes(p, a, S, q, b, T)
    PROVE  Amount(q, b, T) < Amount(p, a, S)
<1> DEFINE w(x) == Round * (MaxRetries - x)
           c(X) == Cardinality(Keys \ X)
<1>1. /\ Round \in Nat /\ Round > 0 /\ w(a) \in Nat /\ MaxRetries \in Nat
      /\ \A X : c(X) \in Nat /\ c(X) + 4 <= Round
      /\ a < MaxRetries => w(a) = w(a + 1) + Round /\ w(a + 1) \in Nat
      /\ Round * (MaxRetries + 1) = w(0) + Round
  <2>1. a < MaxRetries => a + 1 \in 0..MaxRetries
    BY QuotaAssumption
  <2>2. QED
    BY <2>1, Rounds
<1> HIDE DEF w, c
<1>2. /\ Amount("idle", a, S) = w(0) + Round
      /\ Amount("done", b, T) = 0
      /\ \A x, X : /\ Amount("selecting", x, X) = w(x) + 3 + c(X)
                   /\ Amount("upstream", x, X) = w(x) + 2
                   /\ Amount("sleeping", x, X) = w(x) + 1
  BY <1>1 DEF Amount, w, c
<1>3. CASE p = "idle" /\ q = "selecting" /\ a = 0 /\ b = 0 /\ T = S
  <2>1. c(S) \in Nat /\ c(S) + 4 <= Round
    BY <1>1
  <2>2. Amount(p, a, S) = w(0) + Round /\ Amount(q, b, T) = w(0) + 3 + c(S) /\ w(0) \in Nat
    BY <1>1, <1>2, <1>3
  <2>3. QED
    BY <1>1, <2>1, <2>2
<1>4. CASE p = "selecting" /\ q = "upstream" /\ b = a
  <2>1. Amount(p, a, S) = w(a) + 3 + c(S) /\ Amount(q, b, T) = w(a) + 2 /\ c(S) \in Nat
    BY <1>1, <1>2, <1>4
  <2>2. QED
    BY <1>1, <2>1
<1>5. ASSUME p = "selecting", q = "selecting", b = a, NEW k \in Keys \ S, T = S \cup {k}
      PROVE  Amount(q, b, T) < Amount(p, a, S)
  <2>1. Keys \ T = (Keys \ S) \ {k} /\ IsFiniteSet(Keys \ S)
    BY <1>5, FS_Difference
  <2>2. c(T) = c(S) - 1
    BY <1>5, <2>1, FS_RemoveElement DEF c
  <2>3. c(S) \in Nat /\ Amount(p, a, S) = w(a) + 3 + c(S) /\ Amount(q, b, T) = w(a) + 3 + c(T)
    BY <1>1, <1>2, <1>5
  <2>4. QED
    BY <1>1, <2>2, <2>3
<1>6. CASE p = "upstream" /\ q = "sleeping" /\ b = a
  <2>1. Amount(p, a, S) = w(a) + 2 /\ Amount(q, b, T) = w(a) + 1
    BY <1>2, <1>6
  <2>2. QED
    BY <1>1, <2>1
<1>7. CASE p = "sleeping" /\ q = "selecting" /\ a < MaxRetries /\ b = a + 1
  <2>1. Amount(p, a, S) = w(a) + 1 /\ Amount(q, b, T) = w(a + 1) + 3 + c(T)
    BY <1>2, <1>7
  <2>2. c(T) \in Nat /\ c(T) + 4 <= Round /\ w(a) = w(a + 1) + Round /\ w(a + 1) \in Nat
    BY <1>1, <1>7
  <2>3. QED
    BY <1>1, <2>1, <2>2
<1>8. CASE p # "idle" /\ p # "done" /\ q = "done"
  <2>1. Amount(q, b, T) = 0 /\ c(S) \in Nat
    BY <1>1, <1>2, <1>8
  <2>2. \/ Amount(p, a, S) = w(a) + 3 + c(S) \/ Amount(p, a, S) = w(a) + 2 \/ Amount(p, a, S) = w(a) + 1
    BY <1>2, <1>8
  <2>3. QED
    BY <1>1, <2>1, <2>2
<1>9. QED
  BY <1>3, <1>4, <1>5, <1>6, <1>7, <1>8 DEF Goes

LEMMA RequestGoes ==
    ASSUME TypeOK, Fresh, NEW r \in Requests, RequestStep(r)
    PROVE  /\ Goes(pc[r], attempt[r], excluded[r], pc'[r], attempt'[r], excluded'[r])
           /\ \A q \in Requests : q # r => Turn(q)' = Turn(q)
<1>1. /\ pc \in [Requests -> {"idle", "selecting", "upstream", "sleeping", "done"}]
      /\ attempt \in [Requests -> 0..MaxRetries] /\ excluded \in [Requests -> SUBSET Keys]
      /\ pc[r] = "sleeping" => attempt[r] < MaxRetries
      /\ pc[r] = "idle" => attempt[r] = 0
  BY DEF TypeOK, Fresh
<1>2. ASSUME NEW m \in Models, Start(r, m)
      PROVE  /\ Goes(pc[r], attempt[r], excluded[r], pc'[r], attempt'[r], excluded'[r])
             /\ \A q \in Requests : q # r => Turn(q)' = Turn(q)
  BY <1>1, <1>2 DEF Start, Goes, Turn
<1>3. ASSUME NEW k \in Keys, Reserve(r, k) \/ Blocked(r, k)
      PROVE  /\ Goes(pc[r], attempt[r], excluded[r], pc'[r], attempt'[r], excluded'[r])
             /\ \A q \in Requests : q # r => Turn(q)' = Turn(q)
  BY <1>1, <1>3 DEF Reserve, Blocked, Goes, Turn
<1>4. CASE GiveUp(r) \/ Succeed(r) \/ Fail(r) \/ Disconnect(r)
  BY <1>1, <1>4 DEF GiveUp, Succeed, Fail, Disconnect, Finish, Holding, Goes, Turn
<1>5. CASE BackOff(r) \/ Raise(r)
  BY <1>1, <1>5 DEF BackOff, Raise, Goes, Turn
<1>6. CASE Retry(r)
  BY <1>1, <1>6 DEF Retry, Goes, Turn
<1>7. QED
  BY <1>2, <1>3, <1>4, <1>5, <1>6 DEF RequestStep

LEMMA FreshStep == TypeOK /\ Fresh /\ [Next]_vars => Fresh'
<1> SUFFICES ASSUME TypeOK, Fresh, [Next]_vars, NEW q \in Requests, pc'[q] = "idle"
             PROVE  attempt'[q] = 0
  BY DEF Fresh
<1>1. ASSUME NEW r \in Requests, RequestStep(r)
      PROVE  attempt'[q] = 0
  <2>1. Goes(pc[r], attempt[r], excluded[r], pc'[r], attempt'[r], excluded'[r])
    BY <1>1, RequestGoes
  <2>2. q # r
    BY <2>1 DEF Goes
  <2>3. Turn(q)' = Turn(q)
    BY <1>1, <2>2, RequestGoes
  <2>4. QED
    BY <2>3 DEF Turn, Fresh
<1>2. AdminStep \/ Tick \/ UNCHANGED vars => UNCHANGED requestVars
  BY DEF AdminStep, SetLimits, DeleteStats, ResetStats, ViewStats, Tick, vars
<1>3. CASE UNCHANGED requestVars
  BY <1>3 DEF requestVars, Fresh
<1>4. QED
  BY <1>1, <1>2, <1>3 DEF Next

\* No request goes on for ever: whatever the other requests, the
\* administrator and the calls themselves do, each of its steps is one of the
\* at most Round * (MaxRetries + 1) it has.  What RequestsAnswered needs beyond
\* this is only that it takes them (the scan of the keys and the retry loop of
\* send_assembly_request).
THEOREM RequestsRunOut ==
    ASSUME IsFiniteSet(Keys)
    PROVE  Spec => /\ [](\A r \in Requests : StepsLeft(r) \in 0..(Round * (MaxRetries + 1)))
                   /\ StepsRunOut
<1>1. ASSUME TypeOK, Fresh, NEW r \in Requests
      PROVE  /\ StepsLeft(r) = Amount(pc[r], attempt[r], excluded[r])
             /\ pc[r] \in {"idle", "selecting", "upstream", "sleeping", "done"}
             /\ attempt[r] \in 0..MaxRetries /\ excluded[r] \in SUBSET Keys
             /\ pc[r] = "idle" => attempt[r] = 0
  BY <1>1 DEF StepsLeft, Amount, TypeOK, Fresh
<1>2. ASSUME TypeOK, Fresh, NEW r \in Requests
      PROVE  StepsLeft(r) \in 0..(Round * (MaxRetries + 1))
  <2> DEFINE a == attempt[r]
             w == Round * (MaxRetries - a)
             c == Cardinality(Keys \ excluded[r])
             top == Round * (MaxRetries + 1)
  <2>1. a \in 0..MaxRetries /\ c \in Nat /\ c + 4 <= Round /\ w \in Nat /\ Round \in Nat
    BY <1>1, <1>2, Rounds
  <2>2. w + Round <= top /\ top \in Nat
    <3>1. \A x, y, z \in Nat : x <= y => z * x <= z * y /\ z * y \in Nat
      OBVIOUS
    <3>2. (MaxRetries - a) + 1 \in Nat /\ MaxRetries + 1 \in Nat /\ (MaxRetries - a) + 1 <= MaxRetries + 1
      BY <2>1, QuotaAssumption
    <3>3. Round * ((MaxRetries - a) + 1) <= Round * (MaxRetries + 1) /\ Round * (MaxRetries + 1) \in Nat
      BY <2>1, <3>1, <3>2
    <3>4. Round * ((MaxRetries - a) + 1) = w + Round
      BY <2>1, QuotaAssumption
    <3>5. QED
      BY <3>3, <3>4
  <2>3. StepsLeft(r) \in {top, w + 3 + c, w + 2, w + 1, 0}
    BY <1>1, <1>2 DEF StepsLeft
  <2> HIDE DEF w, c, top
  <2>4. StepsLeft(r) \in 0..top
    BY <2>1, <2>2, <2>3
  <2>5. QED
    BY <2>4 DEF top
<1>3. ASSUME TypeOK, Fresh, TypeOK', Fresh', Next, NEW q \in Requests, Turn(q)' # Turn(q)
      PROVE  StepsLeft(q)' < StepsLeft(q)
  <2>1. AdminStep \/ Tick => Turn(q)' = Turn(q)
    BY DEF AdminStep, SetLimits, DeleteStats, ResetStats, ViewStats, Tick, requestVars, Turn
  <2>2. PICK r \in Requests : RequestStep(r)
    BY <1>3, <2>1 DEF Next
  <2>3. r = q
    BY <1>3, <2>2, RequestGoes
  <2>4. Goes(pc[q], attempt[q], excluded[q], pc'[q], attempt'[q], excluded'[q])
    BY <1>3, <2>2, <2>3, RequestGoes
  <2>5. Amount(pc'[q], attempt'[q], excluded'[q]) < Amount(pc[q], attempt[q], excluded[q])
    BY <1>1, <1>3, <2>4, GoesDown
  <2>6. StepsLeft(q)' = Amount(pc'[q], attempt'[q], excluded'[q])
    BY <1>3 DEF StepsLeft, Amount
  <2>7. QED
    BY <1>1, <1>3, <2>5, <2>6
<1>4. ASSUME TypeOK, Fresh, TypeOK', Fresh', [Next]_vars
      PROVE  [\A r \in Requests : Turn(r)' # Turn(r) => StepsLeft(r)' < StepsLeft(r)]_vars
  BY <1>3, <1>4
<1>5. Init => Fresh
  BY DEF Init, Fresh
<1>6. Spec => []TypeOK /\ []Fresh
  BY <1>5, FreshStep, TypeCorrect, PTL DEF Spec
<1>7. TypeOK /\ Fresh => \A r \in Requests : StepsLeft(r) \in 0..(Round * (MaxRetries + 1))
  BY <1>2
<1>8. TypeOK /\ Fresh /\ TypeOK' /\ Fresh' /\ [Next]_vars =>
        [\A r \in Requests : Turn(r)' # Turn(r) => StepsLeft(r)' < StepsLeft(r)]_vars
  BY <1>4
<1>9. QED
  BY <1>6, <1>7, <1>8, PTL DEF Spec, StepsRunOut
=============================================================================
