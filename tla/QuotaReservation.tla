--------------------------- MODULE QuotaReservation ---------------------------
(***************************************************************************)
(* The daily quota of the upstream keys: the counters and the table of     *)
(* reservations of src/src/stats/unified_stats.py, and the attempt loop of *)
(* send_assembly_request (src/src/services/assembly_client.py) that        *)
(* reserves a slot, sends the call and gives the slot back.                *)
(*                                                                         *)
(* An action is what the event loop runs between two suspensions.  A key   *)
(* stands for its masked form, under which the code files the counters.    *)
(* The choice of candidate keys belongs to the selectors and is left open: *)
(* any key not yet excluded may be tried, or none.                         *)
(***************************************************************************)
EXTENDS Naturals, FiniteSets

CONSTANTS
    Keys,           \* upstream API keys (masked)
    Models,         \* model names
    Requests,       \* client requests; each is handled once
    NoKey,          \* the key of a request that holds no reservation
    NoModel,        \* the model of a request not yet started
    MaxRetries,     \* get_retry_429_max_retries()
    RetryEnabled,   \* get_retry_429_enabled()
    PendingTTL,     \* QUOTA_RESERVATION_TTL: life of a reservation
    MaxHold,        \* the longest time an attempt takes, pause before a retry included
    DayLength,      \* time between two daily resets
    MaxTime,        \* bound: the last instant the model explores
    DefaultTotal,   \* DEFAULT_DAILY_LIMIT_TOTAL
    TotalLimits,    \* total limits an administrator may set
    ModelLimits     \* limits per model an administrator may set; 0: no limit

ASSUME QuotaAssumption ==
    /\ NoKey \notin Keys
    /\ NoModel \notin Models
    /\ MaxRetries \in Nat
    /\ RetryEnabled \in BOOLEAN
    /\ PendingTTL \in Nat \ {0}
    /\ MaxHold \in Nat
    /\ DayLength \in Nat \ {0}
    /\ MaxTime \in Nat
    /\ DefaultTotal \in Nat \ {0}
    /\ TotalLimits \subseteq Nat \ {0}
    /\ ModelLimits \subseteq [Models -> Nat]

ASSUME RequestsFinite == IsFiniteSet(Requests)

VARIABLES
    now,        \* the clock
    stats,      \* _stats: the entry of each key
    known,      \* the keys that have an entry in _stats
    pending,    \* _pending: the reservations of each key
    pc,         \* where each request is
    key,        \* the key a request holds a reservation of
    model,      \* the model a request asks for
    attempt,    \* number of the current attempt
    excluded,   \* excluded_indices of the current selection
    since,      \* when the current reservation was made
    expired     \* history: the reservations of each key that ran out

tableVars == <<stats, known, pending>>
requestVars == <<pc, key, model, attempt, excluded, since>>
vars == <<now, tableVars, requestVars, expired>>

-----------------------------------------------------------------------------
(* Entries *)

\* The next reset, strictly in the future.
NextReset(t) == t - (t % DayLength) + DayLength

Entry ==
    [success : Nat, ok : [Models -> Nat], total : TotalLimits \cup {DefaultTotal},
     perModel : [Models -> Nat], resetAt : Nat]

DefaultEntry(t) ==
    [success  |-> 0,
     ok       |-> [m \in Models |-> 0],
     total    |-> DefaultTotal,
     perModel |-> [m \in Models |-> 0],
     resetAt  |-> NextReset(t)]

\* Counters back to zero, limits kept.
ResetUsage(e, t) ==
    [e EXCEPT !.success = 0, !.ok = [m \in Models |-> 0], !.resetAt = NextReset(t)]

\* The entry as any operation finds it: created, or reset when its day is over.
Touched(k) ==
    IF k \notin known THEN DefaultEntry(now)
    ELSE IF now >= stats[k].resetAt THEN ResetUsage(stats[k], now)
    ELSE stats[k]

PutEntry(k, e) ==
    /\ stats' = [stats EXCEPT ![k] = e]
    /\ known' = known \cup {k}

Bumped(f, m) == [f EXCEPT ![m] = @ + 1]

Counted(e, m) == [e EXCEPT !.success = e.success + 1, !.ok = Bumped(e.ok, m)]

-----------------------------------------------------------------------------
(* The table of reservations.  The code keeps a list of deadlines per key  *)
(* and model; here each deadline also carries the attempt it was made for, *)
(* which no operation reads, to keep equal deadlines apart.                *)

Slot == [req : Requests, attempt : Nat, model : Models, exp : Nat]

Bucket(S, m) == {s \in S : s.model = m}

\* The reservations of k that have not expired.
Live(k) == {s \in pending[k] : s.exp > now}

Earliest(S) == {s \in S : \A u \in S : s.exp <= u.exp}

\* Variants of HasRoom: without the calls in flight; off by one.
HasRoomNoPending(e, S, m) ==
    /\ e.success < e.total
    /\ e.perModel[m] # 0 => e.ok[m] < e.perModel[m]
HasRoomOffByOne(e, S, m) ==
    /\ e.success + Cardinality(S) <= e.total
    /\ e.perModel[m] # 0 => e.ok[m] + Cardinality(Bucket(S, m)) <= e.perModel[m]

\* May the entry e take one more call for m, when the live reservations S of
\* its key count as calls?
HasRoom(e, S, m) ==
    /\ e.success + Cardinality(S) < e.total
    /\ e.perModel[m] # 0 => e.ok[m] + Cardinality(Bucket(S, m)) < e.perModel[m]

\* Variant of ReleaseOne: any slot of the key, whatever its model.
ReleaseAnyModel(k, m) ==
    \/ /\ Live(k) = {}
       /\ UNCHANGED pending
    \/ \E s \in Earliest(Live(k)) :
           pending' = [pending EXCEPT ![k] = Live(k) \ {s}]

\* Give back one slot of k for m: the one of the bucket that expires first,
\* whoever reserved it; none when the bucket is empty.
ReleaseOne(k, m) ==
    LET bucket == Bucket(Live(k), m)
    IN  \/ /\ bucket = {}
           /\ pending' = [pending EXCEPT ![k] = Live(k)]
        \/ \E s \in Earliest(bucket) :
               pending' = [pending EXCEPT ![k] = Live(k) \ {s}]

-----------------------------------------------------------------------------
Init ==
    /\ now = 0
    /\ stats = [k \in Keys |-> DefaultEntry(0)]
    /\ known = {}
    /\ pending = [k \in Keys |-> {}]
    /\ pc = [r \in Requests |-> "idle"]
    /\ key = [r \in Requests |-> NoKey]
    /\ model = [r \in Requests |-> NoModel]
    /\ attempt = [r \in Requests |-> 0]
    /\ excluded = [r \in Requests |-> {}]
    /\ since = [r \in Requests |-> 0]
    /\ expired = [k \in Keys |-> {}]

Holding(r) == pc[r] \in {"upstream", "sleeping"}

\* A request arrives.
Start(r, m) ==
    /\ pc[r] = "idle"
    /\ pc' = [pc EXCEPT ![r] = "selecting"]
    /\ model' = [model EXCEPT ![r] = m]
    /\ UNCHANGED <<now, tableVars, key, attempt, excluded, since, expired>>

\* reserve_key_for_model on a candidate: the check and the reservation are
\* one step, under _reserve_lock and without a suspension.
Reserve(r, k) ==
    LET e == Touched(k)
        slot == [req |-> r, attempt |-> attempt[r], model |-> model[r],
                 exp |-> now + PendingTTL]
    IN  /\ pc[r] = "selecting"
        /\ k \notin excluded[r]
        /\ PutEntry(k, e)
        /\ HasRoom(e, Live(k), model[r])
        /\ pending' = [pending EXCEPT ![k] = Live(k) \cup {slot}]
        /\ pc' = [pc EXCEPT ![r] = "upstream"]
        /\ key' = [key EXCEPT ![r] = k]
        /\ since' = [since EXCEPT ![r] = now]
        /\ excluded' = [excluded EXCEPT ![r] = {}]
        /\ UNCHANGED <<now, model, attempt, expired>>

\* The candidate is full: the selection goes on without it.
Blocked(r, k) ==
    /\ pc[r] = "selecting"
    /\ k \notin excluded[r]
    /\ ~ HasRoom(Touched(k), Live(k), model[r])
    /\ PutEntry(k, Touched(k))
    /\ pending' = [pending EXCEPT ![k] = Live(k)]
    /\ excluded' = [excluded EXCEPT ![r] = @ \cup {k}]
    /\ UNCHANGED <<now, pc, key, model, attempt, since, expired>>

\* No candidate is left (or none is enabled): the client gets a 429 or a 503.
GiveUp(r) ==
    /\ pc[r] = "selecting"
    /\ pc' = [pc EXCEPT ![r] = "done"]
    /\ excluded' = [excluded EXCEPT ![r] = {}]
    /\ UNCHANGED <<now, tableVars, key, model, attempt, since, expired>>

\* Variant of EndAttempt: the reservation is never given back.
EndAttemptLeaks(r) ==
    /\ key' = [key EXCEPT ![r] = NoKey]
    /\ since' = [since EXCEPT ![r] = 0]
    /\ UNCHANGED pending

\* The attempt ends in the finally block: its reservation goes back.
EndAttempt(r) ==
    /\ ReleaseOne(key[r], model[r])
    /\ key' = [key EXCEPT ![r] = NoKey]
    /\ since' = [since EXCEPT ![r] = 0]

Finish(r) ==
    /\ EndAttempt(r)
    /\ pc' = [pc EXCEPT ![r] = "done"]
    /\ UNCHANGED <<now, model, attempt, excluded, expired>>

\* A good answer: record_call(success=True), return and finally in one step.
Succeed(r) ==
    /\ pc[r] = "upstream"
    /\ PutEntry(key[r], Counted(Touched(key[r]), model[r]))
    /\ Finish(r)

\* A bad answer that is returned to the client.  A plain call records the
\* failure, which touches the entry; a streaming one records nothing.
Fail(r) ==
    /\ pc[r] = "upstream"
    /\ \/ PutEntry(key[r], Touched(key[r]))
       \/ UNCHANGED <<stats, known>>
    /\ Finish(r)

\* A 429, a rate-limit 400 or an automatic ban: nothing is recorded, and the
\* attempt keeps its reservation while it sleeps before the next one.
BackOff(r) ==
    /\ pc[r] = "upstream"
    /\ RetryEnabled
    /\ attempt[r] < MaxRetries
    /\ pc' = [pc EXCEPT ![r] = "sleeping"]
    /\ UNCHANGED <<now, tableVars, key, model, attempt, excluded, since, expired>>

\* The call raises (timeout, connection lost): the failure is recorded and
\* retried whatever RetryEnabled says.
Raise(r) ==
    /\ pc[r] = "upstream"
    /\ attempt[r] < MaxRetries
    /\ PutEntry(key[r], Touched(key[r]))
    /\ pc' = [pc EXCEPT ![r] = "sleeping"]
    /\ UNCHANGED <<now, pending, key, model, attempt, excluded, since, expired>>

\* Variant of Retry: the attempt is not counted.
RetryUncounted(r) ==
    /\ pc[r] = "sleeping"
    /\ EndAttempt(r)
    /\ pc' = [pc EXCEPT ![r] = "selecting"]
    /\ UNCHANGED <<now, stats, known, model, attempt, excluded, expired>>

\* The sleep is over: finally, then the next iteration of the loop.
Retry(r) ==
    /\ pc[r] = "sleeping"
    /\ EndAttempt(r)
    /\ pc' = [pc EXCEPT ![r] = "selecting"]
    /\ attempt' = [attempt EXCEPT ![r] = @ + 1]
    /\ UNCHANGED <<now, stats, known, model, excluded, expired>>

\* The client goes away: the handler is cancelled at a suspension point.
Disconnect(r) ==
    \/ /\ Holding(r)
       /\ UNCHANGED <<stats, known>>
       /\ Finish(r)
    \/ GiveUp(r)

-----------------------------------------------------------------------------
(* Administration *)

\* update_daily_limits: either part of the limits may be left alone.
SetLimits(k) ==
    /\ k \in known
    /\ \E t \in TotalLimits \cup {stats[k].total},
          p \in ModelLimits \cup {stats[k].perModel} :
           PutEntry(k, [Touched(k) EXCEPT !.total = t, !.perModel = p])
    /\ UNCHANGED <<now, pending, requestVars, expired>>

\* delete_stats_for_key, delete_stats_for_masked_key, cleanup_invalid_keys:
\* the entry goes, the reservations stay.
DeleteStats(k) ==
    /\ k \in known
    /\ known' = known \ {k}
    /\ stats' = [stats EXCEPT ![k] = DefaultEntry(0)]
    /\ UNCHANGED <<now, pending, requestVars, expired>>

\* reset_stats of one key or of all.
ResetStats(S) ==
    /\ S # {}
    /\ S \subseteq known
    /\ stats' = [k \in Keys |-> IF k \in S THEN ResetUsage(Touched(k), now) ELSE stats[k]]
    /\ UNCHANGED <<now, known, pending, requestVars, expired>>

\* ensure_keys_exist and the statistics pages: entries are created or reset.
ViewStats(S) ==
    /\ stats' = [k \in Keys |-> IF k \in S \cup known THEN Touched(k) ELSE stats[k]]
    /\ known' = known \cup S
    /\ UNCHANGED <<now, pending, requestVars, expired>>

\* Time passes; no attempt outlives MaxHold.  A reservation whose time is up
\* no longer counts, although its call may still be in flight.
Tick ==
    /\ now < MaxTime
    /\ \A r \in Requests : Holding(r) => now < since[r] + MaxHold
    /\ now' = now + 1
    /\ expired' = [k \in Keys |-> expired[k] \cup {s \in Live(k) : s.exp = now + 1}]
    /\ UNCHANGED <<tableVars, requestVars>>

RequestStep(r) ==
    \/ \E m \in Models : Start(r, m)
    \/ \E k \in Keys : Reserve(r, k) \/ Blocked(r, k)
    \/ GiveUp(r) \/ Succeed(r) \/ Fail(r)
    \/ BackOff(r) \/ Raise(r) \/ Retry(r) \/ Disconnect(r)

AdminStep ==
    \/ \E k \in Keys : SetLimits(k) \/ DeleteStats(k) \/ ResetStats({k}) \/ ViewStats({k})
    \/ ResetStats(known)
    \/ ViewStats({})

Next ==
    \/ \E r \in Requests : RequestStep(r)
    \/ AdminStep
    \/ Tick

Spec == Init /\ [][Next]_vars

-----------------------------------------------------------------------------
(* Correctness *)

\* The calls in flight on a key, and those for one model.
Holders(k) == {r \in Requests : key[r] = k}
HoldersFor(k, m) == {r \in Holders(k) : model[r] = m}

\* Calls of k (of k for m) counted or in flight: what the limits are about.
Committed(k) == stats[k].success + Cardinality(Holders(k))
CommittedFor(k, m) == stats[k].ok[m] + Cardinality(HoldersFor(k, m))

TypeOK ==
    /\ now \in 0..MaxTime
    /\ stats \in [Keys -> Entry]
    /\ known \in SUBSET Keys
    /\ pending \in [Keys -> SUBSET Slot]
    /\ pc \in [Requests -> {"idle", "selecting", "upstream", "sleeping", "done"}]
    /\ key \in [Requests -> Keys \cup {NoKey}]
    /\ model \in [Requests -> Models \cup {NoModel}]
    /\ attempt \in [Requests -> 0..MaxRetries]
    /\ excluded \in [Requests -> SUBSET Keys]
    /\ since \in [Requests -> Nat]
    /\ expired \in [Keys -> SUBSET Slot]
    /\ \A r \in Requests : Holding(r) <=> key[r] \in Keys
    /\ \A r \in Requests : pc[r] # "idle" => model[r] \in Models
    /\ \A r \in Requests : pc[r] = "sleeping" => attempt[r] < MaxRetries

\* No reservation leaks: whatever way attempts end (answer, retry, exception,
\* cancellation), the table never holds more slots for a key and a model than
\* there are attempts in flight on them.  A leak would close the key to
\* calls it still has room for.
NoLeakedReservation ==
    \A k \in Keys, m \in Models :
        Cardinality(Bucket(pending[k], m)) <= Cardinality(HoldersFor(k, m))

\* Each attempt in flight keeps a slot of its key and model, except that each
\* reservation that ran out may leave one attempt without: a release takes
\* back one slot at most, and never a slot another attempt needs more often
\* than a reservation has run out.
HoldersCovered ==
    \A k \in Keys, m \in Models :
        Cardinality(HoldersFor(k, m)) <=
            Cardinality(Bucket(Live(k), m)) + Cardinality(Bucket(expired[k], m))

\* The calls of a key, and of a key for a model, grow only within the limit:
\* concurrent selections, retries, late answers, resets in the middle of a
\* call and changes of limits never push a key past its quota.  Only a
\* reservation that ran out can, and each by one call at most.
WithinLimit(k) ==
    /\ Committed(k)' > Committed(k) =>
          Committed(k)' <= stats'[k].total + Cardinality(expired'[k])
    /\ \A m \in Models :
          CommittedFor(k, m)' > CommittedFor(k, m) =>
             \/ stats'[k].perModel[m] = 0
             \/ CommittedFor(k, m)' <=
                    stats'[k].perModel[m] + Cardinality(Bucket(expired'[k], m))

CommitmentsWithinLimit == [][\A k \in Keys : WithinLimit(k)]_vars

\* The reason the reservations are paired with the attempts although a
\* release does not look for its own slot: because it takes the slot that
\* expires first, the slots due by t + PendingTTL are never more than the
\* attempts that began by t.
Due(k, m, t) == {s \in Bucket(pending[k], m) : s.exp <= t + PendingTTL}
Begun(k, m, t) == {r \in HoldersFor(k, m) : since[r] <= t}
SlotsCovered ==
    \A k \in Keys, m \in Models, t \in 0..MaxTime :
        Cardinality(Due(k, m, t)) <= Cardinality(Begun(k, m, t))

\* What the proofs add to it.  A slot was made by the current attempt of its
\* request or by an earlier one; a key has finitely many; an attempt began
\* in the past and has not outlived MaxHold; a key's attempts are covered as
\* those of each model are.
SlotsFresh ==
    \A k \in Keys : \A s \in pending[k] :
        /\ PendingTTL <= s.exp /\ s.exp <= now + PendingTTL
        /\ s.attempt <= attempt[s.req]
        /\ s.attempt = attempt[s.req] => pc[s.req] \notin {"idle", "selecting"}

SlotsFinite == \A k \in Keys : IsFiniteSet(pending[k])

HoldsBounded ==
    \A r \in Requests :
        key[r] \in Keys => since[r] <= now /\ now <= since[r] + MaxHold

KeyCovered ==
    \A k \in Keys : Cardinality(Holders(k)) <= Cardinality(Live(k)) + Cardinality(expired[k])

\* What ran out is finite and in the past.
ExpiredPast ==
    \A k \in Keys : IsFiniteSet(expired[k]) /\ \A s \in expired[k] : s.exp <= now

\* "绝不超计" (unified_stats.py:128-129): with the limits left alone, the
\* successful calls counted for a key never exceed its limit.
NeverOverCounted == \A k \in Keys : stats[k].success <= stats[k].total

\* The table implements the ledger.
Ledger == INSTANCE QuotaLedger WITH
    Accounts  <- Keys,
    Limits    <- TotalLimits \cup {DefaultTotal},
    used      <- [k \in Keys |-> stats[k].success],
    inflight  <- [k \in Keys |-> Cardinality(Holders(k))],
    overdraft <- [k \in Keys |-> Cardinality(expired[k])],
    limit     <- [k \in Keys |-> stats[k].total]

LedgerSpec == Ledger!Spec

-----------------------------------------------------------------------------
(* Progress.  The upstream client has bounded timeouts (httpx_client.py:32) *)
(* and the pauses end, so an attempt ends one way or another; the event     *)
(* loop runs every ready coroutine.                                         *)

Fairness ==
    \A r \in Requests :
        /\ WF_vars(GiveUp(r) \/ \E k \in Keys : Reserve(r, k) \/ Blocked(r, k))
        /\ WF_vars(Succeed(r) \/ Fail(r) \/ BackOff(r) \/ Raise(r))
        /\ WF_vars(Retry(r))

FairSpec == Spec /\ Fairness

\* Every request that arrives is answered: neither the scan of the keys nor
\* the retries go on for ever, whatever the other requests and the
\* administrator do to the counters meanwhile.
RequestsAnswered == \A r \in Requests : pc[r] = "selecting" ~> pc[r] = "done"
=============================================================================
