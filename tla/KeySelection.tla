---------------------------- MODULE KeySelection ----------------------------
(***************************************************************************)
(* Which upstream key a request is sent with: the selector of              *)
(* src/src/services/key_selector.py, the rate limits of                    *)
(* src/src/services/rate_limiter.py, and the loop of                       *)
(* src/src/services/assembly_client.py that asks both, keeps its own       *)
(* record of failed keys and reads the answers of the upstream.            *)
(*                                                                         *)
(* Positions count from 0, as in the code.  Times are kept as ages and     *)
(* delays, so that a run of the clock ages the failures and brings the     *)
(* resets nearer; an age past the timeout is as good as any other.         *)
(***************************************************************************)
EXTENDS Integers, Sequences, FiniteSets, FiniteSetsExt, Functions

CONSTANTS
    N,                  \* number of keys
    Requests,           \* the requests under way
    Modes,              \* aggregation modes to run in
    CallsPerRotation,
    Timeout,            \* _failure_timeout, 60 seconds
    Reports,            \* the rate limit headers the upstream may send
    BanCodes,           \* status codes that disable a key
    Affinities          \* orders of the keys that prompt caching may ask for

Missing == -1

ASSUME SelectionAssumption ==
    /\ N \in Nat \ {0} /\ Timeout \in Nat \ {0}
    /\ CallsPerRotation \in Nat \ {0}
    /\ Modes \subseteq {"round_robin", "random", "fill_first"} /\ Modes # {}
    /\ Affinities \subseteq Seq(0 .. N - 1)
    /\ Reports \subseteq [limit : Nat \cup {Missing}, remaining : Nat \cup {Missing},
                          reset : Nat \cup {Missing}]

Keys == 0 .. N - 1
Statuses == {"200", "400 request", "400 rate", "400 other", "429", "other"}
NoKey == -1

VARIABLES
    mode,       \* KeySelector._mode
    selector,   \* its _rr_counter, _call_counts and _failed_keys
    failed,     \* assembly_client._failed_keys: the age of each failure
    counter,    \* assembly_client._rr_counter
    limits,     \* RateLimiter._rate_limits
    enabled,    \* the keys the key manager has not disabled
    request,    \* per request: where its attempt is, its key, and the keys
                \* found without quota
    quiet       \* history: how long ago each key last failed

vars == <<mode, selector, failed, counter, limits, enabled, request, quiet>>

\* Bounds that change no choice: the counters matter modulo a number of keys,
\* and a count of calls only up to the rotation.
Cycle == LET factorial[n \in 0 .. N] == IF n = 0 THEN 1 ELSE n * factorial[n - 1]
         IN  factorial[N]

Waiting == [phase |-> "select", key |-> NoKey, full |-> {}]
Long == 2 * Timeout + 1

Init ==
    /\ mode \in Modes
    /\ selector = [rr |-> 0, calls |-> [k \in Keys |-> 0], failed |-> <<>>]
    /\ failed = <<>>
    /\ counter = 0
    /\ limits = <<>>
    /\ enabled \in SUBSET Keys
    /\ request = [r \in Requests |-> Waiting]
    /\ quiet = [k \in Keys |-> Long]

-----------------------------------------------------------------------------
(* Rate limits.                                                            *)

Reached(info) == info.reset = 0
Freed(info) == IF Reached(info) THEN [info EXCEPT !.remaining = info.limit] ELSE info
Exhausted(lim, k) == k \in DOMAIN lim /\ lim[k].remaining <= 0
AfterReset(lim) == [k \in DOMAIN lim |-> Freed(lim[k])]

\* A dictionary with one more entry, or with another in its place.
With(f, k, x) == [j \in DOMAIN f \cup {k} |-> IF j = k THEN x ELSE f[j]]

\* A report without a limit counts as a limit of 0, one without a remaining
\* as 0 left, one without a reset as never reset.
Counted(x) == IF x = Missing THEN 0 ELSE x
Reported(lim, k, h) ==
    IF h.limit = Missing /\ h.remaining = Missing THEN lim
    ELSE With(lim, k, [limit |-> Counted(h.limit), remaining |-> Counted(h.remaining),
                       reset |-> h.reset])

\* The keys of ks that may be the one reset first.
Earliest(lim, ks) ==
    LET timed == {k \in ks \cap DOMAIN lim : lim[k].reset # Missing}
    IN  {k \in timed : \A j \in timed : lim[k].reset <= lim[j].reset}

NextAvailable(lim, ks) ==
    LET free == {k \in ks : ~Exhausted(lim, k)}
    IN  IF free # {} THEN {Min(free)} ELSE Earliest(lim, ks)

-----------------------------------------------------------------------------
(* The selector.  A state of the choice has the fields of selector, the    *)
(* local counter, the key chosen and the keys passed over.                 *)

Clean(ages) == Restrict(ages, {k \in DOMAIN ages : ages[k] <= Timeout})
Nth(ks, i) == CHOOSE k \in ks : Cardinality({j \in ks : j < k}) = i

\* What select_next_key may leave when the keys in available are left.
Picked(c, available) ==
    LET picks == CASE mode = "random" -> available
                   [] mode = "fill_first" -> {Min(available)}
                   [] mode = "round_robin" -> {Nth(available, c.rr % Cardinality(available))}
    IN  {[c EXCEPT !.key = k, !.calls[k] = Min({@ + 1, CallsPerRotation + 1}),
                   !.rr = IF mode = "round_robin" THEN (@ + 1) % Cycle ELSE @] : k \in picks}

ShouldRotate(c, lim) ==
    \/ mode # "fill_first" /\ c.calls[c.key] >= CallsPerRotation
    \/ Exhausted(lim, c.key)

\* The selection proper, repeated once when the key is due for rotation.
Selected(c, lim, available) ==
    UNION { IF ShouldRotate(first, lim)
            THEN Picked([first EXCEPT !.calls[first.key] = 0], available)
            ELSE {first} : first \in Picked(c, available) }

Oldest(ages, ks) == {k \in ks : \A j \in ks : ages[k] >= ages[j]}

\* Variants that give up with the selector, or forget the client's record.
LastResortNone(c, lim, ages, ks) == {[c EXCEPT !.key = NoKey]}
SyncedNever(ages, known) == Clean(known)

\* When no key is left: one that is not exhausted though it failed, the one
\* reset first, the one whose failure is oldest, or any in turn.
LastResort(c, lim, ages, ks) ==
    LET next == NextAvailable(lim, ks)
        known == ks \cap DOMAIN ages
    IN  IF next # {} THEN {[c EXCEPT !.key = k] : k \in next}
        ELSE IF known # {} THEN {[c EXCEPT !.key = k] : k \in Oldest(ages, known)}
        ELSE {[c EXCEPT !.key = Nth(ks, c.counter % Cardinality(ks)),
                        !.counter = (@ + 1) % Cycle]}

\* The failures of the client the selector does not know count as new.
Synced(ages, known) ==
    LET left == Clean(known)
    IN  [k \in DOMAIN left \cup DOMAIN ages |-> IF k \in DOMAIN left THEN left[k] ELSE 0]

\* _next_key_index_async
NextKey(c, lim, ages) ==
    LET known == IF ages = <<>> THEN c.failed ELSE Synced(ages, c.failed)
        left == enabled \ c.passed
        cleaned == [c EXCEPT !.failed = Clean(known)]
        available == {k \in left : ~Exhausted(lim, k) /\ k \notin DOMAIN cleaned.failed}
    IN  IF left = {} THEN {[c EXCEPT !.failed = known, !.key = NoKey]}
        ELSE IF available # {} THEN Selected(cleaned, lim, available)
        ELSE LastResort(cleaned, lim, ages, left)

-----------------------------------------------------------------------------
(* The choice of a key with daily quota left.  full are the keys whose     *)
(* quota the statistics refuse to reserve.                                 *)

Undecided(c, full) == c.key = NoKey \/ c.key \in full
Try(cs, lim, ages, full) ==
    UNION { IF c.ended \/ ~Undecided(c, full) THEN {c}
            ELSE { IF d.key = NoKey THEN [d EXCEPT !.ended = TRUE]
                   ELSE IF d.key \in full THEN [d EXCEPT !.passed = @ \cup {d.key}]
                   ELSE d : d \in NextKey(c, lim, ages) } : c \in cs }

Tries(c, lim, ages, full) ==
    LET f[i \in 0 .. N] == IF i = 0 THEN {c} ELSE Try(f[i - 1], lim, ages, full)
    IN  f[N]

\* The keys prompt caching would have, by their places in the order.
Ranked(order, lim, ages) ==
    {i \in DOMAIN order : order[i] \in enabled \ DOMAIN ages /\ ~Exhausted(lim, order[i])}

Opening == [rr |-> selector.rr, calls |-> selector.calls, failed |-> selector.failed,
          counter |-> counter, key |-> NoKey, passed |-> {}, ended |-> FALSE]

Outcomes(order, lim, ages, full) ==
    LET ranked == Ranked(order, lim, ages)
        open == {i \in ranked : order[i] \notin full}
    IN  IF open # {} THEN {[Opening EXCEPT !.key = order[Min(open)]]}
        ELSE Tries([Opening EXCEPT !.passed = {order[i] : i \in ranked}], lim, ages, full)

\* The two answers of the gateway itself: some key was passed over for its
\* quota, or there was none to pass over.
Refusal(c) == IF c.passed # {} THEN "quota_exhausted" ELSE "no_available_keys"

Select(r) ==
    /\ request[r].phase = "select"
    /\ \E order \in Affinities, full \in SUBSET Keys :
         LET ages == Clean(failed)
             lim == AfterReset(limits)
         IN  \E c \in Outcomes(order, lim, ages, full) :
               /\ selector' = [rr |-> c.rr, calls |-> c.calls, failed |-> c.failed]
               /\ counter' = c.counter
               /\ failed' = ages
               /\ limits' = lim
               /\ request' = [request EXCEPT ![r] =
                    IF Undecided(c, full)
                    THEN [@ EXCEPT !.phase = Refusal(c), !.key = NoKey, !.full = full]
                    ELSE [@ EXCEPT !.phase = "sent", !.key = c.key, !.full = full]]
    /\ UNCHANGED <<mode, enabled, quiet>>

-----------------------------------------------------------------------------
(* The answer of the upstream.                                             *)

\* Whether the answer speaks of a rate limit.
RateLimited(status, h) ==
    \/ status \in {"429", "400 rate"}
    \/ status = "400 other" /\ h.remaining = 0

Banned(status) == status \in BanCodes

\* What follows selects again, be it the next attempt or the next request.
Answer(r, status, h) ==
    LET k == request[r].key
        failing == Banned(status) \/ RateLimited(status, h)
    IN  /\ request[r].phase = "sent"
        /\ limits' = Reported(limits, k, h)
        /\ enabled' = IF Banned(status) THEN enabled \ {k} ELSE enabled
        /\ failed' = IF failing THEN With(failed, k, 0) ELSE failed
        /\ quiet' = IF failing THEN [quiet EXCEPT ![k] = 0] ELSE quiet
        /\ request' = [request EXCEPT ![r] = Waiting]
        /\ UNCHANGED <<mode, selector, counter>>

Arrive(r) ==
    /\ request[r].phase \notin {"select", "sent"}
    /\ request' = [request EXCEPT ![r] = Waiting]
    /\ UNCHANGED <<mode, selector, failed, counter, limits, enabled, quiet>>

\* Every reader drops the expired failures first: they may as well go at once.
Older(ages) == Clean([k \in DOMAIN ages |-> ages[k] + 1])

Tick ==
    /\ failed' = Older(failed)
    /\ selector' = [selector EXCEPT !.failed = Older(@)]
    /\ limits' = [k \in DOMAIN limits |-> [limits[k] EXCEPT !.reset =
                       IF @ = Missing \/ @ = 0 THEN @ ELSE @ - 1]]
    /\ quiet' = [k \in Keys |-> Min({quiet[k] + 1, Long})]
    /\ UNCHANGED <<mode, counter, enabled, request>>

SetEnabled(k) ==
    /\ enabled' \in {enabled \cup {k}, enabled \ {k}}
    /\ UNCHANGED <<mode, selector, failed, counter, limits, request, quiet>>

RequestStep(r) ==
    \/ Select(r) \/ Arrive(r)
    \/ \E status \in Statuses, h \in Reports : Answer(r, status, h)

Next ==
    \/ \E r \in Requests : RequestStep(r)
    \/ Tick
    \/ \E k \in Keys : SetEnabled(k)

Spec == Init /\ [][Next]_vars

-----------------------------------------------------------------------------
(* Properties.                                                             *)

TypeOK ==
    /\ mode \in Modes
    /\ selector.rr \in 0 .. Cycle - 1
    /\ selector.calls \in [Keys -> 0 .. CallsPerRotation + 1]
    /\ counter \in 0 .. Cycle - 1
    /\ enabled \subseteq Keys
    /\ \A ages \in {failed, selector.failed} :
          DOMAIN ages \subseteq Keys /\ Range(ages) \subseteq 0 .. Timeout
    /\ \A k \in DOMAIN limits :
          k \in Keys /\ limits[k] \in [limit : Nat, remaining : Nat, reset : Nat \cup {Missing}]
    /\ \A r \in Requests : request[r].phase = "sent" => request[r].key \in Keys

\* Whether k can be expected to answer: it is enabled, has quota left, has not
\* failed for twice the timeout (once in each of the two records of failures),
\* and by its last report has calls left or again a limit to spend.
Fit(k, full) ==
    /\ k \in enabled \ full
    /\ quiet[k] = Long
    /\ ~Exhausted(AfterReset(limits), k)

\* What only counts as a last resort: a key that failed within the timeout, or
\* one that is exhausted.
Tired(k) == quiet[k] <= Timeout \/ Exhausted(AfterReset(limits), k)

\* As long as some key is fit, no request is sent with a tired one, in any
\* mode, at any turn of the rotation and whatever keys were passed over
\* before (_next_key_index_async, select_next_key).
FitBeforeTired ==
    [][ \A r \in Requests :
          LET q == request'[r]
          IN  request[r].phase = "select" /\ q.phase = "sent"
              => /\ q.key \in enabled \ q.full
                 /\ (\E k \in Keys : Fit(k, q.full)) => ~Tired(q.key) ]_vars

\* A request is refused for want of keys only when none is enabled, and for
\* want of quota only when the quota of every enabled key is used up: the
\* loop leaves no key untried (_select_key_with_daily_quota).
RefusesOnlyWithoutKey ==
    [][ \A r \in Requests :
          LET q == request'[r]
          IN  request[r].phase = "select"
              => /\ q.phase = "no_available_keys" => enabled = {}
                 /\ q.phase = "quota_exhausted" => enabled # {} /\ enabled \subseteq q.full
      ]_vars

\* No key is used for more than CallsPerRotation calls before the next one is:
\* "如果达到轮换次数限制，轮换" (should_rotate), whose count the key rotated to
\* escapes.
RotatesInTime == \A k \in Keys : selector.calls[k] <= CallsPerRotation

=============================================================================
