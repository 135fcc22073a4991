------------------------------- MODULE Gateway -------------------------------
(***************************************************************************)
(* A request on its way through src/src/api/openai_router.py -- identity,  *)
(* body, white list, quota, upstream, answer -- against the table of user  *)
(* tokens of src/src/services/token_manager.py, which an administrator     *)
(* edits meanwhile (src/src/api/token_management_api.py).                  *)
(*                                                                         *)
(* Between two steps of a request anything may happen to its token.  The   *)
(* manager is created by whoever needs it first and published before it    *)
(* has loaded its table, so several callers may load it, one after the     *)
(* other.  The record of a token is one object, shared by every table it   *)
(* is in; a table is a set of tokens here.  The cache of the storage keeps *)
(* the very table it was given: after a save the two are one object.       *)
(***************************************************************************)
EXTENDS Integers, FiniteSets

CONSTANTS
    Requests, Tokens,
    Models,         \* models a request may name
    Lists,          \* values of allowed_models, None being all models
    Asks,           \* what a request may ask: model, fallbacks and endpoint
    Quotas,         \* quotas an administrator gives, of Nat or Unlimited
    MaxEdits        \* bound: operations of the administrator

Master == "API_PASSWORD"
Unlimited == 1000   \* quota None

Endpoints == {"chat", "messages", "count"}
AskSet == [model : Models \cup {""}, fallbacks : SUBSET Models, endpoint : Endpoints]

ASSUME GatewayAssumption ==
    /\ Quotas \subseteq 0 .. Unlimited /\ MaxEdits \in Nat
    /\ Master \notin Tokens
    /\ Lists \subseteq SUBSET Models /\ Asks \subseteq AskSet

VARIABLES
    meta,       \* record of each token
    table,      \* TokenManager._tokens
    cache,      \* the table under "user_tokens" in the cache of the storage
    alias,      \* whether these are one object
    initialized,
    unsaved,      \* the DebouncedSaver has something to save
    writing,    \* tables a save under way has taken: none, table or another
    old,        \* that other table
    admin,      \* what the administrator does
    edits,
    req,        \* the requests
    charges,    \* history: try_consume calls that succeeded, per request
    spent,      \* history: and per token, since its counter was 0
    ceiling,    \* history: highest quota of a token since then
    past        \* history: what happened to the token of a request that waits

managerVars == <<table, cache, alias, initialized, unsaved, writing, old>>
history == <<charges, spent, ceiling, past>>
vars == <<meta, managerVars, admin, edits, req, history>>

Fresh(q, a) == [enabled |-> TRUE, expired |-> FALSE, quota |-> q, used |-> 0, allowed |-> a]
NoAsk == [model |-> "", fallbacks |-> {}, endpoint |-> "count"]

\* The first tokens are in the storage, which nobody has read yet.
Init ==
    /\ meta \in [Tokens -> {Fresh(q, a) : q \in Quotas, a \in Lists}]
    /\ table = {} /\ cache \in SUBSET Tokens /\ alias = FALSE
    /\ initialized = FALSE /\ unsaved = FALSE
    /\ writing = "none" /\ old = {}
    /\ admin = "idle" /\ edits = 0
    /\ req = [r \in Requests |-> [pc |-> "idle", token |-> Master, ask |-> NoAsk]]
    /\ charges = [r \in Requests |-> 0]
    /\ spent = [t \in Tokens |-> 0]
    /\ ceiling = [t \in Tokens |-> meta[t].quota]
    /\ past = [r \in Requests |-> {}]

-----------------------------------------------------------------------------
(* token_manager.py *)

\* What the cache holds: a change of the manager's table is seen there too.
Cached == IF alias THEN table ELSE cache

\* Requests that have not come to the quota yet.
WaitingPCs == {"auth", "loading", "body", "fallbacks", "quota"}
Happened(rs, what) == [r \in Requests |-> IF r \in rs THEN past[r] \cup {what} ELSE past[r]]

\* Whoever finds the manager without a table loads it.  _load builds a table
\* of its own of what the cache holds, even if another caller was faster.  A
\* save that has taken the former table writes that.
Load ==
    /\ table' = Cached
    /\ cache' = Cached
    /\ alias' = FALSE
    /\ initialized' = TRUE
    /\ IF writing = "table" THEN writing' = "old" /\ old' = table
       ELSE UNCHANGED <<writing, old>>
    /\ past' = Happened({r \in Requests : initialized /\ req[r].pc \in WaitingPCs}, "reloaded")
    /\ UNCHANGED unsaved

\* Variant of Identity: a token that is not in the table has rights left.
IdentityUnlisted(tokens, t) == meta[t].enabled /\ ~ meta[t].expired

\* _check_meta: who the token is, ...
Identity(tokens, t) == t \in tokens /\ meta[t].enabled /\ ~ meta[t].expired

\* ... what it may call (no model is no question), ...
Allowed(t, m) == m = "" \/ m \in meta[t].allowed

\* Variant of HasQuota: off by one.
HasQuotaOneMore(t) == meta[t].quota = Unlimited \/ meta[t].used <= meta[t].quota

\* ... and how often.
HasQuota(t) == meta[t].quota = Unlimited \/ meta[t].used < meta[t].quota

\* The lock is held while the table is written.
LockFree == writing = "none"

\* try_consume, once it is allowed.
Consume(r, t) ==
    /\ meta' = [meta EXCEPT ![t].used = @ + 1]
    /\ unsaved' = TRUE
    /\ charges' = [charges EXCEPT ![r] = @ + 1]
    /\ spent' = [spent EXCEPT ![t] = @ + 1]

\* The save of an operation, whose caller holds the lock, comes to its end.
Saved(ok) ==
    /\ writing # "none"
    /\ cache' = IF ok THEN (IF writing = "table" THEN table ELSE old) ELSE Cached
    /\ alias' = IF ok THEN writing = "table" ELSE alias
    /\ unsaved' = (unsaved \/ ~ ok)
    /\ writing' = "none" /\ old' = {}
    /\ admin' = "idle"
    /\ UNCHANGED <<meta, table, initialized, edits, req, history>>

\* The debounced save.
SaveBegins ==
    /\ unsaved /\ initialized
    /\ unsaved' = FALSE
    /\ cache' = table /\ alias' = TRUE
    /\ UNCHANGED <<meta, table, initialized, writing, old, admin, edits, req, history>>

-----------------------------------------------------------------------------
(* token_management_api.py *)

Operate == admin = "idle" /\ LockFree /\ edits < MaxEdits /\ edits' = edits + 1

AdminLoads ==
    /\ admin = "idle" /\ ~ initialized /\ edits < MaxEdits
    /\ admin' = "loading"
    /\ UNCHANGED <<meta, managerVars, edits, req, history>>

AdminLoaded ==
    /\ admin = "loading"
    /\ Load
    /\ admin' = "idle"
    /\ UNCHANGED <<meta, edits, req, charges, spent, ceiling>>

Writes(tokens) ==
    /\ initialized
    /\ table' = tokens
    /\ writing' = "table"
    /\ admin' = "saving"
    /\ UNCHANGED <<cache, alias, initialized, unsaved, old>>

Waiting(t) == {r \in Requests : req[r].token = t /\ req[r].pc \in WaitingPCs}
Open(t) == Waiting(t) \cup {r \in Requests : req[r].token = t /\ req[r].pc \in {"accepted", "sent"}}

\* A created token is new: no request has named it before.
Create(t, q, a) ==
    /\ Operate
    /\ t \notin table \cup Cached /\ spent[t] = 0
    /\ \A r \in Requests : req[r].token # t
    /\ meta' = [meta EXCEPT ![t] = Fresh(q, a)]
    /\ ceiling' = [ceiling EXCEPT ![t] = q]
    /\ Writes(table \cup {t})
    /\ UNCHANGED <<req, charges, spent, past>>

\* update_token, one field at a time; a new quota raises the ceiling.
Update(t) ==
    /\ Operate
    /\ t \in table
    /\ \E new \in [enabled : BOOLEAN, expired : {meta[t].expired, FALSE}, quota : Quotas,
                   used : {0, meta[t].used}, allowed : Lists] :
          /\ Cardinality({f \in DOMAIN new : new[f] # meta[t][f]}) = 1
          /\ meta' = [meta EXCEPT ![t] = new]
          /\ LET reset == new.used # meta[t].used
             IN  /\ spent' = [spent EXCEPT ![t] = IF reset THEN 0 ELSE @]
                 /\ ceiling' = [ceiling EXCEPT ![t] =
                       IF reset \/ new.quota > @ THEN new.quota ELSE @]
    /\ past' = Happened(Open(t), "edited")
    /\ Writes(table)
    /\ UNCHANGED <<req, charges>>

Delete(t) ==
    /\ Operate
    /\ t \in table
    /\ past' = Happened(Waiting(t), "gone")
    /\ Writes(table \ {t})
    /\ UNCHANGED <<meta, req, charges, spent, ceiling>>

\* Its time passes.
Expire(t) ==
    /\ ~ meta[t].expired /\ edits < MaxEdits
    /\ edits' = edits + 1
    /\ meta' = [meta EXCEPT ![t].expired = TRUE]
    /\ UNCHANGED <<managerVars, admin, req, history>>

-----------------------------------------------------------------------------
(* openai_router.py *)

At(r, pc) == req[r].pc = pc
Goto(r, pc) == req' = [req EXCEPT ![r].pc = pc]
Quiet == UNCHANGED <<meta, managerVars, admin, edits, history>>

\* A request comes in; what it holds and asks is up to the client.
Arrive(r, t, ask) ==
    /\ At(r, "idle")
    /\ req' = [req EXCEPT ![r] = [pc |-> "auth", token |-> t, ask |-> ask]]
    /\ Quiet

\* _resolve_identity: the master password first, then the manager, which is
\* loaded if it has not been.  The quota is not asked here.
Identify(r) ==
    /\ At(r, "auth")
    /\ \/ req[r].token = Master /\ Goto(r, "body")
       \/ /\ req[r].token # Master /\ initialized
          /\ Goto(r, IF Identity(table, req[r].token) THEN "body" ELSE "refused")
       \/ req[r].token # Master /\ ~ initialized /\ Goto(r, "loading")
    /\ Quiet

Identified(r) ==
    /\ At(r, "loading")
    /\ Load
    /\ Goto(r, IF Identity(Cached, req[r].token) THEN "body" ELSE "refused")
    /\ UNCHANGED <<meta, admin, edits, charges, spent, ceiling>>

\* The body is read and converted, or the request is answered 400.
Body(r) ==
    /\ At(r, "body")
    /\ \/ Goto(r, IF req[r].token = Master THEN "accepted"
                  ELSE IF req[r].ask.fallbacks # {} /\ req[r].ask.endpoint # "count" THEN "fallbacks"
                  ELSE "quota")
       \/ Goto(r, "refused")
    /\ Quiet

\* Variant of Fallbacks: only the model itself is checked.
FallbacksUnchecked(r) ==
    /\ At(r, "fallbacks")
    /\ Goto(r, "quota")
    /\ Quiet

\* enforce_token_quota looks at the fallbacks before it consumes; a token that
\* is gone has no white list.
Fallbacks(r) ==
    /\ At(r, "fallbacks")
    /\ Goto(r, IF req[r].token \in table /\ ~ req[r].ask.fallbacks \subseteq meta[req[r].token].allowed
               THEN "refused" ELSE "quota")
    /\ Quiet

\* Variant of Quota: the count endpoint pays like the others.
QuotaAlways(r) ==
    LET t == req[r].token
    IN  /\ At(r, "quota") /\ LockFree
        /\ IF Identity(table, t) /\ Allowed(t, req[r].ask.model) /\ HasQuota(t)
           THEN Goto(r, "accepted") /\ Consume(r, t)
           ELSE Goto(r, "refused") /\ UNCHANGED <<meta, unsaved, charges, spent>>
        /\ UNCHANGED <<table, cache, alias, initialized, writing, old, admin, edits, ceiling, past>>

\* try_consume, in the lock; count_tokens asks for everything but the quota.
Quota(r) ==
    LET t == req[r].token
        free == req[r].ask.endpoint = "count"
    IN  /\ At(r, "quota") /\ (free \/ LockFree)
        /\ IF Identity(table, t) /\ Allowed(t, req[r].ask.model) /\ (free \/ HasQuota(t))
           THEN /\ Goto(r, "accepted")
                /\ IF free THEN UNCHANGED <<meta, unsaved, charges, spent>> ELSE Consume(r, t)
           ELSE Goto(r, "refused") /\ UNCHANGED <<meta, unsaved, charges, spent>>
        /\ UNCHANGED <<table, cache, alias, initialized, writing, old, admin, edits, ceiling, past>>

\* Answered here: the count, the health check of the OpenAI route ...
Local(r) ==
    /\ At(r, "accepted")
    /\ req[r].ask.endpoint \in {"count", "chat"}
    /\ Goto(r, "answered")
    /\ Quiet

\* ... or sent upstream, however often that takes.
Dispatch(r) ==
    /\ At(r, "accepted") /\ req[r].ask.endpoint # "count"
    /\ Goto(r, "sent")
    /\ Quiet

\* The upstream has answered, well or with an error, or the answer could not
\* be converted; what was consumed stays consumed.
Finish(r) ==
    /\ At(r, "sent")
    /\ Goto(r, "answered")
    /\ Quiet

RequestStep(r) ==
    Identify(r) \/ Identified(r) \/ Body(r) \/ Fallbacks(r) \/ Quota(r)
    \/ Local(r) \/ Dispatch(r) \/ Finish(r)

AdminStep ==
    \/ AdminLoads \/ AdminLoaded \/ SaveBegins
    \/ \E ok \in BOOLEAN : Saved(ok)
    \/ \E t \in Tokens :
          \/ Update(t) \/ Delete(t) \/ Expire(t)
          \/ \E q \in Quotas, a \in Lists : Create(t, q, a)

Next ==
    \/ AdminStep
    \/ \E r \in Requests :
          \/ RequestStep(r)
          \/ \E t \in Tokens \cup {Master}, ask \in Asks : Arrive(r, t, ask)

Spec == Init /\ [][Next]_vars

-----------------------------------------------------------------------------
PCs == {"idle", "auth", "loading", "body", "fallbacks", "quota", "accepted", "sent", "answered", "refused"}

TypeOK ==
    /\ meta \in [Tokens -> [enabled : BOOLEAN, expired : BOOLEAN, quota : Quotas,
                            used : Nat, allowed : SUBSET Models]]
    /\ table \subseteq Tokens /\ cache \subseteq Tokens /\ old \subseteq Tokens
    /\ alias \in BOOLEAN /\ initialized \in BOOLEAN /\ unsaved \in BOOLEAN
    /\ writing \in {"none", "table", "old"}
    /\ admin \in {"idle", "loading", "saving"} /\ edits \in 0..MaxEdits
    /\ req \in [Requests -> [pc : PCs, token : Tokens \cup {Master}, ask : Asks \cup {NoAsk}]]
    /\ charges \in [Requests -> Nat] /\ spent \in [Tokens -> Nat]
    /\ ceiling \in [Tokens -> Quotas]
    /\ past \in [Requests -> SUBSET {"edited", "gone", "reloaded"}]

Passed(r) == req[r].pc \in {"accepted", "sent", "answered"}

\* However the requests of a token interleave with each other and with edits,
\* no more of them are let through between two resets than the highest quota
\* it had then ("并发请求不会越过配额上限", token_manager.py:223).
QuotaKept ==
    \A t \in Tokens : /\ ceiling[t] # Unlimited => spent[t] <= ceiling[t]
                      /\ meta[t].used = spent[t]

\* Exactly the requests that are let through pay, and they pay once: none
\* that is refused, not the master, not the count of tokens, and not a second
\* time when the upstream is asked again.
ChargedOnce ==
    \A r \in Requests :
        charges[r] = IF Passed(r) /\ req[r].token # Master /\ req[r].ask.endpoint # "count" THEN 1 ELSE 0

\* A white list holds for the model and for the fallbacks of a request, unless
\* it is changed, or the table loaded once more, while the request is being
\* checked.
NoBypass ==
    \A r \in Requests :
        At(r, "sent") /\ req[r].token # Master /\ past[r] \cap {"edited", "reloaded"} = {} =>
            ({req[r].ask.model} \ {""}) \cup req[r].ask.fallbacks \subseteq meta[req[r].token].allowed

\* Whoever has a token that is deleted before the request has paid is refused,
\* although the request was identified before -- unless a second first caller
\* loads the table again while it waits.
GoneIsRefused ==
    \A r \in Requests : "gone" \in past[r] /\ "reloaded" \notin past[r] => ~ Passed(r)

\* The same without the exception, which the publication of the manager before
\* it has loaded (token_manager.py:245) does not give.
GoneStaysGone == \A r \in Requests : "gone" \in past[r] => ~ Passed(r)
=============================================================================
