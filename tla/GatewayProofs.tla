----------------------------- MODULE GatewayProofs -----------------------------
(***************************************************************************)
(* Theorems about Gateway, for any number of requests, tokens and quotas,  *)
(* and about DebouncedSaver, which says what the saves of the token table  *)
(* are good for, for any number of changes and of failures.                *)
(***************************************************************************)
EXTENDS Gateway, DebouncedSaver, TLAPS

Meta == [enabled : BOOLEAN, expired : BOOLEAN, quota : Quotas, used : Nat,
         allowed : SUBSET Models]
Req == [pc : PCs, token : Tokens \cup {Master}, ask : Asks \cup {NoAsk}]

LEMMA QuotaRange ==
    /\ Unlimited \in Nat
    /\ \A q \in Quotas : q \in Nat /\ q <= Unlimited
<1>1. Unlimited \in Nat
  BY DEF Unlimited
<1>2. Quotas \subseteq 0 .. Unlimited
  BY GatewayAssumption
<1>3. QED
  BY <1>1, <1>2

LEMMA FreshType ==
    ASSUME NEW q \in Quotas, NEW a \in Lists
    PROVE  Fresh(q, a) \in Meta
  BY GatewayAssumption DEF Fresh, Meta

\* A record of a token in which one field has changed.
LEMMA MetaField ==
    ASSUME TypeOK, NEW t \in Tokens
    PROVE  /\ meta \in [Tokens -> Meta] /\ meta[t] \in Meta
           /\ [meta EXCEPT ![t].used = @ + 1] \in [Tokens -> Meta]
           /\ [meta EXCEPT ![t].expired = TRUE] \in [Tokens -> Meta]
<1>1. meta \in [Tokens -> Meta] /\ meta[t] \in Meta
  BY DEF TypeOK, Meta
<1>2. [meta[t] EXCEPT !.used = @ + 1] \in Meta
  <2>1. meta[t].used \in Nat
    BY <1>1 DEF Meta
  <2>2. QED
    BY <1>1, <2>1 DEF Meta
<1>3. [meta[t] EXCEPT !.expired = TRUE] \in Meta
  BY <1>1 DEF Meta
<1>4. QED
  BY <1>1, <1>2, <1>3

LEMMA InitType == Init => TypeOK
<1> SUFFICES ASSUME Init
             PROVE  TypeOK
  OBVIOUS
<1>1. meta \in [Tokens -> Meta]
  BY FreshType DEF Init
<1>2. ceiling \in [Tokens -> Quotas]
  BY <1>1 DEF Init, Meta
<1>3. req \in [Requests -> Req]
  BY DEF Init, Req, PCs
<1>4. ceiling \in [Tokens -> Quotas] /\ charges \in [Requests -> Nat] /\ spent \in [Tokens -> Nat]
      /\ past \in [Requests -> SUBSET {"edited", "gone", "reloaded"}]
  BY <1>2 DEF Init
<1>5. table \subseteq Tokens /\ cache \subseteq Tokens /\ old \subseteq Tokens
  BY DEF Init
<1>6. alias \in BOOLEAN /\ initialized \in BOOLEAN /\ unsaved \in BOOLEAN
  BY DEF Init
<1>7. /\ writing \in {"none", "table", "old"}
      /\ admin \in {"idle", "loading", "saving"} /\ edits \in 0..MaxEdits
  BY GatewayAssumption DEF Init
<1>8. QED
  BY <1>1, <1>3, <1>4, <1>5, <1>6, <1>7, Zenon DEF TypeOK, Meta, Req

LEMMA GotoType ==
    ASSUME TypeOK, NEW r \in Requests, NEW next \in PCs, Goto(r, next)
    PROVE  req' \in [Requests -> Req]
  BY DEF TypeOK, Goto, Req

LEMMA LoadType ==
    ASSUME TypeOK, Load
    PROVE  /\ table' \subseteq Tokens /\ cache' \subseteq Tokens /\ old' \subseteq Tokens
           /\ alias' \in BOOLEAN /\ initialized' \in BOOLEAN /\ unsaved' \in BOOLEAN
           /\ writing' \in {"none", "table", "old"}
           /\ past' \in [Requests -> SUBSET {"edited", "gone", "reloaded"}]
  BY DEF TypeOK, Load, Cached, Happened

\* Whoever waits while the table is loaded once more is marked, and nobody else.
LEMMA LoadMarks ==
    ASSUME Load, NEW r \in Requests
    PROVE  /\ initialized'
           /\ initialized /\ req[r].pc \in WaitingPCs => "reloaded" \in past'[r]
           /\ past'[r] = past[r] \/ past'[r] = past[r] \cup {"reloaded"}
  BY DEF Load, Happened

LEMMA RequestType ==
    ASSUME TypeOK, NEW r \in Requests, RequestStep(r)
    PROVE  TypeOK'
<1> USE DEF TypeOK, Req
<1>1. CASE Identify(r)
  BY <1>1, GotoType DEF Identify, Quiet, managerVars, history, PCs
<1>2. CASE Identified(r)
  BY <1>2, GotoType, LoadType DEF Identified, history, PCs
<1>3. CASE Body(r)
  BY <1>3, GotoType DEF Body, Quiet, managerVars, history, PCs
<1>4. CASE Fallbacks(r)
  BY <1>4, GotoType DEF Fallbacks, Quiet, managerVars, history, PCs
<1>5. CASE Quota(r)
  <2>1. req' \in [Requests -> Req]
    BY <1>5, GotoType DEF Quota, PCs
  <2>2. CASE UNCHANGED <<meta, unsaved, charges, spent>>
    BY <1>5, <2>1, <2>2 DEF Quota
  <2>3. CASE Consume(r, req[r].token) /\ req[r].token \in Tokens
    <3>1. meta' \in [Tokens -> Meta]
      BY <2>3, MetaField DEF Consume
    <3>2. charges' \in [Requests -> Nat] /\ spent' \in [Tokens -> Nat]
      BY <2>3 DEF Consume
    <3>3. QED
      BY <1>5, <2>1, <2>3, <3>1, <3>2 DEF Quota, Consume, Meta
  <2>4. QED
    BY <1>5, <2>2, <2>3 DEF Quota, Identity
<1>6. CASE Local(r)
  BY <1>6, GotoType DEF Local, Quiet, managerVars, history, PCs
<1>7. CASE Dispatch(r)
  BY <1>7, GotoType DEF Dispatch, Quiet, managerVars, history, PCs
<1>8. CASE Finish(r)
  BY <1>8, GotoType DEF Finish, Quiet, managerVars, history, PCs
<1>9. QED
  BY <1>1, <1>2, <1>3, <1>4, <1>5, <1>6, <1>7, <1>8 DEF RequestStep

LEMMA AdminType ==
    ASSUME TypeOK, AdminStep
    PROVE  TypeOK'
<1> USE GatewayAssumption DEF TypeOK
<1>1. CASE AdminLoads
  BY <1>1 DEF AdminLoads, managerVars, history
<1>2. CASE AdminLoaded
  BY <1>2, LoadType DEF AdminLoaded, history
<1>3. CASE SaveBegins
  BY <1>3 DEF SaveBegins, history
<1>4. CASE \E ok \in BOOLEAN : Saved(ok)
  BY <1>4 DEF Saved, Cached, history
<1>5. ASSUME NEW t \in Tokens, Update(t)
      PROVE  TypeOK'
  <2>1. PICK new \in [enabled : BOOLEAN, expired : {meta[t].expired, FALSE}, quota : Quotas,
                      used : {0, meta[t].used}, allowed : Lists] :
           /\ meta' = [meta EXCEPT ![t] = new]
           /\ spent' = [spent EXCEPT ![t] = IF new.used # meta[t].used THEN 0 ELSE @]
           /\ ceiling' = [ceiling EXCEPT ![t] =
                 IF new.used # meta[t].used \/ new.quota > @ THEN new.quota ELSE @]
    BY <1>5 DEF Update
  <2>2. new \in Meta
    <3>1. meta[t].expired \in BOOLEAN /\ meta[t].used \in Nat
      BY MetaField DEF Meta
    <3>2. {meta[t].expired, FALSE} \subseteq BOOLEAN /\ {0, meta[t].used} \subseteq Nat
      BY <3>1
    <3>3. QED
      BY <3>2 DEF Meta
  <2>3. meta' \in [Tokens -> Meta] /\ spent' \in [Tokens -> Nat] /\ ceiling' \in [Tokens -> Quotas]
    BY <2>1, <2>2 DEF Meta
  <2>4. past' \in [Requests -> SUBSET {"edited", "gone", "reloaded"}]
    BY <1>5 DEF Update, Happened
  <2>5. edits' \in 0 .. MaxEdits
    BY <1>5 DEF Update, Operate
  <2>6. QED
    BY <1>5, <2>3, <2>4, <2>5 DEF Update, Writes, Meta
<1>6. ASSUME NEW t \in Tokens, Delete(t)
      PROVE  TypeOK'
  BY <1>6 DEF Delete, Writes, Operate, Happened
<1>7. ASSUME NEW t \in Tokens, Expire(t)
      PROVE  TypeOK'
  <2>1. meta' \in [Tokens -> Meta]
    BY <1>7, MetaField DEF Expire
  <2>2. QED
    BY <1>7, <2>1 DEF Expire, Meta, managerVars, history
<1>8. ASSUME NEW t \in Tokens, NEW q \in Quotas, NEW a \in Lists, Create(t, q, a)
      PROVE  TypeOK'
  BY <1>8 DEF Create, Fresh, Writes, Operate
<1>9. QED
  BY <1>1, <1>2, <1>3, <1>4, <1>5, <1>6, <1>7, <1>8 DEF AdminStep

LEMMA ArriveType ==
    ASSUME TypeOK, NEW r \in Requests, NEW t \in Tokens \cup {Master}, NEW ask \in Asks,
           Arrive(r, t, ask)
    PROVE  TypeOK'
  BY DEF Arrive, Quiet, managerVars, history, TypeOK, PCs

LEMMA TypeStep == TypeOK /\ [Next]_vars => TypeOK'
<1> SUFFICES ASSUME TypeOK, [Next]_vars
             PROVE  TypeOK'
  OBVIOUS
<1>1. CASE UNCHANGED vars
  BY <1>1 DEF TypeOK, vars, managerVars, history
<1>2. QED
  BY <1>1, AdminType, RequestType, ArriveType DEF Next

\* What a step leaves alone, by the part of the state an invariant is about.
LEMMA RequestFrame ==
    ASSUME NEW r \in Requests, RequestStep(r)
    PROVE  /\ UNCHANGED <<ceiling, admin>>
           /\ Quota(r) \/ UNCHANGED <<meta, charges, spent>>
           /\ Identified(r) \/ UNCHANGED <<table, initialized, past>>
  BY DEF RequestStep, Identify, Identified, Body, Fallbacks, Quota, Local, Dispatch, Finish,
         Quiet, managerVars, history

\* What a quota takes part in: the counter is the history, and a token that
\* may still call was never above its highest quota.
QuotaInv ==
    \A t \in Tokens :
        /\ meta[t].used = spent[t] /\ meta[t].quota <= ceiling[t]
        /\ ceiling[t] # Unlimited => spent[t] <= ceiling[t]

LEMMA InitQuotaInv == Init => QuotaInv
<1> SUFFICES ASSUME Init, NEW t \in Tokens
             PROVE  /\ meta[t].used = spent[t] /\ meta[t].quota <= ceiling[t]
                    /\ ceiling[t] # Unlimited => spent[t] <= ceiling[t]
  BY DEF QuotaInv
<1>1. meta[t].used = 0 /\ meta[t].quota \in Quotas
  BY DEF Init, Fresh
<1>2. spent[t] = 0 /\ ceiling[t] = meta[t].quota
  BY DEF Init
<1>3. QED
  BY <1>1, <1>2, QuotaRange

LEMMA QuotaInvStep == TypeOK /\ QuotaInv /\ [Next]_vars => QuotaInv'
<1> SUFFICES ASSUME TypeOK, QuotaInv, [Next]_vars
             PROVE  QuotaInv'
  OBVIOUS
<1>1. CASE UNCHANGED <<meta, spent, ceiling>>
  BY <1>1 DEF QuotaInv
<1>2. ASSUME NEW r \in Requests, Quota(r)
      PROVE  QuotaInv'
  <2> DEFINE t == req[r].token
  <2>1. CASE UNCHANGED <<meta, spent>>
    BY <1>2, <2>1 DEF Quota, QuotaInv
  <2>2. CASE Consume(r, t) /\ t \in table /\ HasQuota(t)
    <3> SUFFICES ASSUME NEW u \in Tokens
                 PROVE  /\ meta'[u].used = spent'[u] /\ meta'[u].quota <= ceiling'[u]
                        /\ ceiling'[u] # Unlimited => spent'[u] <= ceiling'[u]
      BY DEF QuotaInv
    <3>1. UNCHANGED ceiling /\ t \in Tokens
      BY <1>2, <2>2 DEF Quota, TypeOK
    <3>2. CASE u # t
      BY <2>2, <3>1, <3>2 DEF Consume, QuotaInv, TypeOK
    <3>3. CASE u = t
      <4>1. meta[t] \in Meta /\ spent[t] \in Nat /\ ceiling[t] \in Nat /\ ceiling[t] <= Unlimited
        <5>1. spent[t] \in Nat /\ ceiling[t] \in Quotas
          BY <3>1 DEF TypeOK
        <5>2. QED
          BY <3>1, <5>1, MetaField, QuotaRange
      <4>2. meta'[t].used = meta[t].used + 1 /\ meta'[t].quota = meta[t].quota
        BY <2>2, <3>1, <4>1 DEF Consume, TypeOK, Meta
      <4>3. spent'[t] = spent[t] + 1
        BY <2>2, <3>1 DEF Consume, TypeOK
      <4>4. meta[t].quota \in Nat /\ meta[t].used \in Nat
        BY <4>1, QuotaRange DEF Meta
      <4>5. meta[t].used = spent[t] /\ meta[t].quota <= ceiling[t]
        BY <3>1 DEF QuotaInv
      <4>6. ceiling[t] # Unlimited => spent[t] < ceiling[t]
        <5>1. meta[t].quota = Unlimited \/ meta[t].used < meta[t].quota
          BY <2>2 DEF HasQuota
        <5>2. QED
          BY <4>1, <4>4, <4>5, <5>1, QuotaRange
      <4>7. QED
        BY <3>1, <3>3, <4>1, <4>2, <4>3, <4>4, <4>5, <4>6
    <3>4. QED
      BY <3>2, <3>3
  <2>3. QED
    BY <1>2, <2>1, <2>2 DEF Quota, Identity
<1>3. ASSUME NEW t \in Tokens, NEW q \in Quotas, NEW a \in Lists, Create(t, q, a)
      PROVE  QuotaInv'
  <2> SUFFICES ASSUME NEW u \in Tokens
               PROVE  /\ meta'[u].used = spent'[u] /\ meta'[u].quota <= ceiling'[u]
                      /\ ceiling'[u] # Unlimited => spent'[u] <= ceiling'[u]
    BY DEF QuotaInv
  <2>1. CASE u # t
    BY <1>3, <2>1 DEF Create, QuotaInv, TypeOK
  <2>2. CASE u = t
    <3>1. meta'[t] = Fresh(q, a) /\ ceiling'[t] = q /\ spent'[t] = 0
      BY <1>3 DEF Create, TypeOK
    <3>2. QED
      BY <2>2, <3>1, QuotaRange DEF Fresh
  <2>3. QED
    BY <2>1, <2>2
<1>4. ASSUME NEW t \in Tokens, Update(t)
      PROVE  QuotaInv'
  <2>1. PICK new \in [enabled : BOOLEAN, expired : {meta[t].expired, FALSE}, quota : Quotas,
                      used : {0, meta[t].used}, allowed : Lists] :
           /\ meta' = [meta EXCEPT ![t] = new]
           /\ spent' = [spent EXCEPT ![t] = IF new.used # meta[t].used THEN 0 ELSE @]
           /\ ceiling' = [ceiling EXCEPT ![t] =
                 IF new.used # meta[t].used \/ new.quota > @ THEN new.quota ELSE @]
    BY <1>4 DEF Update
  <2> SUFFICES ASSUME NEW u \in Tokens
               PROVE  /\ meta'[u].used = spent'[u] /\ meta'[u].quota <= ceiling'[u]
                      /\ ceiling'[u] # Unlimited => spent'[u] <= ceiling'[u]
    BY DEF QuotaInv
  <2>2. CASE u # t
    BY <2>1, <2>2 DEF QuotaInv, TypeOK
  <2>3. CASE u = t
    <3>1. /\ meta'[t] = new
          /\ spent'[t] = IF new.used # meta[t].used THEN 0 ELSE spent[t]
          /\ ceiling'[t] = IF new.used # meta[t].used \/ new.quota > ceiling[t]
                           THEN new.quota ELSE ceiling[t]
      BY <2>1 DEF TypeOK
    <3>2. /\ new.used \in {0, meta[t].used} /\ new.quota \in Quotas
          /\ spent[t] \in Nat /\ ceiling[t] \in Quotas
      BY DEF TypeOK
    <3>3. new.quota \in Nat /\ ceiling[t] \in Nat /\ new.quota <= Unlimited /\ Unlimited \in Nat
      BY <3>2, QuotaRange
    <3>4. /\ meta[t].used = spent[t]
          /\ ceiling[t] # Unlimited => spent[t] <= ceiling[t]
      BY DEF QuotaInv
    <3>5. meta[t].used \in Nat /\ meta[t].quota <= ceiling[t]
      BY MetaField DEF Meta, QuotaInv
    <3>6. CASE new.used # meta[t].used
      BY <2>3, <3>1, <3>2, <3>3, <3>5, <3>6
    <3>7. CASE new.used = meta[t].used
      BY <2>3, <3>1, <3>2, <3>3, <3>4, <3>7
    <3>8. QED
      BY <3>6, <3>7
  <2>4. QED
    BY <2>2, <2>3
<1>5. ASSUME NEW t \in Tokens, Expire(t)
      PROVE  QuotaInv'
  <2>1. /\ UNCHANGED <<spent, ceiling>>
        /\ \A u \in Tokens : meta'[u].used = meta[u].used /\ meta'[u].quota = meta[u].quota
    BY <1>5, MetaField DEF Expire, history, Meta, TypeOK
  <2>2. QED
    BY <2>1 DEF QuotaInv
<1>6. CASE \E r \in Requests : RequestStep(r)
  BY <1>1, <1>2, <1>6, RequestFrame
<1>7. CASE AdminStep
  <2>1. ASSUME NEW t \in Tokens, Delete(t)
        PROVE  QuotaInv'
    BY <1>1, <2>1 DEF Delete
  <2>2. CASE AdminLoads \/ AdminLoaded \/ SaveBegins \/ \E ok \in BOOLEAN : Saved(ok)
    BY <1>1, <2>2 DEF AdminLoads, AdminLoaded, SaveBegins, Saved, history
  <2>3. QED
    BY <1>3, <1>4, <1>5, <1>7, <2>1, <2>2 DEF AdminStep
<1>8. CASE \E r \in Requests, t \in Tokens \cup {Master}, ask \in Asks : Arrive(r, t, ask)
  BY <1>1, <1>8 DEF Arrive, Quiet, history
<1>9. CASE UNCHANGED vars
  BY <1>1, <1>9 DEF vars, history
<1>10. QED
  BY <1>6, <1>7, <1>8, <1>9 DEF Next

\* Only what a request holds and has paid matters for its charge.
LEMMA InitCharged == Init => ChargedOnce
  BY DEF Init, ChargedOnce, Passed

\* A step of a request that does not pay keeps what is charged true if it
\* neither passes the quota nor comes back from behind it.
LEMMA ChargedGoto ==
    ASSUME TypeOK, ChargedOnce, NEW r \in Requests, NEW next \in PCs, Goto(r, next),
           UNCHANGED charges,
           \/ Passed(r) <=> next \in {"accepted", "sent", "answered"}
           \/ req[r].token = Master \/ req[r].ask.endpoint = "count"
    PROVE  ChargedOnce'
<1> SUFFICES ASSUME NEW q \in Requests
             PROVE  charges'[q] = IF /\ req'[q].pc \in {"accepted", "sent", "answered"}
                                     /\ req'[q].token # Master /\ req'[q].ask.endpoint # "count"
                                  THEN 1 ELSE 0
  BY DEF ChargedOnce, Passed
<1>1. charges[q] = IF /\ req[q].pc \in {"accepted", "sent", "answered"}
                      /\ req[q].token # Master /\ req[q].ask.endpoint # "count"
                   THEN 1 ELSE 0
  BY DEF ChargedOnce, Passed
<1>2. CASE q # r
  BY <1>1, <1>2 DEF Goto, TypeOK
<1>3. CASE q = r
  <2>1. req'[r].pc = next /\ req'[r].token = req[r].token /\ req'[r].ask = req[r].ask
    BY DEF Goto, TypeOK
  <2>2. QED
    BY <1>1, <1>3, <2>1 DEF Passed
<1>4. QED
  BY <1>2, <1>3

LEMMA ChargedQuota ==
    ASSUME TypeOK, ChargedOnce, NEW r \in Requests, Quota(r)
    PROVE  ChargedOnce'
<1> DEFINE t == req[r].token
<1>1. At(r, "quota") /\ ~ Passed(r) /\ charges[r] = 0
  BY DEF Quota, At, Passed, ChargedOnce
<1>2. CASE Goto(r, "refused") /\ UNCHANGED charges
  BY <1>1, <1>2, ChargedGoto DEF PCs
<1>3. CASE Goto(r, "accepted") /\ UNCHANGED charges /\ req[r].ask.endpoint = "count"
  BY <1>3, ChargedGoto DEF PCs
<1>4. CASE Goto(r, "accepted") /\ Consume(r, t) /\ t \in Tokens /\ req[r].ask.endpoint # "count"
  <2> SUFFICES ASSUME NEW q \in Requests
               PROVE  charges'[q] = IF /\ req'[q].pc \in {"accepted", "sent", "answered"}
                                       /\ req'[q].token # Master /\ req'[q].ask.endpoint # "count"
                                    THEN 1 ELSE 0
    BY DEF ChargedOnce, Passed
  <2>1. CASE q # r
    <3>1. req'[q] = req[q] /\ charges'[q] = charges[q]
      BY <1>4, <2>1 DEF Goto, Consume, TypeOK
    <3>2. QED
      BY <3>1 DEF ChargedOnce, Passed
  <2>2. CASE q = r
    <3>1. req'[r].pc = "accepted" /\ req'[r].token = t /\ req'[r].ask = req[r].ask
      BY <1>4 DEF Goto, TypeOK
    <3>2. charges'[r] = 1
      BY <1>1, <1>4 DEF Consume, TypeOK
    <3>3. t # Master
      BY <1>4, GatewayAssumption
    <3>4. QED
      BY <1>4, <2>2, <3>1, <3>2, <3>3
  <2>3. QED
    BY <2>1, <2>2
<1>5. QED
  BY <1>2, <1>3, <1>4 DEF Quota, Identity, TypeOK

LEMMA ChargedStep == TypeOK /\ ChargedOnce /\ [Next]_vars => ChargedOnce'
<1> SUFFICES ASSUME TypeOK, ChargedOnce, [Next]_vars
             PROVE  ChargedOnce'
  OBVIOUS
<1>1. CASE UNCHANGED <<req, charges>>
  BY <1>1 DEF ChargedOnce, Passed
<1>2. ASSUME NEW r \in Requests, RequestStep(r)
      PROVE  ChargedOnce'
  <2>1. CASE Quota(r)
    BY <2>1, ChargedQuota
  <2>2. CASE ~ Quota(r)
    <3>1. UNCHANGED charges
      BY <1>2, <2>2, RequestFrame
    <3>2. CASE Identify(r) \/ Identified(r)
      <4>1. /\ ~ Passed(r)
            /\ \/ Goto(r, "body") /\ "body" \in PCs
               \/ Goto(r, "refused") /\ "refused" \in PCs
               \/ Goto(r, "loading") /\ "loading" \in PCs
        BY <3>2 DEF Identify, Identified, At, Passed, PCs
      <4>2. QED
        BY <3>1, <4>1, ChargedGoto
    <3>3. CASE Body(r)
      <4>1. /\ ~ Passed(r)
            /\ \/ Goto(r, "accepted") /\ "accepted" \in PCs /\ req[r].token = Master
               \/ Goto(r, "fallbacks") /\ "fallbacks" \in PCs
               \/ Goto(r, "quota") /\ "quota" \in PCs
               \/ Goto(r, "refused") /\ "refused" \in PCs
        BY <3>3 DEF Body, At, Passed, PCs
      <4>2. QED
        BY <3>1, <4>1, ChargedGoto
    <3>4. CASE Fallbacks(r)
      <4>1. /\ ~ Passed(r)
            /\ \/ Goto(r, "quota") /\ "quota" \in PCs
               \/ Goto(r, "refused") /\ "refused" \in PCs
        BY <3>4 DEF Fallbacks, At, Passed, PCs
      <4>2. QED
        BY <3>1, <4>1, ChargedGoto
    <3>5. CASE Local(r) \/ Dispatch(r) \/ Finish(r)
      <4>1. /\ Passed(r)
            /\ \/ Goto(r, "answered") /\ "answered" \in PCs
               \/ Goto(r, "sent") /\ "sent" \in PCs
        BY <3>5 DEF Local, Dispatch, Finish, At, Passed, PCs
      <4>2. QED
        BY <3>1, <4>1, ChargedGoto
    <3>6. QED
      BY <1>2, <2>2, <3>2, <3>3, <3>4, <3>5 DEF RequestStep
  <2>3. QED
    BY <2>1, <2>2
<1>3. CASE AdminStep
  BY <1>1, <1>3 DEF AdminStep, AdminLoads, AdminLoaded, SaveBegins, Saved, Update, Delete, Expire,
                    Create, history
<1>4. ASSUME NEW r \in Requests, NEW t \in Tokens \cup {Master}, NEW ask \in Asks,
             Arrive(r, t, ask)
      PROVE  ChargedOnce'
  <2>1. /\ charges' = charges /\ req[r].pc = "idle"
        /\ req' = [req EXCEPT ![r] = [pc |-> "auth", token |-> t, ask |-> ask]]
    BY <1>4 DEF Arrive, At, Quiet, history
  <2>2. QED
    BY <2>1 DEF ChargedOnce, Passed, TypeOK
<1>5. CASE UNCHANGED vars
  BY <1>1, <1>5 DEF vars, history
<1>6. QED
  BY <1>2, <1>3, <1>4, <1>5 DEF Next

-----------------------------------------------------------------------------
(* Loads, deletions and edits beside a request                            *)

\* Whoever was identified by a token found the table loaded.
Known ==
    \A r \in Requests :
        req[r].pc \in {"body", "fallbacks", "quota"} /\ req[r].token # Master => initialized

LEMMA InitKnown == Init => Known
  BY DEF Init, Known

LEMMA KnownGoto ==
    ASSUME TypeOK, Known, NEW r \in Requests, NEW next \in PCs, Goto(r, next),
           initialized => initialized',
           next \in {"body", "fallbacks", "quota"} /\ req[r].token # Master => initialized'
    PROVE  Known'
<1>1. \A q \in Requests : req'[q].token = req[q].token /\ (q # r => req'[q].pc = req[q].pc)
  BY DEF Goto, TypeOK
<1>2. req'[r].pc = next
  BY DEF Goto, TypeOK
<1>3. QED
  BY <1>1, <1>2 DEF Known

LEMMA KnownRequest ==
    ASSUME TypeOK, Known, NEW r \in Requests, RequestStep(r)
    PROVE  Known'
<1>1. CASE Identify(r)
  <2>1. /\ UNCHANGED initialized
        /\ \/ Goto(r, "loading") \/ Goto(r, "refused")
           \/ Goto(r, "body") /\ (req[r].token = Master \/ initialized)
    BY <1>1 DEF Identify, Quiet, managerVars
  <2>2. QED
    BY <2>1, KnownGoto DEF PCs
<1>2. CASE Identified(r)
  <2>1. initialized' /\ (Goto(r, "body") \/ Goto(r, "refused"))
    BY <1>2 DEF Identified, Load
  <2>2. QED
    BY <2>1, KnownGoto DEF PCs
<1>3. CASE Body(r)
  <2>1. /\ UNCHANGED initialized /\ At(r, "body")
        /\ \/ Goto(r, "accepted") \/ Goto(r, "fallbacks") \/ Goto(r, "quota") \/ Goto(r, "refused")
    BY <1>3 DEF Body, Quiet, managerVars
  <2>2. req[r].token # Master => initialized
    BY <2>1 DEF At, Known
  <2>3. QED
    BY <2>1, <2>2, KnownGoto DEF PCs
<1>4. CASE Fallbacks(r)
  <2>1. /\ UNCHANGED initialized /\ At(r, "fallbacks")
        /\ \/ Goto(r, "quota") \/ Goto(r, "refused")
    BY <1>4 DEF Fallbacks, Quiet, managerVars
  <2>2. req[r].token # Master => initialized
    BY <2>1 DEF At, Known
  <2>3. QED
    BY <2>1, <2>2, KnownGoto DEF PCs
<1>5. CASE Quota(r)
  <2>1. UNCHANGED initialized /\ (Goto(r, "accepted") \/ Goto(r, "refused"))
    BY <1>5 DEF Quota
  <2>2. QED
    BY <2>1, KnownGoto DEF PCs
<1>6. CASE Local(r) \/ Dispatch(r) \/ Finish(r)
  <2>1. UNCHANGED initialized /\ (Goto(r, "answered") \/ Goto(r, "sent"))
    BY <1>6 DEF Local, Dispatch, Finish, Quiet, managerVars
  <2>2. QED
    BY <2>1, KnownGoto DEF PCs
<1>7. QED
  BY <1>1, <1>2, <1>3, <1>4, <1>5, <1>6 DEF RequestStep

LEMMA KnownStep == TypeOK /\ Known /\ [Next]_vars => Known'
<1> SUFFICES ASSUME TypeOK, Known, [Next]_vars
             PROVE  Known'
  OBVIOUS
<1>1. CASE AdminStep
  <2>1. CASE AdminLoads \/ AdminLoaded \/ SaveBegins \/ \E ok \in BOOLEAN : Saved(ok)
    BY <2>1 DEF AdminLoads, AdminLoaded, Load, SaveBegins, Saved, managerVars, Known
  <2>2. ASSUME NEW t \in Tokens, Update(t) \/ Delete(t) \/ Expire(t)
        PROVE  Known'
    <3>1. UNCHANGED <<req, initialized>>
      BY <2>2 DEF Update, Delete, Expire, Writes, managerVars
    <3>2. QED
      BY <3>1 DEF Known
  <2>3. ASSUME NEW t \in Tokens, NEW q \in Quotas, NEW a \in Lists, Create(t, q, a)
        PROVE  Known'
    BY <2>3 DEF Create, Writes, Known
  <2>4. QED
    BY <1>1, <2>1, <2>2, <2>3 DEF AdminStep
<1>2. ASSUME NEW r \in Requests, NEW t \in Tokens \cup {Master}, NEW ask \in Asks,
             Arrive(r, t, ask)
      PROVE  Known'
  <2>1. /\ UNCHANGED initialized
        /\ \A q \in Requests : q # r => req'[q] = req[q]
        /\ req'[r].pc = "auth"
    BY <1>2 DEF Arrive, Quiet, managerVars, TypeOK
  <2>2. QED
    BY <2>1 DEF Known
<1>3. CASE UNCHANGED vars
  BY <1>3 DEF vars, managerVars, Known
<1>4. QED
  BY <1>1, <1>2, <1>3, KnownRequest DEF Next

\* A request that waits with a deleted token finds the table loaded and its
\* token not in it, as long as no other load brings it back.
GoneInv ==
    \A r \in Requests : "gone" \in past[r] /\ "reloaded" \notin past[r] =>
        /\ initialized
        /\ \/ req[r].pc = "refused"
           \/ req[r].pc \in WaitingPCs /\ req[r].token \in Tokens \ table

LEMMA InitGoneInv == Init => GoneInv
  BY DEF Init, GoneInv

LEMMA GoneRequest ==
    ASSUME TypeOK, GoneInv, NEW r \in Requests, RequestStep(r)
    PROVE  GoneInv'
<1> SUFFICES ASSUME NEW q \in Requests, "gone" \in past'[q], "reloaded" \notin past'[q]
             PROVE  /\ initialized'
                    /\ \/ req'[q].pc = "refused"
                       \/ req'[q].pc \in WaitingPCs /\ req'[q].token \in Tokens \ table'
  BY DEF GoneInv
<1>1. CASE Identified(r)
  <2>1. "gone" \in past[q] /\ "reloaded" \notin past[q]
        /\ (initialized => req[q].pc \notin WaitingPCs)
    <3>1. Load
      BY <1>1 DEF Identified
    <3>2. QED
      BY <3>1, LoadMarks
  <2>2. initialized /\ req[q].pc = "refused"
    BY <2>1 DEF GoneInv
  <2>3. q # r /\ req'[q] = req[q] /\ initialized'
    BY <1>1, <2>2 DEF Identified, At, Goto, Load, TypeOK
  <2>4. QED
    BY <2>2, <2>3
<1>2. CASE ~ Identified(r)
  <2>1. UNCHANGED <<table, initialized, past>>
    BY <1>2, RequestFrame
  <2>2. /\ initialized
        /\ \/ req[q].pc = "refused"
           \/ req[q].pc \in WaitingPCs /\ req[q].token \in Tokens \ table
    BY <2>1 DEF GoneInv
  <2>3. CASE q # r
    <3>1. req'[q] = req[q]
      BY <1>2, <2>3 DEF RequestStep, Identify, Body, Fallbacks, Quota, Local, Dispatch, Finish,
                        Goto, TypeOK
    <3>2. QED
      BY <2>1, <2>2, <3>1
  <2>4. CASE q = r
    <3>1. req[r].pc # "refused"
      BY <1>2 DEF RequestStep, Identify, Body, Fallbacks, Quota, Local, Dispatch, Finish, At
    <3>2. req[r].token # Master /\ ~ Identity(table, req[r].token) /\ req[r].pc \in WaitingPCs
          /\ req[r].token \in Tokens \ table
      BY <2>2, <2>4, <3>1, GatewayAssumption DEF Identity
    <3>3. \E next \in {"body", "fallbacks", "quota", "refused"} : Goto(r, next)
      BY <1>2, <2>2, <3>2 DEF RequestStep, Identify, Body, Fallbacks, Quota, Local, Dispatch,
                              Finish, At, WaitingPCs
    <3>4. req'[r].token = req[r].token /\ req'[r].pc \in {"body", "fallbacks", "quota", "refused"}
      BY <3>3 DEF Goto, TypeOK
    <3>5. QED
      BY <2>1, <2>2, <2>4, <3>2, <3>4 DEF WaitingPCs
  <2>5. QED
    BY <2>3, <2>4
<1>3. QED
  BY <1>1, <1>2

LEMMA GoneStep == TypeOK /\ GoneInv /\ [Next]_vars => GoneInv'
<1> SUFFICES ASSUME TypeOK, GoneInv, [Next]_vars
             PROVE  GoneInv'
  OBVIOUS
<1>1. CASE UNCHANGED <<table, initialized, req, past>>
  BY <1>1 DEF GoneInv
<1>2. CASE AdminStep
  <2>1. CASE AdminLoaded
    <3>1. initialized' /\ UNCHANGED req
      BY <2>1 DEF AdminLoaded, Load
    <3>2. \A r \in Requests :
             /\ initialized /\ req[r].pc \in WaitingPCs => "reloaded" \in past'[r]
             /\ past'[r] = past[r] \/ past'[r] = past[r] \cup {"reloaded"}
      <4>1. Load
        BY <2>1 DEF AdminLoaded
      <4>2. QED
        BY <4>1, LoadMarks
    <3>3. QED
      BY <3>1, <3>2 DEF GoneInv
  <2>2. ASSUME NEW t \in Tokens, Delete(t)
        PROVE  GoneInv'
    <3>1. /\ t \in table /\ table' = table \ {t} /\ UNCHANGED req
          /\ initialized /\ initialized'
          /\ \A r \in Requests : past'[r] = IF r \in Waiting(t) THEN past[r] \cup {"gone"} ELSE past[r]
      BY <2>2 DEF Delete, Writes, Happened
    <3>2. \A r \in Waiting(t) : r \in Requests /\ req[r].token = t /\ req[r].pc \in WaitingPCs
      BY <3>1 DEF Waiting
    <3>3. QED
      BY <3>1, <3>2 DEF GoneInv
  <2>3. ASSUME NEW t \in Tokens, NEW q \in Quotas, NEW a \in Lists, Create(t, q, a)
        PROVE  GoneInv'
    <3>1. /\ table' = table \cup {t} /\ UNCHANGED <<req, initialized, past>>
          /\ \A r \in Requests : req[r].token # t
      BY <2>3 DEF Create, Writes
    <3>2. QED
      BY <3>1 DEF GoneInv
  <2>4. ASSUME NEW t \in Tokens, Update(t)
        PROVE  GoneInv'
    <3>1. /\ UNCHANGED <<table, initialized, req>>
          /\ \A r \in Requests : /\ "gone" \in past'[r] => "gone" \in past[r]
                                 /\ "reloaded" \in past[r] => "reloaded" \in past'[r]
      BY <2>4 DEF Update, Writes, Happened
    <3>2. QED
      BY <3>1 DEF GoneInv
  <2>5. CASE \/ AdminLoads \/ SaveBegins \/ \E ok \in BOOLEAN : Saved(ok)
             \/ \E t \in Tokens : Expire(t)
    BY <1>1, <2>5 DEF AdminLoads, SaveBegins, Saved, Expire, managerVars, history
  <2>6. QED
    BY <1>2, <2>1, <2>2, <2>3, <2>4, <2>5 DEF AdminStep
<1>3. ASSUME NEW r \in Requests, NEW t \in Tokens \cup {Master}, NEW ask \in Asks,
             Arrive(r, t, ask)
      PROVE  GoneInv'
  <2>1. /\ UNCHANGED <<table, initialized, past>>
        /\ \A q \in Requests : q # r => req'[q] = req[q]
        /\ req[r].pc = "idle"
    BY <1>3 DEF Arrive, At, Quiet, managerVars, history, TypeOK
  <2>2. QED
    BY <2>1 DEF GoneInv, WaitingPCs
<1>4. CASE UNCHANGED vars
  BY <1>1, <1>4 DEF vars, managerVars, history
<1>5. QED
  BY <1>2, <1>3, <1>4, GoneRequest DEF Next

\* Unless it was edited or reloaded meanwhile, the list of a token that is known has been
\* asked for the fallbacks when the request comes to the quota, and for the
\* model too when it has passed.
Bypass(r) ==
    /\ At(r, "sent") => req[r].ask.endpoint # "count"
    /\ req[r].token # Master /\ req[r].ask.endpoint # "count"
       /\ past[r] \cap {"edited", "reloaded"} = {} =>
          /\ At(r, "quota") /\ req[r].token \in table =>
                req[r].ask.fallbacks \subseteq meta[req[r].token].allowed
          /\ req[r].pc \in {"accepted", "sent"} =>
                ({req[r].ask.model} \ {""}) \cup req[r].ask.fallbacks
                    \subseteq meta[req[r].token].allowed

BypassInv == \A r \in Requests : Bypass(r)

LEMMA InitBypassInv == Init => BypassInv
<1> SUFFICES ASSUME Init, NEW r \in Requests
             PROVE  Bypass(r)
  BY DEF BypassInv
<1>1. req[r].pc = "idle"
  BY DEF Init
<1>2. QED
  BY <1>1 DEF Bypass, At

\* A request that stands still is only disturbed by a change of its token.
LEMMA BypassFrame ==
    ASSUME BypassInv, NEW r \in Requests, req'[r] = req[r],
           \/ past'[r] \cap {"edited", "reloaded"} # {} \/ req[r].pc \notin {"quota", "accepted", "sent"}
           \/ /\ past[r] \subseteq past'[r]
              /\ req[r].token # Master =>
                    meta'[req[r].token].allowed = meta[req[r].token].allowed
              /\ At(r, "quota") /\ req[r].token \in table' => req[r].token \in table
    PROVE  Bypass(r)'
  BY DEF BypassInv, Bypass, At

LEMMA BypassAdmin ==
    ASSUME TypeOK, Known, BypassInv, AdminStep
    PROVE  BypassInv'
<1> SUFFICES ASSUME NEW r \in Requests
             PROVE  Bypass(r)'
  BY DEF BypassInv
<1>1. req'[r] = req[r] /\ (req[r].token # Master => req[r].token \in Tokens)
  BY DEF AdminStep, AdminLoads, AdminLoaded, SaveBegins, Saved, Update, Delete, Expire, Create, TypeOK
<1>2. CASE AdminLoads \/ SaveBegins \/ \E ok \in BOOLEAN : Saved(ok)
  BY <1>1, <1>2, BypassFrame DEF AdminLoads, SaveBegins, Saved, managerVars, history
<1>3. CASE AdminLoaded
  <2>1. UNCHANGED meta /\ past[r] \subseteq past'[r]
        /\ (initialized /\ req[r].pc \in WaitingPCs => "reloaded" \in past'[r])
    <3>1. Load /\ UNCHANGED meta
      BY <1>3 DEF AdminLoaded
    <3>2. QED
      BY <3>1, LoadMarks
  <2>2. At(r, "quota") /\ req[r].token # Master => "reloaded" \in past'[r]
    BY <2>1 DEF Known, At, WaitingPCs
  <2>3. CASE req[r].token = Master
    BY <1>1, <2>3 DEF Bypass, BypassInv, At
  <2>4. CASE req[r].token # Master
    BY <1>1, <2>1, <2>2, <2>4, BypassFrame DEF At
  <2>5. QED
    BY <2>3, <2>4
<1>4. ASSUME NEW t \in Tokens, Delete(t)
      PROVE  Bypass(r)'
  <2>1. /\ UNCHANGED meta /\ table' = table \ {t}
        /\ past[r] \subseteq past'[r]
    BY <1>4 DEF Delete, Writes, Happened
  <2>2. QED
    BY <1>1, <2>1, BypassFrame
<1>5. ASSUME NEW t \in Tokens, Update(t)
      PROVE  Bypass(r)'
  <2>1. /\ table' = table /\ \A u \in Tokens : u # t => meta'[u] = meta[u]
        /\ past[r] \subseteq past'[r]
        /\ r \in Open(t) => "edited" \in past'[r]
    <3>1. past' = Happened(Open(t), "edited") /\ table' = table
      BY <1>5 DEF Update, Writes
    <3>2. \A u \in Tokens : u # t => meta'[u] = meta[u]
      BY <1>5 DEF Update, TypeOK
    <3>3. QED
      BY <3>1, <3>2 DEF Happened
  <2>2. CASE req[r].token = t /\ req[r].pc \in {"quota", "accepted", "sent"}
    <3>1. r \in Open(t)
      BY <2>2 DEF Open, Waiting, WaitingPCs
    <3>2. QED
      BY <1>1, <2>1, <3>1, BypassFrame
  <2>3. CASE req[r].token # t
    BY <1>1, <2>1, <2>3, BypassFrame
  <2>4. CASE req[r].pc \notin {"quota", "accepted", "sent"}
    BY <1>1, <2>4, BypassFrame
  <2>5. QED
    BY <2>2, <2>3, <2>4
<1>6. ASSUME NEW t \in Tokens, Expire(t)
      PROVE  Bypass(r)'
  <2>1. /\ UNCHANGED <<table, past>>
        /\ \A u \in Tokens : meta'[u].allowed = meta[u].allowed
    BY <1>6, MetaField DEF Expire, managerVars, history, Meta
  <2>2. QED
    BY <1>1, <2>1, BypassFrame
<1>7. ASSUME NEW t \in Tokens, NEW q \in Quotas, NEW a \in Lists, Create(t, q, a)
      PROVE  Bypass(r)'
  <2>1. /\ table' = table \cup {t} /\ UNCHANGED past /\ req[r].token # t
        /\ \A u \in Tokens : u # t => meta'[u] = meta[u]
    BY <1>7 DEF Create, Writes, TypeOK
  <2>2. QED
    BY <1>1, <2>1, BypassFrame
<1>8. QED
  BY <1>2, <1>3, <1>4, <1>5, <1>6, <1>7 DEF AdminStep

LEMMA BypassRequest ==
    ASSUME TypeOK, Known, BypassInv, NEW q \in Requests, RequestStep(q)
    PROVE  BypassInv'
<1> SUFFICES ASSUME NEW r \in Requests
             PROVE  Bypass(r)'
  BY DEF BypassInv
<1>1. \A u \in Tokens : meta'[u].allowed = meta[u].allowed
  <2>1. CASE UNCHANGED meta
    BY <2>1, RequestFrame
  <2>2. CASE Quota(q) /\ Consume(q, req[q].token)
    BY <2>2, RequestFrame, MetaField DEF Consume, TypeOK, Meta
  <2>3. QED
    BY <2>1, <2>2, RequestFrame DEF Quota
<1>2. req[r].token # Master => req[r].token \in Tokens
  BY DEF TypeOK
<1>3. CASE Identified(q) \/ q # r
  <2>1. /\ past[r] \subseteq past'[r]
        /\ Identified(q) /\ initialized /\ req[r].pc \in WaitingPCs => "reloaded" \in past'[r]
        /\ ~ Identified(q) => table' = table
    <3>1. Identified(q) => Load
      BY DEF Identified
    <3>2. ~ Identified(q) => UNCHANGED <<table, past>>
      BY RequestFrame
    <3>3. QED
      BY <3>1, <3>2, LoadMarks
  <2>2. At(r, "quota") /\ req[r].token # Master => table' = table \/ "reloaded" \in past'[r]
    BY <2>1 DEF Known, At, WaitingPCs
  <2>3. CASE q # r
    <3>1. req'[r] = req[r]
      BY <2>3 DEF RequestStep, Identify, Identified, Body, Fallbacks, Quota, Local, Dispatch,
                  Finish, Goto, TypeOK
    <3>2. CASE req[r].token = Master
      BY <3>1, <3>2 DEF Bypass, BypassInv, At
    <3>3. CASE req[r].token # Master
      BY <1>1, <1>2, <2>1, <2>2, <3>1, <3>3, BypassFrame DEF At
    <3>4. QED
      BY <3>2, <3>3
  <2>4. CASE q = r
    <3>1. Identified(r)
      BY <1>3, <2>4
    <3>2. req'[r].pc \in {"body", "refused"}
      BY <3>1 DEF Identified, Goto, TypeOK
    <3>3. QED
      BY <3>2 DEF Bypass, At
  <2>5. QED
    BY <2>3, <2>4
<1>4. CASE ~ Identified(q) /\ q = r
  <2>1. table' = table /\ past' = past
    BY <1>4, RequestFrame
  <2>2. Bypass(r)
    BY DEF BypassInv
  <2>3. CASE Identify(r)
    <3>1. req'[r].pc \in {"body", "refused", "loading"}
      BY <2>3 DEF Identify, Goto, TypeOK
    <3>2. QED
      BY <3>1 DEF Bypass, At
  <2>4. CASE Body(r)
    <3>1. /\ req'[r].token = req[r].token /\ req'[r].ask = req[r].ask
          /\ req'[r].pc \in {"accepted", "fallbacks", "quota", "refused"}
          /\ req'[r].pc = "accepted" => req[r].token = Master
          /\ req'[r].pc = "quota" => req[r].ask.fallbacks = {} \/ req[r].ask.endpoint = "count"
      BY <2>4 DEF Body, Goto, TypeOK
    <3>2. QED
      BY <3>1 DEF Bypass, At
  <2>5. CASE Fallbacks(r)
    <3>1. /\ req'[r].token = req[r].token /\ req'[r].ask = req[r].ask
          /\ req'[r].pc \in {"quota", "refused"} /\ UNCHANGED meta
          /\ req'[r].pc = "quota" /\ req[r].token \in table =>
                req[r].ask.fallbacks \subseteq meta[req[r].token].allowed
      BY <2>5 DEF Fallbacks, Goto, Quiet, TypeOK
    <3>2. QED
      BY <2>1, <3>1 DEF Bypass, At
  <2>6. CASE Quota(r)
    <3>1. /\ req'[r].token = req[r].token /\ req'[r].ask = req[r].ask
          /\ req'[r].pc \in {"accepted", "refused"} /\ At(r, "quota")
          /\ req'[r].pc = "accepted" =>
                req[r].token \in table /\ Allowed(req[r].token, req[r].ask.model)
      BY <2>6 DEF Quota, Goto, Identity, TypeOK
    <3>2. CASE req'[r].pc = "accepted"
      <4>1. req[r].token \in Tokens /\ meta'[req[r].token].allowed = meta[req[r].token].allowed
        BY <1>1, <3>1, <3>2 DEF TypeOK
      <4>2. {req[r].ask.model} \ {""} \subseteq meta[req[r].token].allowed
        BY <3>1, <3>2 DEF Allowed
      <4>3. QED
        BY <1>1, <2>1, <2>2, <3>1, <3>2, <4>1, <4>2 DEF Bypass, At
    <3>3. CASE req'[r].pc = "refused"
      BY <3>3 DEF Bypass, At
    <3>4. QED
      BY <3>1, <3>2, <3>3
  <2>7. CASE Local(r) \/ Finish(r)
    <3>1. req'[r].pc = "answered"
      BY <2>7 DEF Local, Finish, Goto, TypeOK
    <3>2. QED
      BY <3>1 DEF Bypass, At
  <2>8. CASE Dispatch(r)
    <3>1. /\ req'[r].token = req[r].token /\ req'[r].ask = req[r].ask
          /\ req'[r].pc = "sent" /\ req[r].pc = "accepted" /\ req[r].ask.endpoint # "count"
          /\ UNCHANGED <<meta, past>>
      BY <2>8 DEF Dispatch, Goto, At, Quiet, history, TypeOK
    <3>2. QED
      BY <2>2, <3>1 DEF Bypass, At
  <2>9. QED
    BY <1>4, <2>3, <2>4, <2>5, <2>6, <2>7, <2>8 DEF RequestStep
<1>5. QED
  BY <1>3, <1>4

LEMMA BypassStep == TypeOK /\ Known /\ BypassInv /\ [Next]_vars => BypassInv'
<1> SUFFICES ASSUME TypeOK, Known, BypassInv, [Next]_vars
             PROVE  BypassInv'
  OBVIOUS
<1>1. ASSUME NEW q \in Requests, NEW t \in Tokens \cup {Master}, NEW ask \in Asks,
             Arrive(q, t, ask)
      PROVE  BypassInv'
  <2> SUFFICES ASSUME NEW r \in Requests
               PROVE  Bypass(r)'
    BY DEF BypassInv
  <2>1. UNCHANGED <<meta, table, past>>
    BY <1>1 DEF Arrive, Quiet, managerVars, history
  <2>2. CASE r = q
    <3>1. req'[r].pc = "auth"
      BY <1>1, <2>2 DEF Arrive, TypeOK
    <3>2. QED
      BY <3>1 DEF Bypass, At
  <2>3. CASE r # q
    <3>1. req'[r] = req[r]
      BY <1>1, <2>3 DEF Arrive, TypeOK
    <3>2. QED
      BY <2>1, <3>1, BypassFrame
  <2>4. QED
    BY <2>2, <2>3
<1>2. CASE UNCHANGED vars
  BY <1>2 DEF vars, managerVars, history, BypassInv, Bypass, At
<1>3. QED
  BY <1>1, <1>2, BypassAdmin, BypassRequest DEF Next

-----------------------------------------------------------------------------
(* The theorems.                                                           *)

\* Every reachable state of the gateway is of the declared type.
THEOREM GatewayTypeCorrect == Spec => []TypeOK
  BY InitType, TypeStep, PTL DEF Spec

\* However many requests of a token race with each other and with edits of
\* it, try_consume lets no more of them through between two resets than the
\* highest quota the token had then.
THEOREM QuotaNeverExceeded == Spec => []QuotaKept
<1>1. QuotaInv => QuotaKept
  BY DEF QuotaInv, QuotaKept
<1>2. QED
  BY <1>1, InitType, TypeStep, InitQuotaInv, QuotaInvStep, PTL DEF Spec

\* A request pays exactly when enforce_token_quota lets it through, and once.
THEOREM EachPaysOnce == Spec => []ChargedOnce
  BY InitType, TypeStep, InitCharged, ChargedStep, PTL DEF Spec

\* Whoever holds a token that is deleted before try_consume is refused, unless
\* the table is loaded once more while the request waits.
THEOREM DeletedIsRefused == Spec => []GoneIsRefused
<1>1. GoneInv => GoneIsRefused
  BY DEF GoneInv, GoneIsRefused, Passed, WaitingPCs
<1>2. QED
  BY <1>1, InitType, TypeStep, InitGoneInv, GoneStep, PTL DEF Spec

\* What is sent upstream for a token names no model, and no fallback, that is
\* not on the white list of the token, unless the list was edited or the table
\* loaded once more on the way.
THEOREM WhiteListHolds == Spec => []NoBypass
<1>1. BypassInv => NoBypass
  BY DEF BypassInv, Bypass, NoBypass, At
<1>2. QED
  BY <1>1, InitType, TypeStep, InitKnown, KnownStep, InitBypassInv, BypassStep, PTL DEF Spec

-----------------------------------------------------------------------------
(* The saver                                                                 *)

\* A flush that runs alone is the only saver: the task has ended or has a
\* cancellation coming.
Alone ==
    /\ ~ Running => pc["task"] = "idle" \/ cancelled
    /\ cancelled => ~ Running

\* A save carries the newest data or the flag is up again; when it has landed
\* and the flag is down the storage is up to date.
Carries ==
    \A p \in Savers :
        /\ pc[p] = "saving" /\ Uncancelled(p) =>
              /\ stored <= taken[p] /\ taken[p] <= live
              /\ taken[p] = live \/ dirty
        /\ pc[p] = "taken" /\ ~ dirty /\ Uncancelled(p) => stored = live

\* A flush that is over leaves the flag up only after a save that failed.
Refused == pc["shutdown"] = "closed" /\ dirty => failed

SaverInv ==
    /\ SaverTypeOK
    /\ Alone
    /\ Carries
    /\ Refused
    /\ stored <= live
    /\ ChangesTracked

LEMMA InitSaverInv == SaverInit => SaverInv
<1> SUFFICES ASSUME SaverInit
             PROVE  SaverInv
  OBVIOUS
<1>1. SaverTypeOK
  <2>1. live \in 0..MaxChanges /\ stored \in 0..MaxChanges /\ failures \in 0..MaxFailures
    BY SaverAssumption DEF SaverInit
  <2>2. /\ pc \in [Savers -> States] /\ taken \in [Savers -> 0..MaxChanges]
        /\ pc["task"] = "idle" /\ pc["shutdown"] = "idle"
    BY SaverAssumption DEF SaverInit, Savers, States
  <2>3. /\ dirty \in BOOLEAN /\ cancelled \in BOOLEAN
        /\ failed \in BOOLEAN /\ interrupted \in BOOLEAN /\ ~ cancelled
    BY DEF SaverInit
  <2>4. QED
    BY <2>1, <2>2, <2>3 DEF SaverTypeOK
<1>2. Alone
  BY DEF SaverInit, Alone, Running, Savers
<1>3. Carries
  BY DEF SaverInit, Carries, Savers
<1>4. stored <= live
  BY DEF SaverInit
<1>5. ChangesTracked
  BY DEF SaverInit, ChangesTracked
<1>6. Refused
  BY DEF SaverInit, Refused, Savers
<1>7. QED
  BY <1>1, <1>2, <1>3, <1>4, <1>5, <1>6 DEF SaverInv

LEMMA SaverInvStep == SaverInv /\ [SaverNext]_saverVars => SaverInv'
<1> SUFFICES ASSUME SaverInv, [SaverNext]_saverVars
             PROVE  SaverInv'
  OBVIOUS
<1> USE SaverAssumption
    DEF SaverInv, SaverTypeOK, Alone, Carries, Refused, ChangesTracked, Running, Savers, States, InFlight,
        Uncancelled, Done
<1>1. CASE Change
  <2>1. SaverTypeOK'
    <3>1. CASE pc["task"] = "idle"
      <4>1. /\ live' \in 0..MaxChanges /\ stored' \in 0..MaxChanges
            /\ failures' \in 0..MaxFailures /\ taken' \in [Savers -> 0..MaxChanges]
        BY <1>1 DEF Change
      <4>2. /\ pc' \in [Savers -> States]
            /\ pc'["task"] = "pause" /\ pc'["shutdown"] = "idle"
        BY <1>1, <3>1 DEF Change
      <4>3. /\ dirty' \in BOOLEAN /\ failed' \in BOOLEAN
            /\ interrupted' = interrupted /\ cancelled' = cancelled /\ ~ cancelled
        BY <1>1, <3>1 DEF Change
      <4>4. QED
        BY <4>1, <4>2, <4>3
    <3>2. CASE pc["task"] # "idle"
      BY <1>1, <3>2 DEF Change
    <3>3. QED
      BY <3>1, <3>2
  <2>2. Alone'
    BY <1>1 DEF Change
  <2>3. Carries'
    BY <1>1 DEF Change
  <2>4. (stored <= live)'
    BY <1>1 DEF Change
  <2>5. ChangesTracked'
    BY <1>1 DEF Change
  <2>6. Refused'
    BY <1>1 DEF Change
  <2>7. QED
    BY <2>1, <2>2, <2>3, <2>4, <2>5, <2>6
<1>2. CASE Wake
  <2>1. SaverTypeOK'
    BY <1>2 DEF Wake, LoopHead
  <2>2. Alone'
    BY <1>2 DEF Wake, LoopHead
  <2>3. Carries'
    BY <1>2 DEF Wake, LoopHead
  <2>4. (stored <= live)'
    BY <1>2 DEF Wake
  <2>5. ChangesTracked'
    BY <1>2 DEF Wake, LoopHead
  <2>6. Refused'
    BY <1>2 DEF Wake, LoopHead
  <2>7. QED
    BY <2>1, <2>2, <2>3, <2>4, <2>5, <2>6
<1>3. ASSUME NEW p \in Savers, Store(p)
      PROVE  SaverInv'
  BY <1>3 DEF Store
<1>4. ASSUME NEW p \in Savers, SaveFails(p)
      PROVE  SaverInv'
  BY <1>4 DEF SaveFails
<1>5. ASSUME NEW p \in Savers, Resume(p)
      PROVE  SaverInv'
  <2>1. SaverTypeOK'
    BY <1>5 DEF Resume, LoopHead
  <2>2. Alone'
    BY <1>5 DEF Resume, LoopHead
  <2>3. Carries'
    BY <1>5 DEF Resume, LoopHead
  <2>4. (stored <= live)'
    BY <1>5 DEF Resume
  <2>5. ChangesTracked'
    BY <1>5 DEF Resume, LoopHead
  <2>6. Refused'
    BY <1>5 DEF Resume, LoopHead
  <2>7. QED
    BY <2>1, <2>2, <2>3, <2>4, <2>5, <2>6
<1>6. CASE Flush
  <2>1. SaverTypeOK'
    BY <1>6 DEF Flush, LoopHead
  <2>2. Alone'
    BY <1>6 DEF Flush, LoopHead
  <2>3. Carries'
    BY <1>6 DEF Flush, LoopHead
  <2>4. (stored <= live)'
    BY <1>6 DEF Flush
  <2>5. ChangesTracked'
    BY <1>6 DEF Flush, LoopHead
  <2>6. Refused'
    BY <1>6 DEF Flush, LoopHead
  <2>7. QED
    BY <2>1, <2>2, <2>3, <2>4, <2>5, <2>6
<1>7. CASE Cancel
  BY <1>7 DEF Cancel
<1>8. CASE UNCHANGED saverVars
  BY <1>8 DEF saverVars
<1>9. QED
  BY <1>1, <1>2, <1>3, <1>4, <1>5, <1>6, <1>7, <1>8 DEF SaverNext, SaveStep

\* Data the storage does not have is marked dirty or on its way, unless
\* flush() cut its save short.
THEOREM NoChangeForgotten == SaverSpec => []ChangesTracked
<1>1. SaverInv => ChangesTracked
  BY DEF SaverInv
<1>2. QED
  BY <1>1, InitSaverInv, SaverInvStep, PTL DEF SaverSpec

\* Once flush() has ended and the task is gone everything is stored, unless
\* the storage refused the data or flush() cut a save short.
THEOREM FlushLeavesNothing == SaverSpec => []FlushStores
<1>1. SaverInv => FlushStores
  <2> SUFFICES ASSUME SaverInv, pc["shutdown"] = "closed", ~ cancelled, ~ failed, ~ interrupted
               PROVE  stored = live
    BY DEF FlushStores
  <2>1. pc["task"] = "idle" /\ ~ dirty
    BY DEF SaverInv, Alone, Refused, Running
  <2>2. ~ InFlight
    BY <2>1 DEF InFlight, Savers
  <2>3. QED
    BY <2>1, <2>2 DEF SaverInv, ChangesTracked
<1>2. QED
  BY <1>1, InitSaverInv, SaverInvStep, PTL DEF SaverSpec

\* Neither the task, nor the shutdown beside a task being cancelled, puts
\* older data in the place of newer.
THEOREM StorageMovesForward == SaverSpec => StoredForward
<1>1. SaverInv /\ [SaverNext]_saverVars => [stored' >= stored]_saverVars
  <2> SUFFICES ASSUME SaverInv, [SaverNext]_saverVars
               PROVE  stored' >= stored
    OBVIOUS
  <2>1. stored \in Nat /\ live \in Nat /\ stored <= live
    BY SaverAssumption DEF SaverInv, SaverTypeOK
  <2>2. ASSUME NEW p \in Savers, Store(p)
        PROVE  stored' >= stored
    BY <2>1, <2>2, SaverAssumption DEF Store, SaverInv, SaverTypeOK, Carries
  <2>3. stored' = stored \/ \E p \in Savers : Store(p)
    BY DEF SaverNext, SaveStep, Change, Wake, SaveFails, Resume, Flush, Cancel, saverVars
  <2>4. QED
    BY <2>1, <2>2, <2>3
<1>2. QED
  BY <1>1, InitSaverInv, SaverInvStep, PTL DEF SaverSpec, StoredForward
================================================================================
