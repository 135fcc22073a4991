---------------------------- MODULE AccountSession ----------------------------
(***************************************************************************)
(* The sessions of the dashboard accounts and the pages read with them     *)
(* (src/src/api/account_api.py).  A session lives by a long-lived cookie,  *)
(* by a token of five minutes and by the stored password; it is renewed    *)
(* by requests that are refused, on demand and by the keep-alive loop.     *)
(*                                                                         *)
(* The storage hands out the stored object itself, so whoever read a       *)
(* session holds the record that others change and store: records have     *)
(* identities here.  A handler suspends while the dashboard answers, while *)
(* it waits for the lock of an account and, when the cache of the storage  *)
(* is being loaded or written back, in each call of the storage: saving or *)
(* clearing a session is several calls, and others come between them.      *)
(***************************************************************************)
EXTENDS Integers, Sequences, FiniteSets, FiniteSetsExt, SequencesExt, Functions

CONSTANTS
    Accounts, Clients, Keeper, Nobody,
    Pages,              \* the pages that clients open
    MaxFailures,        \* PASSWORD_RENEW_MAX_FAILURES
    MaxEvents,          \* bound: what clients, administrators and time do,
    BusyCost            \* for how many of these a busy storage counts

ASSUME SessionAssumption ==
    /\ IsFiniteSet(Accounts) /\ IsFiniteSet(Clients)
    /\ Nobody \notin Accounts \cup Clients \cup {Keeper} /\ Keeper \notin Clients
    /\ MaxFailures \in Nat \ {0} /\ MaxEvents \in Nat /\ BusyCost \in Nat

Procs == Clients \cup {Keeper}
Ids == 1 .. Cardinality(Accounts) + 2 * Cardinality(Procs) + 1

VARIABLES
    obj,        \* the session records in use
    book,       \* what is stored: sessions, the list of accounts, the current
                \* one; the updates of it under way; history: the accounts
                \* whose last update met another
    lock,       \* _renew_locks: who renews each account
    cache,      \* _cache_store: the accounts whose data an entry holds
    proc,       \* where each handler and the keep-alive loop are
    events

vars == <<obj, book, lock, cache, proc, events>>

\* cookie: aai_extended_session or session_token; password: enc_password;
\* age: renewed less than RENEW_THROTTLE_SECONDS ago, fresh, or due for
\* renewal; tired: a password failed within PASSWORD_RENEW_BACKOFF_SECONDS;
\* stale: _jwt_stale.
NoRecord == [cookie |-> FALSE, password |-> FALSE, age |-> "due",
             fails |-> 0, tired |-> FALSE, stale |-> FALSE]
Idle == [pc |-> "idle", page |-> Nobody, asked |-> Nobody, key |-> Nobody, who |-> Nobody,
         ref |-> 0, raw |-> 0, force |-> FALSE, after |-> Nobody, todo |-> <<>>,
         from |-> {}, found |-> FALSE]

Init ==
    /\ obj = [i \in Ids |-> NoRecord]
    /\ book = [stored |-> [a \in Accounts |-> 0], list |-> <<>>, current |-> Nobody,
               under |-> {}, crossed |-> {}, busy |-> FALSE]
    /\ lock = [a \in Accounts |-> Nobody]
    /\ cache = [e \in Pages |-> [a \in Accounts \cup {Nobody} |-> {}]]
    /\ proc = [p \in Procs |-> Idle]
    /\ events = 0

-----------------------------------------------------------------------------
(* The book.                                                               *)

\* The elements of a list that are in a set, in order: SelectSeq, written so
\* that it can be proved about.
Kept(list, set) ==
    LET kept[i \in 0 .. Len(list)] ==
          IF i = 0 THEN <<>>
          ELSE IF list[i] \in set THEN Append(kept[i - 1], list[i]) ELSE kept[i - 1]
    IN  kept[Len(list)]

Pruned(b) == Kept(b.list, {a \in Accounts : b.stored[a] # 0})

\* What a handler has left to do of _save_session and its second look at the
\* list, of _clear_session, or of _get_accounts_list alone; seen: the accounts
\* it found listed.
Update(p, a, kind) == [by |-> p, who |-> a, kind |-> kind, at |-> "read", seen |-> <<>>]

UnderWay(b) == {u.who : u \in b.under}

Begins(b, u) ==
    [b EXCEPT !.under = @ \cup {u},
              !.crossed = IF b.under = {} THEN @ \ {u.who} ELSE @ \cup UnderWay(b) \cup {u.who}]

\* _save_session and _clear_session up to the first call for the list
Saved(b, p, a, i) == Begins([b EXCEPT !.stored[a] = i], Update(p, a, "save"))

Cleared(b, p, a) ==
    IF a = Nobody THEN b ELSE Begins([b EXCEPT !.stored[a] = 0], Update(p, a, "clear"))

\* What is left when the accounts listed are known.
Rest(u, listed) ==
    CASE u.kind = "save" /\ u.who \in ToSet(listed) -> {Update(u.by, u.who, "check")}
      [] u.kind \in {"save", "clear"} /\ ~(u.kind = "save" /\ u.who \in ToSet(listed)) ->
             {[u EXCEPT !.at = "write", !.seen = listed]}
      [] u.kind = "check" /\ Len(listed) = 1 -> {[u EXCEPT !.at = "current", !.seen = <<>>]}
      [] u.kind = "list" \/ (u.kind = "check" /\ Len(listed) # 1) -> {}

\* The list, which is stored when it became shorter; it and the sessions are
\* read at one moment.
Listing(b, u) ==
    IF Pruned(b) = b.list THEN Rest(u, b.list) ELSE {[u EXCEPT !.at = "prune", !.seen = Pruned(b)]}

Named(q) == IF q = Nobody THEN book.current ELSE q
Session(q) == IF Named(q) = Nobody THEN 0 ELSE book.stored[Named(q)]

\* A handler goes on when its own update is done.
Free(p) == \A u \in book.under : u.by # p

Recoverable(i) == obj[i].cookie \/ obj[i].password

-----------------------------------------------------------------------------
(* Steps.                                                                  *)

Held(b, pr) == Range(b.stored) \cup {pr[p].ref : p \in Procs} \cup {pr[p].raw : p \in Procs}

\* A record nobody holds.
Spare == Min(Ids \ Held(book, proc))

Step(p, o, b, r) ==
    /\ proc' = [proc EXCEPT ![p] = r]
    /\ book' = b
    /\ \E held \in {Held(book', proc')} :
         obj' = [i \in Ids |-> IF i \in held THEN o[i] ELSE NoRecord]

\* The end of one fetch of a page, with something of use or without.
Fetched(r, good) ==
    [r EXCEPT !.pc = "next", !.ref = 0, !.raw = 0, !.who = Nobody, !.after = Nobody,
              !.todo = Tail(@), !.found = @ \/ (good /\ Head(r.todo) = "balance"), !.from = IF good THEN @ \cup {r.who} ELSE @]

WithCopy(p, o, b, r) ==
    LET i == Spare
    IN  Step(p, [o EXCEPT ![i] = [o[r.ref] EXCEPT !.stale = TRUE]], b,
             [r EXCEPT !.pc = "send", !.ref = i])

Happens == events < MaxEvents /\ events' = events + 1

Wait(r, a, force, after) ==
    [r EXCEPT !.pc = "lock", !.who = a, !.force = force, !.after = after]

-----------------------------------------------------------------------------
(* The calls of the storage that an update has left.                       *)

Stores(u, rest, b) ==
    /\ book' = [b EXCEPT !.under = (@ \ {u}) \cup rest]
    /\ UNCHANGED <<obj, lock, cache, proc, events>>

Added(list, a) == IF a \in ToSet(list) THEN list ELSE Append(list, a)

ReadsList(u) == u.at = "read" /\ Stores(u, Listing(book, u), book)

\* The account is added to the very list that was stored.
Prunes(u) ==
    /\ u.at = "prune"
    /\ Stores(u, Rest(u, u.seen),
              [book EXCEPT !.list = IF u.kind = "save" THEN Added(u.seen, u.who) ELSE u.seen])

Enters(u) ==
    /\ u.at = "write" /\ u.kind = "save"
    /\ Stores(u, {Update(u.by, u.who, "check")}, [book EXCEPT !.list = Added(u.seen, u.who)])

Others(u) == Kept(u.seen, Accounts \ {u.who})

Leaves(u) ==
    /\ u.at = "write" /\ u.kind = "clear"
    /\ Stores(u, {[u EXCEPT !.at = "current"]}, [book EXCEPT !.list = Others(u)])

\* The first account becomes the current one.
Elects(u) ==
    /\ u.at = "current" /\ u.kind = "check"
    /\ Stores(u, {}, [book EXCEPT !.current = u.who])

Looks(u) ==
    /\ u.at = "current" /\ u.kind = "clear"
    /\ Stores(u, IF book.current = u.who THEN {[u EXCEPT !.at = "pass"]} ELSE {}, book)

\* The current account stays when its session goes.
PassesNothing(u) == u.at = "pass" /\ Stores(u, {}, book)

PassesOn(u) ==
    /\ u.at = "pass"
    /\ Stores(u, {}, [book EXCEPT !.current = IF Others(u) = <<>> THEN Nobody ELSE Others(u)[1]])

StoreStep(u) ==
    ReadsList(u) \/ Prunes(u) \/ Enters(u) \/ Leaves(u) \/ Elects(u) \/ Looks(u) \/ PassesOn(u)

-----------------------------------------------------------------------------
(* _renew_session.                                                         *)

\* What follows in the task that renewed, with the session or without.
RenewEnds(p, o, b, i) ==
    LET r == [proc[p] EXCEPT !.raw = 0, !.force = FALSE]
        a == r.who
    IN  /\ lock' = [lock EXCEPT ![a] = IF @ = p THEN Nobody ELSE @]
        /\ CASE r.after = "fresh" /\ i # 0 -> Step(p, o, b, [r EXCEPT !.pc = "send", !.ref = i])
             [] r.after = "fresh" /\ i = 0 -> WithCopy(p, o, b, r)
             [] r.after = "retry" /\ i # 0 -> Step(p, o, b, [r EXCEPT !.pc = "resend", !.ref = i])
             [] r.after = "retry" /\ i = 0 -> Step(p, o, Cleared(b, p, a), Fetched(r, FALSE))
             [] r.after = "refresh" ->
                    Step(p, o, IF i # 0 \/ o[r.ref].cookie THEN b ELSE Cleared(b, p, a), Idle)
             [] r.after = "keep" -> Step(p, o, b, [r EXCEPT !.pc = "next", !.who = Nobody, !.after = Nobody])
        /\ UNCHANGED <<cache, events>>

Password(p, i) ==
    /\ proc[p].who # Nobody
    /\ IF obj[i].password /\ (proc[p].force \/ ~obj[i].tired)
       THEN /\ Step(p, obj, book, [proc[p] EXCEPT !.pc = "password", !.raw = i])
            /\ lock' = [lock EXCEPT ![proc[p].who] = p]
            /\ UNCHANGED <<cache, events>>
       ELSE RenewEnds(p, obj, book, 0)

Renew(p, i) ==
    IF i = 0 THEN RenewEnds(p, obj, book, 0)
    ELSE IF obj[i].age = "new" THEN RenewEnds(p, obj, book, i)
    ELSE IF ~obj[i].cookie THEN Password(p, i)
    ELSE /\ Step(p, obj, book, [proc[p] EXCEPT !.pc = "cookie", !.raw = i])
         /\ lock' = [lock EXCEPT ![proc[p].who] = p]
         /\ UNCHANGED <<cache, events>>

\* The lock is not waited for.
AcquireAnyway(p) ==
    /\ proc[p].pc = "lock"
    /\ Renew(p, book.stored[proc[p].who])

Acquire(p) ==
    /\ proc[p].pc = "lock" /\ lock[proc[p].who] = Nobody
    /\ Renew(p, book.stored[proc[p].who])

\* The record is stored; the lock is held until the update is done.
Saves(p, o, i, pc) ==
    /\ Step(p, o, Saved(book, p, proc[p].who, i), [proc[p] EXCEPT !.pc = pc, !.raw = i])
    /\ UNCHANGED <<lock, cache, events>>

Renewed(p) == proc[p].pc = "saving" /\ RenewEnds(p, obj, book, proc[p].raw)
Noted(p) == proc[p].pc = "noting" /\ RenewEnds(p, obj, book, 0)

\* The dashboard rolls the cookie; any other answer, and no answer, is none.
CookieRolls(p) ==
    /\ proc[p].pc = "cookie"
    /\ LET i == proc[p].raw
           o == [obj EXCEPT ![i] = [@ EXCEPT !.cookie = TRUE, !.age = "new", !.fails = 0,
                                             !.tired = FALSE, !.stale = FALSE]]
       IN  Saves(p, o, i, "saving")

CookieFails(p) == proc[p].pc = "cookie" /\ Password(p, proc[p].raw)

\* An answer to the password: a new record, with a cookie or without.
LogsIn(p) ==
    /\ proc[p].pc = "password"
    /\ \E cookie \in BOOLEAN :
         LET i == Spare
             o == [obj EXCEPT ![i] = [NoRecord EXCEPT !.cookie = cookie,
                                        !.password = obj[proc[p].raw].password, !.age = "new"]]
         IN  Saves(p, o, i, "saving")

PasswordRefused(p) ==
    /\ proc[p].pc = "password"
    /\ LET i == proc[p].raw
           n == obj[i].fails + 1
           o == [obj EXCEPT ![i] = [@ EXCEPT !.fails = n, !.tired = TRUE,
                                             !.password = n < MaxFailures]]
       IN  IF obj[i].password THEN Saves(p, o, i, "noting")
           ELSE RenewEnds(p, obj, book, 0)

\* The lock is kept when the answer is an error.
PasswordErrsLocked(p) ==
    /\ proc[p].pc = "password"
    /\ Step(p, obj, book, IF p = Keeper \/ proc[p].after = "refresh" THEN Idle
                       ELSE Fetched(proc[p], FALSE))
    /\ UNCHANGED <<lock, cache, events>>

PasswordErrs(p) == proc[p].pc = "password" /\ RenewEnds(p, obj, book, 0)

RenewStep(p) ==
    \/ Acquire(p) \/ CookieRolls(p) \/ CookieFails(p) \/ LogsIn(p) \/ PasswordRefused(p)
    \/ PasswordErrs(p) \/ Renewed(p) \/ Noted(p)

-----------------------------------------------------------------------------
(* The pages.  A fetch is for the account the request names, or for the    *)
(* current one at that moment; the fetch of the costs behind a page of     *)
(* billing is for the account the page was resolved to.  Those two pages   *)
(* are kept when one of the first two fetches gave the balance.            *)

Page(needs, fetches, kept) == [needs |-> needs, fetches |-> fetches, kept |-> kept]
ApiKeys == Page(TRUE, <<"asked">>, "always")
Overview == Page(TRUE, <<"balance", "balance", "resolved", "asked">>, "found")
Billing == Page(TRUE, <<"balance", "balance", "resolved">>, "found")
Usage == Page(FALSE, <<"asked">>, "always")
Cost == Page(FALSE, <<"asked">>, "always")
CostFilters == Page(TRUE, <<"asked">>, "always")
Rates == Page(FALSE, <<"asked">>, "always")
Shape == [api_keys |-> ApiKeys, overview |-> Overview, billing |-> Billing, usage |-> Usage,
          cost |-> Cost, cost_filters |-> CostFilters, rates |-> Rates]

ASSUME PagesAssumption == Pages \subseteq DOMAIN Shape

\* A page that is not served from the cache: forced, or its entry expired.
Open(c, e, q) ==
    /\ proc[c].pc = "idle" /\ Free(c) /\ Happens
    /\ Shape[e].needs => Session(q) # 0
    /\ Step(c, obj, book,
            [Idle EXCEPT !.pc = "next", !.page = e, !.asked = q, !.todo = Shape[e].fetches,
                         !.key = IF Session(q) # 0 THEN Named(q) ELSE q])
    /\ UNCHANGED <<lock, cache>>

\* The start of _make_dashboard_request, with _ensure_fresh_session.
Fetch(c) ==
    /\ c \in Clients /\ proc[c].pc = "next" /\ proc[c].todo # <<>>
    /\ LET q == IF Head(proc[c].todo) = "resolved" THEN proc[c].key ELSE proc[c].asked
           a == Named(q)
           i == Session(q)
           r == [proc[c] EXCEPT !.who = a, !.ref = i]
       IN  CASE i = 0 -> Step(c, obj, book, Fetched(r, FALSE))
             [] i # 0 /\ obj[i].age # "due" -> Step(c, obj, book, [r EXCEPT !.pc = "send"])
             [] i # 0 /\ obj[i].age = "due" /\ obj[i].cookie -> WithCopy(c, obj, book, r)
             [] i # 0 /\ obj[i].age = "due" /\ ~obj[i].cookie ->
                    Step(c, obj, book, Wait(r, a, FALSE, "fresh"))
    /\ UNCHANGED <<lock, cache, events>>

\* A cookie or a token that the dashboard rolled with its answer.
CapturedFlag(i, jwt) ==
    [obj EXCEPT ![i].cookie = TRUE, ![i].age = IF jwt /\ @ = "due" THEN "fresh" ELSE @]

Captured(i, jwt) ==
    [obj EXCEPT ![i].cookie = TRUE, ![i].stale = FALSE,
                ![i].age = IF jwt /\ @ = "due" THEN "fresh" ELSE @]

Answered(c) ==
    /\ proc[c].pc \in {"send", "resend"}
    /\ \E good \in BOOLEAN :
         LET r == proc[c]
         IN  \/ Step(c, obj, book, Fetched(r, good))
             \/ \E jwt \in BOOLEAN :
                  Step(c, Captured(r.ref, jwt), Saved(book, c, r.who, r.ref), Fetched(r, good))
    /\ UNCHANGED <<lock, cache, events>>

\* A redirection to the login page, another status, no answer.
AnswerFails(c) ==
    /\ proc[c].pc \in {"send", "resend"}
    /\ Step(c, obj, book, Fetched(proc[c], FALSE))
    /\ UNCHANGED <<lock, cache, events>>

Refused(c) ==
    /\ proc[c].pc = "send"
    /\ Step(c, obj, book, Wait(proc[c], proc[c].who, TRUE, "retry"))
    /\ UNCHANGED <<lock, cache, events>>

\* The account the request names is cleared.
RefusedAgainNamed(c) ==
    /\ proc[c].pc = "resend"
    /\ Step(c, obj, Cleared(book, c, Named(proc[c].asked)), Fetched(proc[c], FALSE))
    /\ UNCHANGED <<lock, cache, events>>

RefusedAgain(c) ==
    /\ proc[c].pc = "resend"
    /\ Step(c, obj, Cleared(book, c, proc[c].who), Fetched(proc[c], FALSE))
    /\ UNCHANGED <<lock, cache, events>>

Finish(c) ==
    /\ c \in Clients /\ proc[c].pc = "next" /\ proc[c].todo = <<>>
    /\ Step(c, obj, book, Idle)
    /\ cache' = IF Shape[proc[c].page].kept = "found" /\ ~proc[c].found THEN cache
                ELSE [cache EXCEPT ![proc[c].page][proc[c].key] = proc[c].from]
    /\ UNCHANGED <<lock, events>>

FetchStep(c) ==
    Fetch(c) \/ Answered(c) \/ AnswerFails(c) \/ Refused(c) \/ RefusedAgain(c) \/ Finish(c)

-----------------------------------------------------------------------------
(* The other handlers.                                                     *)

\* Bound: of the handlers that are no page, one updates each account.
Unattended(a) == \A u \in book.under : u.by = Nobody => u.who # a

\* _attach_encrypted_password: without the secret the password is not kept.
Encrypted == BOOLEAN

Login(a) ==
    /\ Happens /\ Unattended(a)
    /\ \E cookie \in BOOLEAN, password \in Encrypted :
         LET i == Spare
             b == Saved(book, Nobody, a, i)
         IN  /\ book' = b
             /\ obj' = [j \in Ids |-> IF j = i THEN [NoRecord EXCEPT !.cookie = cookie,
                                                       !.password = password, !.age = "new"]
                                      ELSE IF j \in Held(b, proc) THEN obj[j] ELSE NoRecord]
    /\ UNCHANGED <<lock, cache, proc>>

Drops(a) ==
    LET b == Cleared(book, Nobody, a)
    IN  /\ Unattended(a)
        /\ book' = b
        /\ obj' = [i \in Ids |-> IF i \in Held(b, proc) THEN obj[i] ELSE NoRecord]

Logout(q) == Happens /\ Drops(Named(q)) /\ UNCHANGED <<lock, cache, proc>>

\* Whoever reads a session that nothing can recover after its local window
\* clears it.
Lapses(a) ==
    /\ Happens
    /\ book.stored[a] # 0 /\ ~Recoverable(book.stored[a])
    /\ Drops(a)
    /\ UNCHANGED <<lock, cache, proc>>

Refresh(c, q) ==
    /\ Happens
    /\ proc[c].pc = "idle" /\ Free(c)
    /\ Session(q) # 0 /\ obj[Session(q)].age = "due"
    /\ Step(c, obj, book, Wait([Idle EXCEPT !.ref = Session(q)], Named(q), FALSE, "refresh"))
    /\ UNCHANGED <<lock, cache>>

\* _cache_clear_for_account
Purged(a) == [e \in Pages |-> [cache[e] EXCEPT ![a] = {}]]

Switch(a) ==
    /\ Happens
    /\ book.stored[a] # 0
    /\ book' = [book EXCEPT !.current = a]
    /\ cache' = Purged(a)
    /\ UNCHANGED <<obj, lock, proc>>

\* Between 20 seconds and a few minutes pass.  An entry of the cache stays
\* where it is when it expires.
Tick ==
    /\ Happens
    /\ \E rested \in BOOLEAN :
         obj' = [i \in Ids |-> [obj[i] EXCEPT !.age = IF @ = "new" THEN "fresh" ELSE "due",
                                              !.tired = @ /\ ~rested]]
    /\ UNCHANGED <<book, lock, cache, proc>>

\* The page of the accounts.
Lists ==
    /\ Happens /\ Unattended(Nobody)
    /\ Pruned(book) # book.list
    /\ book' = Begins(book, [Update(Nobody, Nobody, "list") EXCEPT !.at = "prune", !.seen = Pruned(book)])
    /\ UNCHANGED <<obj, lock, cache, proc>>

\* The cache of the storage is loaded or written back; its lock goes round
\* among those who wait until no update is under way.
StorageBusy ==
    /\ ~book.busy
    /\ events + BusyCost <= MaxEvents /\ events' = events + BusyCost
    /\ book' = [book EXCEPT !.busy = TRUE]
    /\ UNCHANGED <<obj, lock, cache, proc>>

StorageIdle ==
    /\ book.busy /\ book.under = {}
    /\ book' = [book EXCEPT !.busy = FALSE]
    /\ UNCHANGED <<obj, lock, cache, proc, events>>

AdminStep ==
    \/ Lists \/ StorageBusy \/ StorageIdle
    \/ \E a \in Accounts : Login(a) \/ Lapses(a) \/ Switch(a)
    \/ \E q \in Accounts \cup {Nobody} : Logout(q)

ClientStep ==
    \E c \in Clients, q \in Accounts \cup {Nobody} : Refresh(c, q) \/ \E e \in Pages : Open(c, e, q)

-----------------------------------------------------------------------------
(* _keepalive_loop.                                                        *)

Wake ==
    /\ proc[Keeper].pc = "idle" /\ book.list # <<>>
    /\ LET u == Update(Keeper, Nobody, "list")
       IN  Step(Keeper, obj, IF Pruned(book) = book.list THEN book
                             ELSE Begins(book, [u EXCEPT !.at = "prune", !.seen = Pruned(book)]),
                [Idle EXCEPT !.pc = "next", !.todo = Pruned(book)])
    /\ UNCHANGED <<lock, cache, events>>

\* Only accounts with a stored password.
RenewableByPassword(i) == obj[i].password

Renewable(i) == Recoverable(i)

\* The cookie of a fresh session may not have been rolled for long.
Keep ==
    /\ proc[Keeper].pc = "next"
    /\ LET r == proc[Keeper]
       IN  IF r.todo = <<>> THEN Step(Keeper, obj, book, Idle)
           ELSE LET a == Head(r.todo)
                    i == book.stored[a]
                    s == [r EXCEPT !.todo = Tail(@)]
                    tries == IF i = 0 THEN {FALSE}
                             ELSE IF ~Renewable(i) \/ obj[i].age = "new" THEN {FALSE}
                             ELSE IF obj[i].age = "due" THEN {TRUE}
                             ELSE BOOLEAN
                IN  \E try \in tries :
                      Step(Keeper, obj, book, IF try THEN Wait(s, a, FALSE, "keep") ELSE s)
    /\ UNCHANGED <<lock, cache, events>>

KeeperStep == Wake \/ Keep

HandlerStep(p) == RenewStep(p) \/ FetchStep(p) \/ (p = Keeper /\ KeeperStep)

\* While the storage is not busy an update is done in one go.
Settled == book.busy \/ book.under = {}

Next ==
    \/ Settled /\ (AdminStep \/ ClientStep \/ Tick)
    \/ \E p \in Procs : Settled /\ Free(p) /\ HandlerStep(p)
    \/ \E u \in book.under : StoreStep(u)

Spec == Init /\ [][Next]_vars

\* The dashboard answers or the call times out, the storage is written back,
\* and the loop goes on.  Only a lock that is held keeps a handler from its
\* next step, and asyncio gives a lock to those who wait for it in order:
\* strong fairness.
Storing(p) == \E u \in book.under : u.by = p /\ StoreStep(u)
Progress(p) == (Settled /\ Free(p) /\ HandlerStep(p)) \/ Storing(p)
FairSpec == Spec /\ (\A p \in Procs : SF_vars(Progress(p))) /\ WF_vars(Storing(Nobody))

-----------------------------------------------------------------------------
(* Properties.                                                             *)

TypeOK ==
    /\ obj \in [Ids -> [cookie : BOOLEAN, password : BOOLEAN,
                        age : {"new", "fresh", "due"}, fails : 0 .. MaxFailures,
                        tired : BOOLEAN, stale : BOOLEAN]]
    /\ book.stored \in [Accounts -> Ids \cup {0}]
    /\ lock \in [Accounts -> Procs \cup {Nobody}]
    /\ \A p \in Procs : proc[p].ref \in Ids \cup {0} /\ proc[p].raw \in Ids \cup {0}

\* The sessions, the list of accounts and the current account are stored one
\* by one.  When no update of an account is under way, and its last one met no
\* other, whatever others met: it is listed when it has a session and only
\* then, and the current account is listed; no account is listed twice
\* (_save_session, _remove_account_from_list).
BookAgrees ==
    /\ \A a \in Accounts \ (book.crossed \cup UnderWay(book)) :
           /\ book.stored[a] # 0 <=> a \in ToSet(book.list)
           /\ book.current = a => a \in ToSet(book.list)
    /\ IsInjective(book.list)

\* The same of every account that has no update under way: what two updates
\* that meet can break.
AlwaysAgrees ==
    \A a \in Accounts \ UnderWay(book) : book.stored[a] # 0 <=> a \in ToSet(book.list)

\* A request with a stale token marks a copy of the session: no session is
\* stored with the mark, which would keep its renewed token from being used
\* (_ensure_fresh_session, _make_dashboard_request).
MarkNotStored == \A a \in Accounts : book.stored[a] # 0 => ~obj[book.stored[a]].stale

Renewals == {"cookie", "password", "saving", "noting"}

\* Two renewals of one account are never under way at the same time, however
\* many requests are refused at once and whatever the loop does
\* (_renew_locks).
RenewsOnce ==
    \A p, q \in Procs :
        proc[p].pc \in Renewals /\ proc[q].pc \in Renewals /\ proc[p].who = proc[q].who => p = q

\* A refused request clears the session of the account it was sent for,
\* though another account became current while it waited (resolved_email).
\* It may be a newer session of that account than the one it was sent with.
ClearsItsOwn ==
    [][ \A a \in Accounts :
          book.stored[a] # 0 /\ book'.stored[a] = 0 /\ proc' # proc
          => \E p \in Procs : proc'[p] # proc[p] /\ proc[p].who = a ]_vars

\* Every request ends, though it may wait for the renewal of another.
RequestsEnd == \A c \in Clients : proc[c].pc # "idle" ~> proc[c].pc = "idle"

\* A session that is due and can be renewed, be it with a cookie alone, is
\* taken up, by the loop if by no other, as long as its account stays listed:
\* docs/SESSION_KEEPALIVE_FIX.md.
Due(a) ==
    /\ book.stored[a] # 0 /\ a \in ToSet(book.list)
    /\ obj[book.stored[a]].age = "due" /\ Recoverable(book.stored[a])
TakenUp(a) == \E p \in Procs : proc[p].who = a /\ proc[p].pc \in {"lock"} \cup Renewals
KeptAlive == \A a \in Accounts : Due(a) ~> (~Due(a) \/ TakenUp(a))

\* What the pages of an account show is of that account: the e-mail is part
\* of every key of the cache so that accounts have caches of their own
\* (get_billing_info).
CachesAreSeparate == \A e \in Pages, a \in Accounts : cache[e][a] \subseteq {a}
=============================================================================
