---------------------------- MODULE AccountPreload ----------------------------
(***************************************************************************)
(* src/src/services/account_preload.py: after a login the data of every    *)
(* account is fetched in the background, the current account first, into   *)
(* a cache of limited size.  The handlers of src/src/api/account_api.py    *)
(* that drive it are its environment.                                      *)
(*                                                                         *)
(* The critical sections of the queue and of the cache contain no          *)
(* suspension, so each is one step.  One worker runs the tasks; it         *)
(* suspends in every fetch.  Enqueuing all accounts suspends while it      *)
(* reads their list.                                                       *)
(***************************************************************************)
EXTENDS Naturals, SequencesExt

CONSTANTS
    Accounts,       \* e-mail addresses
    Kinds,          \* the sequence of kinds of data (PreloadDataType)
    Strict,         \* the kinds whose fetch brings nothing without a session
    NoAccount,      \* no account is current
    NoCall,         \* no enqueue_all_accounts is under way
    MaxQueueSize,   \* max_queue_size
    MaxAccounts,    \* max_cached_accounts
    MaxTasks,       \* bound: tasks that are created
    MaxPriority     \* bound: how far a task steps back

ASSUME PreloadAssumption ==
    /\ IsFiniteSet(Accounts) /\ {NoAccount, NoCall} \cap Accounts = {} /\ NoAccount # NoCall
    /\ Kinds \in Seq(ToSet(Kinds)) /\ "none" \notin ToSet(Kinds)
    /\ Strict \subseteq ToSet(Kinds) /\ Len(Kinds) = Cardinality(ToSet(Kinds))
    /\ MaxQueueSize \in Nat \ {0} /\ MaxAccounts \in Nat \ {0}
    /\ MaxTasks \in Nat /\ MaxPriority \in Nat

VARIABLES
    listed,         \* the accounts with a session, in the order of the list
    leaving,        \* accounts whose logout has cleared the cache
    current,        \* _current_account
    calls,          \* enqueue_all_accounts under way: its current account;
                    \* bound: one of a handler and the scheduler's
    started,        \* _started
    queue,          \* _queue
    born,           \* number of tasks created, the clock of created_at
    task,           \* the task that runs, with the kinds still to do
    fetching,       \* the kind being fetched, and whether a session was found
    cache,          \* _cache: what is held for each account and kind
    access          \* _account_access, the least recent first

taskVars == <<queue, born>>
workVars == <<task, fetching>>
cacheVars == <<cache, access>>
vars == <<listed, leaving, current, calls, started, taskVars, workVars, cacheVars>>

Callers == {"handler", "scheduler"}
Types == ToSet(Kinds)
NoTask == [account |-> NoAccount, todo |-> <<>>]
NoFetch == [type |-> "none", live |-> FALSE]

\* An entry: none, data, the empty result of a fetch that failed, or either
\* of them when its time to live has passed.
Entry == {"none", "data", "blank", "stale"}
Fresh == {"data", "blank"}
Empty == [t \in Types |-> "none"]

Init ==
    /\ listed = <<>> /\ leaving = {}
    /\ current = NoAccount
    /\ calls = [w \in Callers |-> NoCall]
    /\ started = FALSE
    /\ queue = <<>> /\ born = 0
    /\ task = NoTask /\ fetching = NoFetch
    /\ cache = [a \in Accounts |-> Empty]
    /\ access = <<>>

-----------------------------------------------------------------------------
(* The queue *)

\* PreloadTask.__lt__
Before(s, t) == s.priority < t.priority \/ (s.priority = t.priority /\ s.born < t.born)

\* list.sort, which is stable: a task goes where as many precede it.
Sorted(q) ==
    LET precedes(i, j) == Before(q[i], q[j]) \/ (~ Before(q[j], q[i]) /\ i < j)
        place(j) == Cardinality({i \in DOMAIN q : precedes(i, j)}) + 1
    IN  [p \in DOMAIN q |-> q[CHOOSE j \in DOMAIN q : place(j) = p]]

Least(positions) == IF positions = {} THEN 0 ELSE Min(positions)
Find(q, a) == Least({i \in DOMAIN q : q[i].account = a})
New(a, p, n) == [account |-> a, priority |-> p, born |-> n]

\* Variant of Enqueue: a full queue gives up its first task.
EnqueueDropsFirst(s, a, p) ==
    LET i == Find(s.queue, a)
    IN  IF i # 0
        THEN IF p < s.queue[i].priority
             THEN [s EXCEPT !.queue = Sorted([s.queue EXCEPT ![i].priority = p])]
             ELSE s
        ELSE LET room == IF Len(s.queue) >= MaxQueueSize THEN Tail(Sorted(s.queue)) ELSE s.queue
             IN  [queue |-> Sorted(Append(room, New(a, p, s.born + 1))), born |-> s.born + 1]

\* enqueue_account, on the queue and the clock s: a task that is queued can
\* only gain priority; a full queue gives up its last task.
Enqueue(s, a, p) ==
    LET i == Find(s.queue, a)
    IN  IF i # 0
        THEN IF p < s.queue[i].priority
             THEN [s EXCEPT !.queue = Sorted([s.queue EXCEPT ![i].priority = p])]
             ELSE s
        ELSE LET room == IF Len(s.queue) >= MaxQueueSize THEN Front(Sorted(s.queue)) ELSE s.queue
             IN  [queue |-> Sorted(Append(room, New(a, p, s.born + 1))), born |-> s.born + 1]

\* enqueue_all_accounts: c first, the others in the order of their list.
EnqueueAll(c, accounts) ==
    LET s == [queue |-> queue, born |-> born]
        first == IF c = NoAccount THEN s ELSE Enqueue(s, c, 0)
        upTo[i \in 0..Len(accounts)] ==
            IF i = 0 THEN first
            ELSE IF accounts[i] = c THEN upTo[i - 1] ELSE Enqueue(upTo[i - 1], accounts[i], i)
    IN  upTo[Len(accounts)]

Put(s) == queue' = s.queue /\ born' = s.born

\* Tasks that the calls under way may still create.
Room(n) == born + n + Cardinality({w \in Callers : calls[w] # NoCall}) * Cardinality(Accounts)
              <= MaxTasks

-----------------------------------------------------------------------------
(* Handlers *)

\* The first half of enqueue_all_accounts, up to the reading of the list.
Begin(w, c) ==
    /\ calls[w] = NoCall
    /\ Room(Cardinality(Accounts))
    /\ calls' = [calls EXCEPT ![w] = c]
    /\ current' = c

\* login: the session is saved, the queue started, everything enqueued.
LogIn(a) ==
    /\ listed' = IF \E i \in DOMAIN listed : listed[i] = a THEN listed ELSE Append(listed, a)
    /\ started' = TRUE
    /\ Begin("handler", a)
    /\ UNCHANGED <<leaving, taskVars, workVars, cacheVars>>

\* POST /preload/trigger for all accounts; c is the account selected.
TriggerAll(c) ==
    /\ c \in {NoAccount} \cup ToSet(listed)
    /\ started' = TRUE
    /\ Begin("handler", c)
    /\ UNCHANGED <<listed, leaving, taskVars, workVars, cacheVars>>

\* POST /preload/trigger for one account.
Trigger(a) ==
    /\ Room(1)
    /\ started' = TRUE
    /\ Put(Enqueue([queue |-> queue, born |-> born], a, 0))
    /\ UNCHANGED <<listed, leaving, current, calls, workVars, cacheVars>>

\* _refresh_scheduler, when the interval has passed.
Refresh ==
    /\ started
    /\ Begin("scheduler", current)
    /\ UNCHANGED <<listed, leaving, started, taskVars, workVars, cacheVars>>

\* The list of accounts has been read: the second half.
EnqueueListed(w) ==
    /\ calls[w] # NoCall
    /\ Put(EnqueueAll(calls[w], listed))
    /\ calls' = [calls EXCEPT ![w] = NoCall]
    /\ UNCHANGED <<listed, leaving, current, started, workVars, cacheVars>>

\* reprioritize: the others step back, or a new task goes to the front,
\* whatever the size of the queue.
Reprioritize(a) ==
    LET i == Find(queue, a)
        back == [j \in DOMAIN queue |->
                    [queue[j] EXCEPT !.priority = IF j = i THEN 0 ELSE @ + 1]]
    IN  IF i # 0
        THEN /\ \A j \in DOMAIN queue : queue[j].priority < MaxPriority
             /\ queue' = Sorted(back)
             /\ UNCHANGED born
        ELSE /\ Room(1)
             /\ queue' = <<New(a, 0, born + 1)>> \o queue
             /\ born' = born + 1

\* switch: the account becomes the current one.  Its session was found before
\* the selection was stored, and may be gone since.
Switch(a) ==
    /\ started
    /\ current' = a
    /\ Reprioritize(a)
    /\ UNCHANGED <<listed, leaving, calls, started, workVars, cacheVars>>

\* The elements of a list that are in a set, in order.
Sublist(list, set) ==
    LET sub[i \in 0..Len(list)] ==
          IF i = 0 THEN <<>>
          ELSE IF list[i] \in set THEN Append(sub[i - 1], list[i]) ELSE sub[i - 1]
    IN  sub[Len(list)]

Without(list, a) == Sublist(list, Accounts \ {a})

\* Variant of Forget: the order of access keeps the account.
ForgetKeepsAccess(a) ==
    /\ cache' = [cache EXCEPT ![a] = Empty]
    /\ UNCHANGED access

\* clear_account
Forget(a) ==
    /\ cache' = [cache EXCEPT ![a] = Empty]
    /\ access' = Without(access, a)

\* logout: cache and queue are cleared, and then the session.
LogOut(a) ==
    /\ a \notin leaving
    /\ leaving' = leaving \cup {a}
    /\ Forget(a)
    /\ queue' = Sublist(queue, {t \in ToSet(queue) : t.account # a})
    /\ UNCHANGED <<listed, current, calls, started, born, workVars>>

ClearSession(a) ==
    /\ a \in leaving
    /\ leaving' = leaving \ {a}
    /\ listed' = Without(listed, a)
    /\ UNCHANGED <<current, calls, started, taskVars, workVars, cacheVars>>

-----------------------------------------------------------------------------
(* The cache *)

Cached(c) == {a \in Accounts : c[a] # Empty}

\* _update_account_access
Touched(s, a) == Append(Without(s, a), a)

\* _evict_if_needed: the least recent accounts go until there is room.  If
\* there were no such k the loop of the code would not end.
Evicts(a, k) ==
    LET left(n) == Cached(cache) \ {access[i] : i \in 1..n}
        enough(n) == a \in Cached(cache) \/ Cardinality(left(n)) < MaxAccounts
    IN  /\ enough(k)
        /\ \A n \in 0..(k - 1) : ~ enough(n)

\* set_account_data
Store(a, t, entry) ==
    \E k \in 0..Len(access) :
        /\ Evicts(a, k)
        /\ cache' = [b \in Accounts |->
                       IF b = a THEN [cache[a] EXCEPT ![t] = entry]
                       ELSE IF \E i \in 1..k : access[i] = b THEN Empty ELSE cache[b]]
        /\ access' = Touched(SubSeq(access, k + 1, Len(access)), a)

\* The time to live of an entry passes.
Expire(a, t) ==
    /\ cache[a][t] \in Fresh
    /\ cache' = [cache EXCEPT ![a][t] = "stale"]
    /\ UNCHANGED <<listed, leaving, current, calls, started, taskVars, workVars, access>>

\* get_account_data: a stale entry is dropped, and an account with its last.
Read(a, t) ==
    /\ cache[a][t] # "none"
    /\ IF cache[a][t] \in Fresh
       THEN UNCHANGED cache /\ access' = Touched(access, a)
       ELSE /\ cache' = [cache EXCEPT ![a][t] = "none"]
            /\ access' = IF cache'[a] = Empty THEN Without(access, a) ELSE access
    /\ UNCHANGED <<listed, leaving, current, calls, started, taskVars, workVars>>

-----------------------------------------------------------------------------
(* The worker *)

\* The loop over the kinds of a task, up to the next fetch or the end; what is
\* fresh is not fetched again.  The session is looked up as the fetch begins.
GoOn(a, todo, c) ==
    LET i == Least({j \in DOMAIN todo : c[a][todo[j]] \notin Fresh})
    IN  IF i = 0
        THEN task' = NoTask /\ fetching' = NoFetch
        ELSE /\ task' = [account |-> a, todo |-> SubSeq(todo, i + 1, Len(todo))]
             /\ fetching' = [type |-> todo[i], live |-> a \in ToSet(listed)]

\* _get_next_task and the start of _execute_task.
Take ==
    /\ started
    /\ task = NoTask /\ queue # <<>>
    /\ queue' = Tail(queue)
    /\ GoOn(Head(queue).account, Kinds, cache)
    /\ UNCHANGED <<listed, leaving, current, calls, started, born, cacheVars>>

\* Variant of Fetched: a fetch without a session brings data too.
FetchedAnyway ==
    /\ fetching # NoFetch
    /\ Store(task.account, fetching.type, "data")
    /\ GoOn(task.account, task.todo, cache')
    /\ UNCHANGED <<listed, leaving, current, calls, started, taskVars>>

\* The fetch brings data.
Fetched ==
    /\ fetching.live
    /\ Store(task.account, fetching.type, "data")
    /\ GoOn(task.account, task.todo, cache')
    /\ UNCHANGED <<listed, leaving, current, calls, started, taskVars>>

\* The fetch fails: an error, or no session.  What it then returns has no data
\* and is stored like any other; a strict kind brings nothing without a
\* session, and may bring nothing with one.
FetchFails ==
    /\ fetching # NoFetch
    /\ \/ fetching.type \in Strict /\ UNCHANGED cacheVars
       \/ /\ fetching.type \in Strict => fetching.live
          /\ Store(task.account, fetching.type, "blank")
    /\ GoOn(task.account, task.todo, cache')
    /\ UNCHANGED <<listed, leaving, current, calls, started, taskVars>>

Next ==
    \/ \E a \in Accounts : LogIn(a) \/ Trigger(a) \/ Switch(a) \/ LogOut(a) \/ ClearSession(a)
    \/ \E c \in Accounts \cup {NoAccount} : TriggerAll(c)
    \/ Refresh
    \/ \E w \in Callers : EnqueueListed(w)
    \/ \E a \in Accounts, t \in Types : Expire(a, t) \/ Read(a, t)
    \/ Take \/ Fetched \/ FetchFails

Spec == Init /\ [][Next]_vars

-----------------------------------------------------------------------------
TypeOK ==
    /\ ToSet(listed) \subseteq Accounts
    /\ leaving \subseteq Accounts
    /\ current \in Accounts \cup {NoAccount}
    /\ calls \in [Callers -> Accounts \cup {NoAccount, NoCall}]
    /\ started \in BOOLEAN
    /\ \A i \in DOMAIN queue :
          queue[i] \in [account : Accounts, priority : Nat, born : 1..born]
    /\ born \in 0..MaxTasks
    /\ task.account \in Accounts \cup {NoAccount} /\ ToSet(task.todo) \subseteq Types
    /\ fetching \in [type : Types \cup {"none"}, live : BOOLEAN]
    /\ fetching = NoFetch <=> task = NoTask
    /\ cache \in [Accounts -> [Types -> Entry]]
    /\ ToSet(access) \subseteq Accounts

\* The cache stays within its limit, and the order of access names exactly
\* the accounts that are cached, once each: otherwise an eviction would
\* remove nothing and its loop would stop the whole process.
CacheTracked ==
    /\ Cardinality(Cached(cache)) <= MaxAccounts
    /\ ToSet(access) = Cached(cache)
    /\ Len(access) = Cardinality(ToSet(access))

Queued(a) == Find(queue, a) # 0
Stays(b) == Queued(b) /\ Queued(b)' /\ queue'[Find(queue', b)].born = queue[Find(queue, b)].born

\* A task that is waiting is not lost: it is run, cancelled by the logout of
\* its account, or given up by a full queue, and then no task that stays is of
\* lower priority.  Enqueuing all accounts may give up several, and raise
\* others: a task that stays is compared as it stays.
TasksKept ==
    [][\A a \in Accounts : Queued(a) /\ ~ Queued(a)' =>
          \/ Take
          \/ LogOut(a)
          \/ /\ Len(queue') >= MaxQueueSize
             /\ \A b \in Accounts \ {a} : Stays(b) =>
                   ~ Before(queue[Find(queue, a)], queue'[Find(queue', b)])]_vars

\* Strict data of an account that is logged out does not come back, unless
\* its fetch found the session before the logout.
StaysLoggedOut ==
    [][\A a \in Accounts, t \in Strict :
          /\ a \notin ToSet(listed) /\ cache[a][t] = "none"
          /\ ~ (task.account = a /\ fetching.type = t /\ fetching.live)
          => cache[a][t]' = "none"]_vars

\* _default_fetch_func: what a failed fetch returns is no data, so the cache
\* holds nothing for it and a reader asks the dashboard itself.
FailureIsNotCached == \A a \in Accounts, t \in Types : cache[a][t] # "blank"
=============================================================================
