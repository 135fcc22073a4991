# Verification of AMB2API in TLA+

AMB2API is an asyncio, single-process FastAPI proxy: clients speak the OpenAI
or the Anthropic protocol, the proxy forwards each call to the AssemblyAI LLM
gateway with one of several upstream keys, counts the calls against daily
quotas, issues tokens of its own to downstream users, and keeps the sessions of
upstream accounts alive. All concurrency is cooperative: code between two
`await`s is atomic, and everything shared (counters, tables, caches, global
singletons) can change at each `await`. That is the grain of every module here:
one action is what the event loop runs between two suspensions.

Paths below are relative to the repository root (`src/...` is the package,
`config.py`, `web.py` and `log.py` sit beside it).

## Inventory

| Component | State it keeps | Operations | Talks to | What is hard, and what makes it correct |
|---|---|---|---|---|
| Daily quota (`src/stats/unified_stats.py`) | `_stats` (counters, limits, reset time per masked key), `_pending` (deadlines per key and model), `_dirty` | reserve, release, record, limits, reset, delete, view, save, load | request loop, admin API, storage adapter | Check and count are far apart: a reservation bridges them. Slots must be paired with attempts on every path, limits hold under interleaving, resets and deletions in the middle of a call |
| Request loop (`src/services/assembly_client.py`) | local: attempt, key, excluded keys; global: `_failed_keys`, round robin counter | select, send, classify the answer, retry, ban, record, release | quota, selectors, rate limiter, key manager, HTTP client | Many exits (early return, `continue`, exception, cancellation), all through one `finally` |
| Debounced saver (`src/core/debounced_saver.py`) | `_dirty`, `_save_task` | mark, delayed save, flush | rate limiter, token manager | Changes made during a save; a failed save; a flush at shutdown that meets a save in flight |
| User tokens (`src/services/token_manager.py`) | `_tokens`, `_lock` | create, update, delete, validate, consume, load, save | debounced saver, storage adapter, routers | Quotas under concurrency, edits in the middle of a save, the singleton published before it is loaded |
| Upstream keys (`src/services/key_manager.py`) | keys, enabled indices, notes, disable reasons | add, delete, enable, ban, import, save in five writes | request loop (bans by index), admin API | Everything is addressed by position, and positions move on deletion |
| Key selection (`key_selector.py`, `rate_limiter.py`, `_next_key_index_async`) | rate limits and failures per index, rotation counter | next key, affinity rank, mark failed, reset | request loop | Stale indices, a limit without a reset time, all keys failed at once |
| Storage cache (`src/storage/cache_manager.py`) | cache, dirty flag, lock, write-back task | get, set, delete, load, write back, stop | every component, through the storage adapter | Write-back against shutdown, failing loads and writes |
| Storage adapter and backends (`src/storage/*`) | one backend, credentials, states | delegate to file, Redis, MongoDB or PostgreSQL | cache, external stores | The global is published before it is initialised; external stores |
| Configuration (`config.py`) | snapshot cache | read with a time to live, invalidate on write | everything | A stale value read before an invalidation and stored after it |
| HTTP clients (`src/core/httpx_client.py`) | shared client, proxy | get, swap on a new proxy, close later | request loop | Replacing a client that is in use |
| Account sessions (`src/api/account_api.py`) | session per account, accounts list, renewal locks and back-off | login, logout, renew, keep alive, switch | external dashboard, storage | Session read before an `await` and written after it, logout during a renewal |
| Account preload (`src/services/account_preload.py`) | LRU cache, priority queue, task table | enqueue, cancel, reprioritise, run, refresh | account sessions | Queue bound, eviction, retries |
| Protocol routers and stream handler (`src/api/openai_router.py`, `src/services/assembly_stream_handler.py`) | per request | authenticate, quota, bootstrap retries, stream conversion | token manager, request loop | Retry of a stream before its first byte, end of trace |
| Transforms (`src/transform/*`) | none | OpenAI, Anthropic and upstream formats into one another | routers | Pure functions on nested data |
| Performance tracker (`src/stats/performance_tracker.py`) | shards, meta record | start and end traces, rotate shards | storage adapter | Shard and meta written in two steps |
| Task manager and lifespan (`src/core/task_manager.py`, `web.py`) | set of tasks | register, cancel, shut down in order | all background tasks | Order of the shutdown steps |
| Usage pages (`src/api/admin_routes.py`) | none | merge counters and traces, filter, page, reset | quota, performance tracker | The same request known from two places; filters that rebuild each other's sums |
| Panels, payments and remaining routes (`src/api/*`, `front/`, `tools/`) | none of their own | CRUD forwarded to the managers, pages | managers | Input checks, presentation |

## What makes each component correct

- **Quota.** No reservation leaks; every call in flight keeps its slot while it
  lives; what is counted or in flight grows only within the limit, or past it by
  the reservations that ran out; every request is answered.
- **Saver.** A change is stored, or marked, or on its way; the storage never
  goes back to older data; flush leaves nothing unsaved.
- **Storage cache.** It behaves as one atomic store that loses at most the last
  writes in a crash; what is not dirty is in the backend; the lock is given back.
- **Keys.** Every key is enabled or disabled; status and reason follow the key
  when positions move; a ban hits the key that failed.
- **Key selection.** A fit key is preferred to a tired one in every mode; nobody
  is refused while a key could serve him.
- **User tokens and request handlers.** A quota holds whatever the interleaving;
  a request pays once, when it is let through; white lists hold for fallbacks
  too; a deleted token lets nobody through, unless the table is loaded again.
- **Streamed answers.** Retries before the first byte have one budget and send
  nothing twice; keepalives lose nothing; events nest; every stream ends.
- **Account sessions.** The stored records agree, unless two updates meet; one
  renewal at a time; no account's session is cleared for the refusal of another;
  a session that can be renewed is.
- **Preload.** The queue keeps its tasks, bounded eviction ends, a logout holds,
  a failure is not data.
- **Traces and usage pages.** No outcome of a request is counted twice, however it
  is known; statistics miss no trace they can read; pages and filters add up; a
  trace is dropped only for want of room.

## Modules

| Module | Models | Uses |
|---|---|---|
| `QuotaLedger` | What the quota promises: an account per key with the calls of the day and the calls in flight | |
| `QuotaReservation` | `unified_stats.py` and the attempt loop of `send_assembly_request` | implements `QuotaLedger` |
| `KeySelection` | `key_selector.py`, `rate_limiter.py` and the selection in `assembly_client.py` | |
| `KeyTable` | `key_manager.py`, the configuration page, the requests that choose and ban | |
| `Gateway` | `token_manager.py`, `token_management_api.py`, and the requests of `openai_router.py` up to their answer | |
| `StreamRelay` | A streamed request: `openai_router.py`, `assembly_stream_handler.py`, `openai_to_claude.py` | |
| `UsageTraces` | `performance_tracker.py` and the usage pages of `admin_routes.py` | |
| `AccountSession` | `account_api.py` | |
| `AccountPreload` | `account_preload.py` and the handlers of `account_api.py` that drive it | |
| `DebouncedSaver` | `debounced_saver.py`, with the coroutines that use it | |
| `LossyStore` | What the storage layer promises: operations in one order, a crash loses the last writes | |
| `StorageCache` | `config.py`'s snapshot over `cache_manager.py` over one backend | implements `LossyStore` |
| `QuotaReservationProofs`, `StreamRelayProofs`, `UsageTracesProofs`, `AccountSessionProofs`, `AccountPreloadProofs`, `StorageCacheProofs` | Theorems about the module of the name | that module |
| `GatewayProofs` | Theorems about `Gateway` and about `DebouncedSaver`, whose `SaverInit` to `SaverSpec` carry the prefix so that one module can extend both | both |
| `KeyProofs` | Theorems about `KeySelection` and about `KeyTable`, whose `TableInit` to `TableSpec` carry the prefix for the same reason | both |
| `MCQuotaReservation`, `MCKeySelection`, `MCGateway`, `MCUsageTraces`, `MCAccountPreload` | Instances for TLC: symmetry, and constants that are no literals | |

The modules meet where the code hands over: `Gateway` lets a request in and
knows its call to the upstream as one step; `StreamRelay` and `QuotaReservation`
open that step; in `QuotaReservation` any candidate key may come next, which
`KeySelection` makes precise; what a ban by position does to a table that
changes is `KeyTable`. `Gateway`, `KeySelection` and the statistics save through
`DebouncedSaver`, and all of them through `StorageCache`. Each module assumes of
the next only what that module shows or leaves open.

### QuotaReservation

`stats[k]` is the entry of a key in `_stats` (successes, successes per model,
limits, time of the next reset), `known` the keys that have one, `pending[k]` the
set of its reservations with their deadlines. A reservation carries the request
and the attempt that made it; the code keeps deadlines only, and no guard reads
the extra fields: they are there so that equal deadlines stay distinct and for
the proofs. `pc`, `key`, `model`, `attempt` and `excluded` are the
local variables of a request in `send_assembly_request`.

`Start` begins a request; `Reserve`, `Blocked` and `GiveUp` are one turn of the
selection loop each, with the check and the reservation in one step, as the lock
makes them; `Succeed`, `Fail`, `BackOff` and `Raise` are the ways an attempt
comes back, `Retry` the end of the pause before the next attempt, and
`Disconnect` the cancellation. Each of them gives the slot back through
`EndAttempt`, the `finally` block. `SetLimits`, `DeleteStats`, `ResetStats` and
`ViewStats` are the administrator's operations (a view creates and resets
entries too). `Tick` is the clock; it does not pass the moment at which an
attempt must have ended (`MaxHold`). `expired` is history, the reservations of
each key that ran out while they were in the table: `Live(k)` are the others. A key stands for its masked form, under which the
counters are filed: two keys that mask alike share an account in the code, and
are one key here.

`QuotaLedger` has the counter, the calls in flight and the limit of each account,
and an `overdraft`: a call that outlives its reservation is lost from sight
(`Lapse`), and the account may take one more for it. `overdraft` is the number of
reservations that ran out.

### KeySelection

A key is its position. `selector` holds the counter, the counts of calls and the
failures of `KeySelector`; `failed` and `counter` are the client's own
`_failed_keys` and `_rr_counter`; `limits` is what the headers of each key said
last. Times are ages and delays in units of a tick, so that the state is finite:
an age past the timeout and a reset reached are as good as any other.

`Select` is `_select_key_with_daily_quota` in one step: its awaits are on locks
that are free and on managers that are loaded, and suspend only when a save is
under way at that moment, which is left out here (the interleaving of selections
with one another and with the statistics is in `QuotaReservation`). It tries the keys that prompt caching ranks
(`Ranked`), then up to `N` turns of `_next_key_index_async` (`Tries`), each of
which takes over the client's failures (`Synced`), picks by mode (`Picked`),
rotates (`ShouldRotate`) or falls back on a last resort (`LastResort`). `full` are the keys
for which the statistics refuse a reservation, any set of them. `Answer` reads
the status and the headers, marks and bans. `Tick` and `SetEnabled` are time and
administrator. `quiet` is history: how long ago each key last failed.

### Gateway

`meta` holds one record for each token, shared by every table that names it, as
the Python objects are. `table` is the manager's `_tokens`, `cache` what the
storage has under `user_tokens`, `alias` whether the two are one object: the
storage keeps the very dictionary it is given. `writing` and `old` are a save
under way and the table it took. `Load` builds a new table from the cache. Whoever
finds the manager without a table loads it, so several may, one after the other; a
second load marks the requests that wait as `"reloaded"`.
`Identify`, `Identified`, `Body`, `Fallbacks`, `Quota`, `Local`, `Dispatch` and
`Finish` are the way of a request between two suspensions; `Create`, `Update`,
`Delete`, `AdminLoads`, `AdminLoaded` and `Saved` the administrator's; `SaveBegins`
is the debounced save and `Expire` the clock. A save that fails raises to the caller
after the table has changed. `charges`, `spent`, `ceiling` and `past` are history.

### StreamRelay

One request, real stream or faked, for either protocol. `Answer` is the loop of
the handler that repeats a call on its status; `Receive`, `Beat`, `Convert`,
`Fail`, `AnswerAgain`, `RaiseAgain`, `End` and `Closed` are the generator with its
own retries; `FakeBegin`, `FakeBeat` and `FakeAnswer` the faked stream;
`Disconnect` comes at any moment. `attempts` are the two kinds of retries, those
made before the generator (`initial`) and its own; `counted` is what the trace says
of them, set before the call of a retry (`Fail`) and set again at the end from the
number of attempts, which does not count a call that raised (`RaiseAgain`). `wire` is the line that the pending read has
brought and that is not converted yet; a keepalive may fall before it. A line is a text, a head
or arguments of a tool call, a finish, a usage or junk, in any order; `sent` keeps
for each event the call and the line it came from, so that a repetition, a loss or
a mixture shows.

### UsageTraces

A request may call the upstream several times: `Raise` is a call that raises and is
tried again, `Call` the last one, which succeeds, fails or is refused, and, when its
answer is a stream, may be followed by others before the first byte. `counted` is
the set of the calls in the counters, each with its key, model and outcome as
`record_call` gets them. A trace is its request; `call` is what it says, which is
the key of the last call and, for any stream, a success (`assembly_stream_handler.py:394`
and `1006`), whatever the call came to. `End` ends it, `Leave` is a request whose
trace is never ended.
`SaveShard` and `SaveMeta` are the two writes of a trace under `_save_lock`;
`Reset`, `Clear`, `ClearShard` and `ClearMeta` the clears, a shard at a time;
`ReadBegins`, `ReadShard`, `ReadFails`, `ReadEnds` a computation of the statistics
beside them, which passes over a shard it cannot read. `NewDay`
moves the windows of the usage; `Crash` loses memory and any of the counters not
saved yet. `Page` merges counters and traces as `_merge_trace_usage_summary`
does; `Aggregated` is the filters of `usage_aggregated` one after another,
`Summary` those of `usage_summary`; `Listed` and `PageOf` the detail table.

### AccountSession

The storage hands out the stored object itself, so records have identities:
`obj` maps them to their fields, `book` is what is stored (sessions, list,
current account), and a handler holds references. `Acquire`, `CookieRolls`,
`CookieFails`, `LogsIn`, `PasswordRefused` and `PasswordErrs` are `_renew_session`
with its lock, `Renewed` and `Noted` what follows when the record is stored; `Open`, `Fetch`, `Answered`, `AnswerFails`, `Refused`,
`RefusedAgain` and `Finish` a page with its fetches; `Login`, `Logout`, `Lapses`,
`Refresh`, `Switch` and `Lists` the other handlers; `Wake` and `Keep` the keep-alive loop;
`Tick` makes sessions due and ends a backoff. A session is described by what
decides: whether it has a cookie and a password, whether it was just renewed, is
fresh or due, how many passwords failed, and the mark `_jwt_stale`.

Saving or clearing a session is up to seven calls of the storage: the session, the
list read and perhaps pruned, the list written, read once more, the current account.
`Saved` and `Cleared` make the first and leave an `Update` for the others: `ReadsList`,
`Prunes`, `Enters`, `Leaves`, `Elects`, `Looks` and `PassesOn`, one call each, with the
list as it was read in `seen`. A call suspends only while the cache of the storage is
loaded or written back, from `StorageBusy` to `StorageIdle`; until then an update is
done in one go (`Settled`), in between those of all handlers mix in any order,
although the lock of the storage serves them in turn. `crossed` is history: the
accounts whose last update met another one. Bounds: a busy storage counts for
`BusyCost` of the events, one handler at a time that is no page updates an account,
and the list and the sessions it is compared with are read at one moment. The
`except` branches of lines 388 and 407 are left out: what fails in the storage is
caught and answered by its cache (`cache_manager.py:135`, `249`, `291`), and reaches
these functions only as a value.

`Open` is a page that is not served from its cache. The concurrent fetches of the overview are made one
after another. Left out: sessions of the older kinds, the entry that the fallback
of the costs caches for itself, and the stop of the loop.

### DebouncedSaver

The data is a version number. `Change` changes it and marks it (one step, the
code has no suspension between them); `Wake`, `Store`, `Resume` and `SaveFails`
are the steps of a coroutine in `_flush`, the task's or the shutdown's; `Flush`
is the beginning of `flush()` with the cancellation it sends, `Cancel` its
delivery. A save in `_do_save` may be cancelled before or after the storage has
taken the data.

### StorageCache

`log` records the writes in the order they take effect; a value is its position
in the log, so that any mixture of old and new shows. `Hit` answers from the
snapshot; `Call` queues for the lock; `Acquire` enters and, when nothing must be
loaded, finishes; `LoadSucceeds` and `LoadFails` finish after a load. The two
writers are the write loop and `stop()`: `LoopWrites` copies the cache and takes
the lock, `Truncate`, `WriteSucceeds` and `WriteFails` are what the backend does
with the copy, `Stop`, `LoopEnds`, `LoopCancelled` and `Flush` the shutdown.
`CacheExpires` and `SnapshotExpires` let a time to live pass at any moment, which
covers every length of it. `Crash` loses memory; a file that was truncated and
not rewritten is lost with all its contents.

`LossyStore` has one variable of its own, the log, which `StorageCache` shares
with it, and the last value each client read; the refinement is the identity on
those two.

### KeyTable

`keys`, `active`, `disabled` and `states` are the fields of the configuration,
by position. `AddKeys`, `Override`, `SetStatus`, `Delete`, `ImportBegins`,
`ImportEnds` and `ConfigSave` are the administrator's operations. An import is
two steps because it saves in the middle. `Start`, `Choose`, `Finish`, `Retry`
and `Ban` are a request: it reads the list once, chooses a position of that list
by the current table's status, and bans by that position.

### AccountPreload

`queue` is `_queue`, `task` and `fetching` the worker inside `_execute_task`,
`cache` and `access` the two dictionaries of `AccountDataCache`. `listed` stands
for the session and the entry in the list of accounts. `Begin` and
`EnqueueListed` are the two halves of `enqueue_all_accounts`, around the reading
of the list; `LogIn`, `TriggerAll` and `Refresh` start it. `Enqueue` and
`Reprioritize` are the operations on the queue, `LogOut` and `ClearSession` the
two steps of a logout, `Store`, `Read`, `Expire` and `Forget` the cache. A kind of
data is strict when its fetch brings nothing without a session (overview); the others
return a result without data then (usage, cost, rates). With a session, a fetch that
fails may be stored as one without data for any kind: the overview has a name and an
e-mail even when its balance could not be read.

## Runs

| Run | Instance | Question and answer |
|---|---|---|
| `quota` | 2 keys, 2 models, 2 requests, 1 retry, reservations outlive attempts, a day of 2 ticks | Whatever the interleaving of selections, retries, cancellations, resets, deletions and new limits: no slot leaks, every attempt keeps its slot, limits hold in total and per model, the table implements the ledger, every request is answered. Expiry is in `MCQuotaExpiry.cfg`. |
| `saver` | 4 changes, 2 failing saves | Nothing is forgotten outside of a flush that meets a save, the storage moves forward, and every change gets stored. |
| `storage` | 2 names, 2 clients, 2 writes, one failing write-back, one crash, truncating backend | The layers together are one lossy store; what is clean is saved; `stop` saves. |
| `storage_live` | 1 name, 2 clients, failing loads and writes | Every operation returns and dirty data gets written. |
| `keys` | 2 keys, lists of up to 2, 1 request, all operations | Enabled and disabled stay a partition but for foreign positions of an import or a ban, and status and reason follow the key. |
| `selection` | 2 keys, each of the three modes, rotation after 2 calls, a timeout of 1 tick, three kinds of headers | While a key is fit no tired one is used; nobody is refused while a key could serve. |
| `gateway` | 2 requests, 1 token, 2 models, quotas 1 and 2, 3 edits, first loads by any of the callers, also twice | Quota, single payment, white list, deletion. |
| `stream` | both protocols, 1 retry, 2 tool calls, up to 3 lines and a keepalive | One response relayed, one budget and its count, nested events, an end. |
| `traces` | 3 requests, 2 keys, 2 shards of 1 record, 2 events (failed and repeated calls, failing writes and reads, crashes, resets, clears, days, readers) | No outcome of a request is counted twice, statistics miss nothing that can be read, pages partition, filters add up, traces are dropped only when the ring is full. |
| `session` | 2 accounts, 1 client and the keep-alive loop, 2 password failures, 4 events, of which a busy storage is 2 | The records agree for accounts whose updates met no other, no mark is stored, one renewal at a time, a refusal clears a session of the account it was for, requests end, sessions are kept alive. |
| `preload` | 3 accounts, a queue of 2, a cache of 1, 4 tasks, a strict and a lenient kind | Tasks kept, eviction that ends, logouts that hold. |
| `panel` | as `session`, with the billing page | *Violated*: a page is cached for one account with the data of another. |

Every bound is a constant of its module: `MaxTime`, `MaxChanges`, `MaxFailures`,
`MaxWrites`, `MaxWriteFailures`, `MaxLoadFailures`, `MaxCrashes`, `MaxKeys`,
`MaxTasks`, `MaxPriority`, `MaxEdits`, `MaxLines`, `MaxBeats`, `MaxEvents`, `BusyCost`. Each
is large enough for its case to happen twice or in two orders: two writes tell a
lost from a reordered one, a list of two keys has a position that moves, a queue
of two with three accounts has a task to give up and one to keep, three edits
delete a token, create it and change it, three lines open, fill and end a block,
three requests go round a ring of two records, two events fail a call and lose its
trace or repeat it on another key, four events log two accounts in, select the other
and open a page, or log one in, make the storage busy and let an update of the other
meet the loop's. Two keys that fail and come back independently
show every order a selection can distinguish; rotation after two calls has a call
that rotates and one that does not. `traces` has one model, so its filter by model
matters in `MCUsageModels.cfg` (two models, two requests), which holds too.
`AccountPreload` allows one handler's and the scheduler's `enqueue_all_accounts`
at a time.

Symmetry (of requests, keys or accounts) is used in `gateway`, `traces` and
`preload`, which check safety only.

Deadlock is checked for the quota, the keys and the selection. The saver and the
storage may stop after `flush()` and `stop()`, a stream or a request after its
answer, and the preload, the sessions and the traces when their bounds are used up.

### Configurations beside the runs

The following show by a counterexample, or by its absence, where the properties
above end. Each is run as `tlc -config <file> <module>`.

| Configuration | Module | Shows |
|---|---|---|
| `MCQuotaOvershoot.cfg` | `MCQuotaReservation` | `NeverOverCounted` is violated: a call that outlives its reservation (120 s against a timeout of 300 s) is counted over the limit. `LimitsRespected` below says by how much: one call for each reservation that ran out. |
| `MCQuotaExpiry.cfg` | `MCQuotaReservation` | Holds, with reservations of 1 tick and attempts of 2: no slot leaks, attempts without one and calls past the limit are at most as many as the reservations that ran out, the table implements the ledger with its overdraft, and every request ends. |
| `MCDebouncedFlush.cfg` | `DebouncedSaver` | `FlushStoresAll` is violated: `flush()` cancels a save in flight after its flag was cleared (`debounced_saver.py:74`), and the change is lost at shutdown. |
| `MCStorageReload.cfg` | `StorageCache` | `ReadsSeeWrites` is violated: a load that fails makes the cache empty, for reads and for the next write-back (`cache_manager.py:251`). |
| `MCKeyBan.cfg` | `KeyTable` | `BanHitsCaller` is violated: a ban by position hits another key when keys were deleted meanwhile (`assembly_client.py:1898`). `BanHitsItsKey` says that a key which leaves its position is the only way. |
| `MCKeyRotation.cfg` | `MCKeySelection` | `RotatesInTime` is violated: the key rotated to is not asked whether it is due itself (`assembly_client.py`, `_next_key_index_async`), so with one call per rotation and two keys a key is used again and again. |
| `MCPreloadFailure.cfg` | `MCAccountPreload` | `FailureIsNotCached` is violated: `account_preload.py:805` says a failed fetch returns `None`; three of the four return zeros, which are cached as data, and the fourth, the overview, is cached without a balance when the session is alive. |
| `MCGatewayRace.cfg` | `MCGateway` | `GoneStaysGone`, which is `GoneIsRefused` without its exception, is violated when two first callers load the table (`token_manager.py:245` publishes the manager before it has loaded): the second load brings a deleted token back. `DeletedIsRefused` says that a second load is the only way. |
| `MCStreamStop.cfg` | `StreamRelay` | `StopExists` is violated: `openai_router.py:530` says a stream that only had `[DONE]` gets its `message_stop`; it gets none unless a message began. `BegunMessagesStop` says that then it gets one. |
| `MCUsageSummary.cfg` | `MCUsageTraces` | `SummaryAddsUp` is violated: with a model, `usage_summary` (`admin_routes.py:954-963`) gives its keys no failures while the line of the model has them; `usage_aggregated` does not. `SummaryLacksFailures` says that nothing else is wrong with it. |
| `MCUsageModels.cfg` | `MCUsageTraces` | Holds: `CountedOnce` and `FiltersAddUp` with two models. |
| `MCUsageTwice.cfg` | `MCUsageTraces` | `OutcomesCountedOnce` is violated: a call counted as a failure (`assembly_client.py:2216-2242`) behind a stream whose trace ends as a success (`assembly_stream_handler.py:394`, `1006`) is shown as one of each, since the page takes the greater of counter and traces for each outcome by itself (`admin_routes.py:139-140`). `CountedOnce` says what is left of "without double-counting". |
| `MCAccountBook.cfg` | `AccountSession` | `AlwaysAgrees` is violated: two updates meet while the storage is written back, both read the list, and the second to write drops the account of the first (`account_api.py:387`, `398`). `BookAgrees` says that accounts whose last update met no other are spared. |

### Fairness

`QuotaReservation!Fairness`: the event loop runs every ready coroutine, a call
to the upstream ends because the client has timeouts (`httpx_client.py:32`), a
pause ends. No fairness for clients and administrators: they may never come
again. `DebouncedSaver!Fairness`: the same for the coroutine that waits and for
the save, which ends well or badly. `StorageCache!Fairness`: strong fairness for
getting the lock, because `asyncio.Lock` serves its waiters in order; weak
fairness for loads, writes and the loop. `StreamRelay!Fairness`: weak fairness of
the calls and of the generator; a silent upstream ends by the read timeout, and
nothing is fair about its lines, keepalives or the client.
`AccountSession!FairSpec`: strong fairness of each handler and of the loop, for
only a lock that is held keeps it from its step, and `asyncio.Lock` is first in,
first out; the calls of the storage are among these steps (`Storing`), for a
write-back ends. Nothing is fair about expiry, failures or crashes.

## Findings

`panel`: `account_api.py:1811` computes the key of the cache of the billing page
from the session read first, and the fetches that follow (lines 1827 and 1837)
look up the current account anew when the request names none. If another account
is selected in between, the entry of the first holds the balance of the second,
although line 1809 promises caches of their own. `SteadyCachesAreSeparate` says that
this is the only way.

Met while modelling, without a run:

- A renewal reads the session, awaits the dashboard and stores it
  (`account_api.py:749` on): a logout meanwhile is undone, and so is a request in
  flight that captures a cookie. A login made meanwhile is cleared or overwritten
  by a late refusal, which names the account and not the session (lines 1124-1125),
  or by the count of failures of the older record.
- Two first logins that meet while the storage is written back leave one of the
  accounts off the list, so that the keep-alive loop never renews its session; or
  both find the list with two accounts and neither becomes the current one
  (`account_api.py:372-389`, `336-339`).
- The trace of a stream names one retry too few when the last one raised:
  `assembly_stream_handler.py:332` counts it, line 358 sets the number again from
  `attempt`, which does not.
- A stream whose upstream call was counted as a failure is shown as one success and
  one failure (`MCUsageTwice.cfg`), and a request that was retried as one failure more
  for each call that raised.
- A shard of traces that cannot be read is logged and passed over
  (`performance_tracker.py:332-333`): the statistics are short of it without saying so.
- An overview whose balance could not be fetched is a result all the same
  (`account_api.py:1605-1616`), and the preload caches it (`account_preload.py:728`).
- `/refresh` clears the session and the password of an account without a cookie
  after one transient failure, or within the backoff, though `account_api.py:57`
  speaks of three failures in a row.
- Results of a failed fetch of usage, cost and rates are cached for 300 s, and a
  login does not clear them.
- The retry in `AccountPreloadQueue._execute_task` (lines 744-760) is never
  reached, since each fetch has its own `except`; `max_concurrent` has no effect,
  since one worker awaits each task; a task that `reprioritize` puts in front goes
  behind older tasks of priority 0 at the next sort.
- `delete_key` moves neither the rate limits nor the failures of the selectors.

## Proofs

TLAPS checks the following for every value of the constants that satisfies the
named assumptions (`QuotaAssumption`, `RequestsFinite`, `SaverAssumption`,
`GatewayAssumption`, `RelayAssumption`, `TracesAssumption`, `SessionAssumption`,
`PagesAssumption`, `PreloadAssumption`, `StorageAssumption`, `SelectionAssumption`,
`KeyTableAssumption`). They say that the
sets of requests, clients and accounts are finite, that the names which stand for
nobody are no accounts, keys or clients, that the headers and the orders of keys are
what the code can read or compute, and that bounds and sizes are natural
numbers, positive where the code has a constant that is. One theorem,
`RequestsRunOut`, also takes the keys to be finitely many, as the list of a
configuration is. Liveness apart, each property of the passing runs has its theorem.

| Theorem | Says | Argument |
|---|---|---|
| `TypeCorrect` | `Spec => []TypeOK` for the quota | `TypeOK` is inductive; a lemma for each helper |
| `NoLeak` | `Spec => []NoLeakedReservation` | `SlotInv` |
| `EveryHolderCovered` | `Spec => []HoldersCovered` | `PairInv`, `Backed` |
| `LimitsRespected` | `Spec => CommitmentsWithinLimit` | `PairInv` and the check in `HasRoom` |
| `TableImplementsLedger` | `Spec => LedgerSpec` | `RefInv`: `PairInv`, and a key without an entry has the default limit |
| `RequestsRunOut` | each step of a request lowers `StepsLeft`, at most `(keys + 4) * (retries + 1)` | `Goes`, a lemma for each action |
| `NoChangeForgotten` | `SaverSpec => []ChangesTracked` | `SaverInv` |
| `FlushLeavesNothing` | `SaverSpec => []FlushStores` | `SaverInv` |
| `StorageMovesForward` | `SaverSpec => StoredForward` | `SaverInv` |
| `StorageTypeCorrect` | `Spec => []TypeOK` for the storage, whatever fails | inductive with `Control` |
| `CleanDataIsSaved` | `Spec => [](NoLoadFailed => CleanIsSaved)` | `Sound` |
| `StopLeavesNothing` | `Spec => [](NoLoadFailed => StopSaves)` | `Sound` |
| `WritesAreSeen` | `Spec => [](NoLoadFailed => ReadsSeeWrites)` | `Sound` |
| `StorageIsAtomic` | `Spec /\ []NoLoadFailed => AtomicStore` | each step a step of `LossyStore` or a stutter, on `Sound` |
| `GatewayTypeCorrect` | `Spec => []TypeOK` for the gateway | inductive, a lemma for each action |
| `QuotaNeverExceeded` | `Spec => []QuotaKept` | `QuotaInv` |
| `EachPaysOnce` | `Spec => []ChargedOnce` | inductive with `TypeOK` |
| `DeletedIsRefused` | `Spec => []GoneIsRefused` | `GoneInv`, on `Known` |
| `WhiteListHolds` | `Spec => []NoBypass` | `BypassInv`, on `Known` |
| `SelectionTypeCorrect` | `Spec => []TypeOK` for the selection | `SelectionInv` |
| `FitIsPreferred` | `Spec => FitBeforeTired` | `SelectionInv`, `Tried` over all turns |
| `RefusesLast` | `Spec => RefusesOnlyWithoutKey` | `SelectionInv`, `Tried` over all turns |
| `TableTypeCorrect` | `TableSpec => []TableTypeOK` | inductive, as `Tabled` and `Served` |
| `PositionsArePartitioned` | `TableSpec => StaysPartition` | `Tabled`, a step for each operation |
| `StatusIsKept` | `TableSpec => StatusFollowsKey` | `Tabled`, `Follow` |
| `BanHitsItsKey` | `TableSpec /\ [][KeysStay]_keys => BanHitsCaller` | `Behind` |
| `AddingKeysIsHarmless` | the same when keys are only added, enabled and disabled | `KeysStay` follows |
| `RelayTypeCorrect` | `Spec => []TypeOK` for a streamed request | `Typed` and `Budget` |
| `OneBudget` | `Spec => []BudgetShared` | `Budget` |
| `TheEventsNest` | `Spec => []EventsNest` | `Nested` |
| `OneResponse` | `Spec => []RelaysOneResponse` | `Relayed` |
| `BegunMessagesStop` | `Spec => []StopFollowsStart` | `Over`, `Nested` |
| `TracesTypeCorrect` | `Spec => []TypeOK` for the traces | `TracesInv` |
| `PageCountsOnce` | `Spec => []CountedOnce` | `TracesInv`, a cell at a time |
| `StatisticsAreComplete` | `Spec => []StatsMissNothing` | `TracesInv` |
| `TracesMakeRoom` | `Spec => DroppedOnlyWhenFull` | `TracesInv` |
| `FilteredPageAddsUp` | `Spec => []FiltersAddUp` | each filter computes the sums of the cells that pass |
| `SummaryLacksFailures` | `Spec => []SummaryAddsUpOtherwise` | the same, for the summary |
| `PagesShowEachOnce` | `Spec => []PagesPartition` | concatenation, the sort and the pages, a lemma each |
| `SessionTypeCorrect` | `Spec => []TypeOK` for the sessions | `SessionInv` |
| `TheBookAgrees` | `Spec => []BookAgrees` | `BookInv`, a lemma for each call of the storage; `Turns` for the handlers |
| `NoMarkIsStored` | `Spec => []MarkNotStored` | `SessionInv` |
| `AccountRenewsOnce` | `Spec => []RenewsOnce` | `SessionInv` |
| `TakesItsOwn` | `Spec => ClearsItsOwn` | `SessionInv`, `Turns` |
| `SteadyCachesAreSeparate` | `Spec /\ [][Steady]_vars => []CachesAreSeparate` | `AllOfOne`, a lemma for each action |
| `LocksAreGivenBack` | `Spec => []HeldByRenewers` | `LocksWell`: a step gives the lock back, takes it, or is of no renewal |
| `PagesEnd` | `Spec => PagesRunOut`: each step of a request lowers its `StepsLeft` | a lemma for each action |
| `PreloadTypeCorrect` | `Spec => []TypeOK` for the preload | `PreloadInv` |
| `CacheIsTracked` | `Spec => []CacheTracked` | `PreloadInv` |
| `LoggedOutStaysOut` | `Spec => StaysLoggedOut` | `PreloadInv` |
| `WaitingTasksAreKept` | `Spec => TasksKept` | `PreloadInv`, `Comes` |

`NoLeakedReservation` is not inductive, because a release takes the slot that
expires first and not its own: a state in which a late slot stands for an early
attempt satisfies it and a step leads out. `SlotInv` adds `SlotsCovered`: for
every instant `t`, the slots due by `t + PendingTTL` are at most the attempts
begun by `t`. Taking the earliest slot keeps that at every `t`; setting `t` to
now gives the theorem, however long attempts take.

The defaults let an attempt outlive its reservation (120 s against 300 s), so the
other quota theorems are about that case too. `PairInv` says that the attempts of a
bucket are at most as many as its live slots and those that ran out (`expired`). A
slot that runs out moves from the one set to the other (`MoveBetween`); a release
takes one slot and ends one attempt; a late release, whose own slot is gone, takes
another's, which is why the sum and not the pairing is kept. What the check of a
selection counts is then short of the calls in flight by the reservations that ran
out at most, and this is the bound of `LimitsRespected`. `MCQuotaOvershoot.cfg` shows
that it is reached.

`RequestsRunOut` is the half of `RequestsAnswered` that is not scheduling: a
selection tries each key once, an attempt is a call and a pause, and a retry is one
attempt less. `Goes` lists the ways a request can go, and each leaves it fewer steps
than it had.

`SaverInv` adds to `ChangesTracked` that the task and the shutdown are never both
in a save that counts (`Alone`), and that a save carries the newest data or the
flag is up again (`Carries`), and for `FlushStores` that a flush which is over
leaves the flag up only after a save that failed (`Refused`).

For the refinement each step is one of five kinds: it leaves the calls in flight
alone (`Administer`), reserves (`Admit`, where the check on the slots is the ledger's
check, overdraft included, because of `PairInv`), succeeds (`Commit`), ends uncounted
(`Abort`), or lets reservations run out (`Lapse`), which are no more than the calls in
flight. An operation finds the limit that the ledger has in force because a key
without an entry has the default one (`Unlisted`).

For the gateway, `QuotaInv` adds to `QuotaKept` that the present quota is at most
the highest since the last reset: the check of a request is against the present
quota, and only this makes it a check against the promise. It holds however often the
table is loaded, since all tables share the record of a token. `GoneInv` and
`BypassInv` rest on `Known`: who was identified by a token found the table loaded. A
later load, by a caller who was there before, may bring a deleted token back or drop
an edit; it marks every request that waits, and of the others `GoneInv` says that their
deleted token is in no table they will be asked against, `BypassInv` that the list the
fallbacks were checked against is the one in force. `MCGatewayRace.cfg` is the
counterexample for the marked ones.

For the storage, `Control` says where clients, loop and `stop()` can be, whatever
fails. `Sound` is the argument: a client loads only what is clean, what is being
written is the contents of the whole log, and the backend holds those of a prefix of
it. So a write-back that was overtaken, cancelled or cut off leaves the flag up, and
a load finds what the cache had. A load that fails breaks exactly this (the cache is
then empty and counts as loaded), which is why four of the theorems are about
the time before that: `MCStorageReload.cfg` is the counterexample without
`NoLoadFailed`. No other failure is excluded.

For the selection, `SelectionInv` adds to the types what the two records of failures
remember (`Remember`): the client's, exactly the failures of the last timeout; the
selector's, which takes a failure over as if it were new, ages that are behind by at
most another timeout. So a key that has been quiet for both is in neither record and
is among those every mode picks from. `Tried` says where a selection stands after `n`
turns: made, and well if some key is fit; over, with every enabled key passed; or
open, with `n` keys passed. Each turn passes a key that was not passed before, so that
after as many turns as there are keys nothing stays open but a table without quota.

For the table of keys the types are an invariant of two halves, the table (`Tabled`) and
the requests (`Served`). A key that is in the list once is at one position (`Only`), and
`Follow` says that its status and its reason are kept if those of this position are;
what is left is, for each operation, where that position goes.

A ban goes by a position of the list that a request read at its start. `Behind`
says that what it read is still where it was, which every step keeps that leaves each
key at its position; then the position of the ban is that of the key whose call
failed. `MCKeyBan.cfg` is the counterexample when keys are deleted.

For a streamed request, `Budget` ties the counts together: what the generator
has used is the calls less those counted before it began, its total is the
budget less those, and the number in the trace, once it is final, is the calls less
the first, and less the last if that one raised. `EventsNest` is not inductive, since the next event is chosen by
the state of the conversion and not by the events sent. `Nested` adds that this
state says which blocks the events have left open (`Follows`). One lemma
(`OneEvent`) takes one event there, and one for each piece of a chunk shows that
its events come at the right moment. `Relayed` says that the deltas sent are the useful lines
converted, of the present call; that the tools the conversion knows are those whose
head was converted; and that nothing is sent before `firstSent`, which is why a
retry repeats nothing. `Over` adds that a stream which is closed after its message
began was stopped, so that the streams of `MCStreamStop.cfg`, which sent nothing at
all, are the only ones without a `message_stop`.

`TracesInv` has one part for each thing that could go wrong: no trace is stored
twice or stored and waiting (`Once`); whatever the page may count, in the counters
or the traces, is a call or a trace of today (`Counting`), so that a cell, which shows
the greater of the two, shows no more than its calls and the traces without one; a clear leaves nothing it covers in the
shards it has passed, so that what is saved behind its back is not counted as
cleared (`Passed`); what a computation must find has been read when its shard was, unless that
was passed over (`Reading`); and while nothing was lost the shards are filled one after another
(`Filling`), so that a shard that is emptied for reuse is one of a full ring.

The filters of the usage page rebuild the counts of models, keys and totals from one
another. Each is shown to leave the page as if the cells that do not pass had been
zero from the start (`ByModelPasses`, `ByKeyPasses`, `OnlyPasses`; `AggregatedPasses`
for all together), which of the sums needs only that a sum of zeros is zero
(`SumOfZeros`). The summary does the same where the chosen model has no failures
(`SummaryAggregates`), which is exactly what `MCUsageSummary.cfg` finds it to lack. For
the detail table, `ConcatInjective` and `UnsortedListing` say that the shards one behind
another list each stored trace once, `NewestFirstProperties` that the sort keeps that
and orders them, and `PagesInARow` that pages of any size, put together again, are the
list: an induction over the pages, whose bounds are those of `PageBounds`.

For the sessions, `SessionInv` says of each handler, at each of its waits, what it
holds: the lock when it renews, a session and an account when it sends (`ProcessOK`).
`Unmarked` extends `MarkNotStored` to the records a renewal works on, which it will
store. `Turns` is what a step of a handler may do to the book: nothing, save a session of the
account the handler is for, or clear that account. `TakesItsOwn` follows because this
account is settled before the handler waits or sends, and only the handler itself
changes it.

`BookAgrees` is not inductive: in the middle of an update the list is behind the
sessions. `BookInv` says it of the accounts that are calm (`Calm`: no update of them
under way, and the last one met no other); adds that what any update has read of a calm
account is still so (`Knows`), so that even a list that is written late is right about
it; and of an update that has met no other, that it is the only one under way and how
far it is (`OnItsWay`), so that its last call leaves its account calm. An update that
begins beside another takes both accounts out of the calm ones.

`AllOfOne` says of a page what it is read for: the account of its entry in the cache
is the one its request names or, when it names none, the current one. Every step keeps
that but a change of the current account under a page that names none, which is what
`Steady` excludes and what the run `panel` does. `PagesEnd` is for `RequestsEnd` what
`RequestsRunOut` is for the quota: a page has its fetches, a fetch up to eleven stages
(`Stage`, the wait for the storage included), and only the handler itself moves on. With `LocksAreGivenBack`, by which
whoever holds a lock is at the dashboard and not waiting for another, what is left to
TLC is that the steps are taken, the fairness of `FairSpec`.

For the preload, `Bounded` counts the tasks that the calls under way will still
create, and `Tracked` says that the order of access names exactly the cached
accounts, so that the eviction loop finds one to remove in every round.
`WaitingTasksAreKept` is about an enqueuing of many accounts, one after another:
`Comes` follows a task of the first queue through all of them, still queued
(`Still`) or given up while the queue is full and nothing that stays of it comes
later (`GivenUp`). Here a proof corrected the property: one call can raise the
priority of a task and give up another, so that a task has to be compared with the
tasks as they stay (`Stays`) and not as they were. The bounds of the run are too small
for such a call.

What a loop of the code computes (`Kept`, `Sublist`, `Sorted`, `Find`, `Least`,
`Without`, `Tries`, and the product `Cycle`) is written as a recursive function. The lemmas about them go by
induction with a set in the place of a predicate (`UpTo`), since the provers cannot
instantiate the theorems of the library that take one. The state of a
conversion closes its blocks in any order (`SetToSeq`), where the code closes them in
the order of their arrival: no property tells the two apart.

The sort of the detail table (`NewestFirst`) is written by the place each trace goes
to, which is what a stable sort computes. What the library computes by a recursive
function (`SumFunction`, `FlattenSeq`) is used through the same kind of induction.

Only model-checked: the liveness properties `RequestsAnswered`, `ChangesStored`,
`WrittenBack`, `Answered`, `Ends`, `RequestsEnd` and `KeptAlive`, and with them the
fairness they rest on, which are beyond the prover.

## Not modelled

- Payload conversion (`src/transform/*` but for the streamed events), pages,
  logs, prices, token counts and the data classes of models: no state, or
  presentation.
- What Redis, MongoDB and PostgreSQL do inside: the cache needs of a backend only
  that a write is whole or fails, and of the file that a crash may leave it
  truncated.
- The precedence of environment variables in `config.py`.
- Saving and loading of statistics: a change within the throttle of 30 s is
  written by the next call or at shutdown; what a crash loses of the counters is
  in `UsageTraces`.
- The save of the key table, five writes one after another, of which a crash may
  leave some: one step in `KeyTable`.
- The replacement of a shared HTTP client whose proxy changed: one assignment,
  and network calls.
- The tool fall-backs for Claude models, which change what is sent and not when.
- The filters of the detail table, durations and percentiles.
- `task_manager.py` beyond the order of the shutdown that the savers and the
  cache see.

`PROJECT.json` lists every component with its status and every hazard with the
properties about it.
