----------------------------- MODULE UsageTraces -----------------------------
(***************************************************************************)
(* What the panel shows of past requests: the traces that                  *)
(* src/src/stats/performance_tracker.py keeps in a ring of shards, the     *)
(* statistics computed from them, and the usage pages of                   *)
(* src/src/api/admin_routes.py, which take the counters of the key         *)
(* statistics and fill in what only the traces know.                       *)
(*                                                                         *)
(* A counter of the key statistics is the set of the calls it counted: a   *)
(* request may make several, each with its own key and outcome.  A trace   *)
(* is its request; durations and tokens are left out.                      *)
(***************************************************************************)
EXTENDS Integers, Sequences, FiniteSets, FiniteSetsExt, SequencesExt

CONSTANTS
    Requests, Keys, Models,
    MaxShards,          \* MAX_SHARDS
    RecordsPerShard,    \* RECORDS_PER_SHARD
    MaxEvents           \* bound: days, failures, failed and repeated calls,
                        \* crashes, clears, computations

ASSUME TracesAssumption ==
    /\ IsFiniteSet(Requests) /\ IsFiniteSet(Keys) /\ IsFiniteSet(Models)
    /\ {"nobody", "all", "save"} \cap Keys = {}
    /\ MaxShards \in Nat \ {0} /\ RecordsPerShard \in Nat \ {0}
    /\ MaxEvents \in Nat

Shards == 0 .. MaxShards - 1
Nobody == "nobody"
All == "all"

VARIABLES
    call,       \* of each request, what its trace says of its last call
    phase,      \* how far each request is
    day,        \* the day the usage windows are of
    counted,    \* calls in the counters of the key statistics
    active,     \* active_traces
    waiting,    \* the tasks of _save_trace, in the order of the lock
    holder,     \* what holds _save_lock: a save, a clear, or nobody
    shards,     \* the stored shards
    manager,    \* the ShardManager
    meta,       \* perf_meta as stored
    reader,     \* a computation of the statistics under way
    events,     \* how many of those that MaxEvents bounds there were
    today,      \* history: calls and traces of the day, since a reset
    whole       \* history: nothing was cleared and nothing failed so far

storeVars == <<holder, shards, manager, meta>>
vars == <<call, phase, day, counted, active, waiting, storeVars, reader,
          events, today, whole>>

Unrecorded == -1
NoCall == [key |-> Nobody, model |-> Nobody, ok |-> TRUE,
           start |-> 0, day |-> Unrecorded, tries |-> 0]
Free == [task |-> Nobody, step |-> 0, reset |-> FALSE]
NewManager == [current |-> 0, counts |-> [s \in Shards |-> 0]]
NoReader == [next |-> MaxShards, got |-> {}, must |-> {}, skipped |-> {}]

Init ==
    /\ call = [r \in Requests |-> NoCall]
    /\ phase = [r \in Requests |-> "new"]
    /\ day = 0
    /\ counted = {} /\ active = {} /\ waiting = <<>>
    /\ holder = Free
    /\ shards = [s \in Shards |-> <<>>]
    /\ manager = NewManager /\ meta = NewManager
    /\ reader = NoReader
    /\ events = 0 /\ today = {} /\ whole = TRUE

Stored == UNION {Range(shards[s]) : s \in Shards}

-----------------------------------------------------------------------------
(* Requests.  A call is counted by record_call with its own outcome; the   *)
(* trace has the key of the last call and the outcome that its end passes. *)

CallOf(r, k, m, ok) ==
    [req |-> r, n |-> call[r].tries + 1, key |-> k, model |-> m, ok |-> ok]
TraceOf(r) ==
    [req |-> r, n |-> 0, key |-> call[r].key, model |-> call[r].model, ok |-> call[r].ok]

ModelsOf(r) == IF phase[r] = "new" THEN Models ELSE {call[r].model}
StartOf(r) == IF phase[r] = "new" THEN day ELSE call[r].start
CalledWith(r, k, m, ok, recordedAt) ==
    [key |-> k, model |-> m, ok |-> ok, start |-> StartOf(r), day |-> recordedAt,
     tries |-> call[r].tries + 1]

\* A call that raises and is tried again: each is counted as a failure.
\* Those that are tried again on a status are not counted.
Raise(r) ==
    /\ phase[r] \in {"new", "trying", "streaming"} /\ events < MaxEvents
    /\ events' = events + 1
    /\ \E k \in Keys, m \in ModelsOf(r) :
         /\ counted' = counted \cup {CallOf(r, k, m, FALSE)}
         /\ today' = today \cup {CallOf(r, k, m, FALSE)}
         /\ call' = [call EXCEPT ![r] = CalledWith(r, k, m, call[r].ok, call[r].day)]
    /\ phase' = [phase EXCEPT ![r] = IF @ = "streaming" THEN @ ELSE "trying"]
    /\ active' = active \cup {r}
    /\ UNCHANGED <<day, waiting, storeVars, reader, whole>>

\* record_call counts a success or a failure; a refusal, for want of a key or
\* at the headers of a stream, is not counted.
RecordCall(r, k, m, outcome) ==
    IF outcome = "refusal" THEN {} ELSE {CallOf(r, k, m, outcome = "success")}

\* What is sent is an answer, the stream from upstream, whose usage is of this
\* moment, or a stream made of an answer: the trace of either stream ends as a
\* success whatever the call came to.
Called(r, k, m, outcome, sent) ==
    /\ counted' = counted \cup RecordCall(r, k, m, outcome)
    /\ today' = today \cup RecordCall(r, k, m, outcome)
    /\ call' = [call EXCEPT ![r] =
                   CalledWith(r, k, m, outcome = "success" \/ sent # "answer",
                       IF outcome = "success" /\ sent = "stream" THEN day ELSE call[r].day)]
    /\ phase' = [phase EXCEPT ![r] = IF sent = "answer" THEN "called" ELSE "streaming"]

\* The last upstream call of the request, or, before the first byte of a
\* stream, one more.
Call(r) ==
    /\ phase[r] \in {"new", "trying", "streaming"}
    /\ \E k \in Keys \cup {Nobody}, m \in ModelsOf(r),
          outcome \in {"success", "failure", "refusal"}, sent \in {"answer", "stream", "made"} :
         /\ k \in Keys \/ (outcome = "refusal" /\ k = call[r].key)
         /\ phase[r] = "streaming" => sent # "answer"
         /\ IF outcome = "success" /\ phase[r] # "streaming" THEN UNCHANGED events
            ELSE events < MaxEvents /\ events' = events + 1
         /\ Called(r, k, m, outcome, sent)
    /\ active' = active \cup {r}
    /\ UNCHANGED <<day, waiting, storeVars, reader, whole>>

UnderWay(r) == phase[r] \in {"trying", "called", "streaming"}

\* end_trace.  The usage of a stream from upstream is of the moment it was
\* recorded, that of any other request of its end.
End(r) ==
    /\ phase[r] \in {"called", "streaming"}
    /\ phase' = [phase EXCEPT ![r] = "ended"]
    /\ call' = [call EXCEPT ![r].day = IF @ = Unrecorded THEN day ELSE @]
    /\ today' = IF call'[r].day = day THEN today \cup {TraceOf(r)} ELSE today
    /\ IF r \in active
       THEN active' = active \ {r} /\ waiting' = Append(waiting, r)
       ELSE UNCHANGED <<active, waiting>>
    /\ UNCHANGED <<day, counted, storeVars, reader, events, whole>>

\* An answer that cannot be converted, or a request given up: the trace is
\* never ended.
Leave(r) ==
    /\ UnderWay(r)
    /\ phase' = [phase EXCEPT ![r] = "left"]
    /\ UNCHANGED <<call, day, counted, active, waiting, storeVars, reader, events, today, whole>>

-----------------------------------------------------------------------------
(* Saving, under the lock.                                                 *)

\* A shard left only when it holds more than it may.
NextShardLate(m) ==
    IF m.counts[m.current] > RecordsPerShard THEN (m.current + 1) % MaxShards ELSE m.current

NextShard(m) ==
    IF m.counts[m.current] >= RecordsPerShard THEN (m.current + 1) % MaxShards ELSE m.current

Kept(records) ==
    IF Len(records) > RecordsPerShard
    THEN SubSeq(records, Len(records) - RecordsPerShard + 1, Len(records))
    ELSE records

SaveShard ==
    /\ holder = Free /\ waiting # <<>>
    /\ LET s == NextShard(manager)
           records == Kept(Append(shards[s], Head(waiting)))
       IN  /\ shards' = [shards EXCEPT ![s] = records]
           /\ manager' = [manager EXCEPT !.current = s, !.counts[s] = Len(records)]
    /\ holder' = [Free EXCEPT !.task = "save"]
    /\ waiting' = Tail(waiting)
    /\ UNCHANGED <<call, phase, day, counted, active, meta, reader, events, today, whole>>

SaveMeta ==
    /\ holder.task = "save"
    /\ meta' = manager
    /\ holder' = Free
    /\ UNCHANGED <<call, phase, day, counted, active, waiting, shards, manager, reader,
                   events, today, whole>>

\* The storage fails at the shard, after the shard was chosen, or at the meta.
SaveFails ==
    /\ events < MaxEvents
    /\ events' = events + 1
    /\ whole' = FALSE
    /\ \/ /\ holder = Free /\ waiting # <<>>
          /\ manager' = [manager EXCEPT !.current = NextShard(manager)]
          /\ waiting' = Tail(waiting)
          /\ UNCHANGED holder
       \/ /\ holder.task = "save"
          /\ holder' = Free
          /\ UNCHANGED <<manager, waiting>>
    /\ UNCHANGED <<call, phase, day, counted, active, shards, meta, reader, today>>

-----------------------------------------------------------------------------
(* The administrator: a reset of the usage is that of the counters and     *)
(* then a clear of the traces; the traces may also be cleared alone.       *)

Of(k, x) == k = All \/ x.key = k

Reset(k) ==
    /\ holder = Free /\ events < MaxEvents
    /\ events' = events + 1
    /\ counted' = {x \in counted : ~Of(k, x)}
    /\ today' = {x \in today : x.n = 0 \/ ~Of(k, x)}
    /\ holder' = [task |-> k, step |-> 0, reset |-> TRUE]
    /\ whole' = FALSE
    /\ UNCHANGED <<call, phase, day, active, waiting, shards, manager, meta, reader>>

Clear ==
    /\ holder = Free /\ events < MaxEvents
    /\ events' = events + 1
    /\ holder' = [Free EXCEPT !.task = All]
    /\ whole' = FALSE
    /\ UNCHANGED <<call, phase, day, counted, active, waiting, shards, manager, meta, reader, today>>

Clearing == holder.task \in Keys \cup {All}

\* The elements of a list that are in a set, in order: SelectSeq, written so
\* that it can be proved about.
Sublist(list, set) ==
    LET sub[i \in 0 .. Len(list)] ==
          IF i = 0 THEN <<>>
          ELSE IF list[i] \in set THEN Append(sub[i - 1], list[i]) ELSE sub[i - 1]
    IN  sub[Len(list)]

ClearShard ==
    /\ Clearing /\ holder.step < MaxShards
    /\ LET s == holder.step
           left == Sublist(shards[s], {r \in Requests : ~Of(holder.task, call[r])})
       IN  /\ shards' = [shards EXCEPT ![s] = left]
           /\ manager' = IF left = shards[s] \/ holder.task = All THEN manager
                         ELSE [manager EXCEPT !.counts[s] = Len(left)]
    /\ holder' = [holder EXCEPT !.step = @ + 1]
    /\ UNCHANGED <<call, phase, day, counted, active, waiting, meta, reader, events,
                   today, whole>>

\* A reset covers the traces of the requests of which nothing is under way.
Settled(r) == phase[r] \in {"ended", "left"} /\ r \notin Range(waiting)

\* clear_for_key writes perf_meta only when it removed something, which
\* changes it to what it is.
ClearMeta ==
    /\ Clearing /\ holder.step = MaxShards
    /\ manager' = IF holder.task = All THEN NewManager ELSE manager
    /\ meta' = manager'
    /\ today' = IF holder.reset
                THEN {x \in today : x.n > 0 \/ ~Settled(x.req) \/ ~Of(holder.task, x)}
                ELSE today
    /\ holder' = Free
    /\ UNCHANGED <<call, phase, day, counted, active, waiting, shards, reader, events, whole>>

-----------------------------------------------------------------------------
(* get_stats: the shards are read one after another.                       *)

ReadBegins ==
    /\ reader = NoReader /\ events < MaxEvents
    /\ events' = events + 1
    /\ reader' = [NoReader EXCEPT !.next = 0, !.must = Stored]
    /\ UNCHANGED <<call, phase, day, counted, active, waiting, storeVars, today, whole>>

\* Only the shards that hold something by the counts.
ReadShardsCounted(m) == {s \in Shards : m.counts[s] > 0}

\* Every fixed shard is read, whatever the counts say.
ReadShards(m) == Shards

ReadShard ==
    /\ reader.next < MaxShards
    /\ reader' = [reader EXCEPT !.next = @ + 1,
                     !.got = IF reader.next \in ReadShards(manager)
                             THEN @ \cup Range(shards[reader.next]) ELSE @]
    /\ UNCHANGED <<call, phase, day, counted, active, waiting, storeVars, events, today, whole>>

\* A shard that cannot be read is logged and passed over.
ReadFails ==
    /\ reader.next < MaxShards /\ events < MaxEvents
    /\ events' = events + 1
    /\ reader' = [reader EXCEPT !.next = @ + 1, !.skipped = @ \cup {reader.next}]
    /\ UNCHANGED <<call, phase, day, counted, active, waiting, storeVars, today, whole>>

ReadEnds ==
    /\ reader # NoReader /\ reader.next = MaxShards
    /\ reader' = NoReader
    /\ UNCHANGED <<call, phase, day, counted, active, waiting, storeVars, events, today, whole>>

-----------------------------------------------------------------------------
(* The usage page.  Counts of successes and failures per key and model:    *)
(* those of the counters, those of the traces of the day, and the greater  *)
(* of the two.                                                             *)

CellOf(items, k, m, ok) == {x \in items : x.key = k /\ x.model = m /\ x.ok = ok}

CountsOf(items) ==
    [k \in Keys |-> [m \in Models |-> [ok \in BOOLEAN |-> Cardinality(CellOf(items, k, m, ok))]]]

InWindow(r) == call[r].day = day

\* Both added up.
MergeSum(stats, traces) ==
    [k \in Keys |-> [m \in Models |-> [ok \in BOOLEAN |-> stats[k][m][ok] + traces[k][m][ok]]]]

Merge(stats, traces) ==
    [k \in Keys |-> [m \in Models |-> [ok \in BOOLEAN |->
        Max({stats[k][m][ok], traces[k][m][ok]})]]]

Traced == {TraceOf(r) : r \in {q \in Stored : InWindow(q)}}
Page == Merge(CountsOf(counted), CountsOf(Traced))

\* What is shown of the counts in cells: those of each model, and in all.
Shown(cells) ==
    LET models == [m \in Models |-> [ok \in BOOLEAN |->
                      SumFunction([k \in Keys |-> cells[k][m][ok]])]]
    IN  [cells |-> cells, models |-> models,
         total |-> [ok \in BOOLEAN |-> SumFunction([m \in Models |-> models[m][ok]])]]

Zeroed(cells, kept) ==
    [k \in Keys |-> [m \in Models |-> [ok \in BOOLEAN |->
        IF <<k, m, ok>> \in kept THEN cells[k][m][ok] ELSE 0]]]

\* The filter by model keeps its line of the models as it was.
ByModel(v, model) ==
    [Shown(Zeroed(v.cells, Keys \X {model} \X BOOLEAN)) EXCEPT
        !.models = [m \in Models |-> [ok \in BOOLEAN |->
                       IF m = model THEN v.models[m][ok] ELSE 0]]]

\* In usage_summary the keys of a model have no failures.
ByModelSummed(v, model) ==
    [Shown(Zeroed(v.cells, Keys \X {model} \X {TRUE})) EXCEPT
        !.models = ByModel(v, model).models]

\* The models are not counted anew for the key.
ByKeyStale(v, key) ==
    [Shown(Zeroed(v.cells, {key} \X Models \X BOOLEAN)) EXCEPT !.models = v.models]

ByKey(v, key) == Shown(Zeroed(v.cells, {key} \X Models \X BOOLEAN))

Only(v, outcome) ==
    [cells |-> Zeroed(v.cells, Keys \X Models \X {outcome}),
     models |-> [m \in Models |-> [v.models[m] EXCEPT ![~outcome] = 0]],
     total |-> [v.total EXCEPT ![~outcome] = 0]]

\* Each filter is a set of one value, or empty.
Narrowed(view, key, outcome) ==
    LET fewer == IF key = {} THEN view ELSE ByKey(view, CHOOSE k \in key : TRUE)
    IN  IF outcome = {} THEN fewer ELSE Only(fewer, CHOOSE ok \in outcome : TRUE)

Aggregated(cells, model, key, outcome) ==
    LET all == Shown(cells)
    IN  Narrowed(IF model = {} THEN all ELSE ByModel(all, CHOOSE m \in model : TRUE),
                 key, outcome)

Summary(cells, model, key, outcome) ==
    LET all == Shown(cells)
    IN  Narrowed(IF model = {} THEN all ELSE ByModelSummed(all, CHOOSE m \in model : TRUE),
                 key, outcome)

-----------------------------------------------------------------------------
(* The detail table, newest request first, in pages; its filters are left   *)
(* out.                                                                    *)

\* list.sort with the newest first, which is stable: a trace goes where as
\* many precede it.
NewestFirst(l) ==
    LET start(i) == call[l[i]].start
        precedes(i, j) == start(i) > start(j) \/ (start(i) = start(j) /\ i < j)
        place(j) == Cardinality({i \in DOMAIN l : precedes(i, j)}) + 1
    IN  [p \in DOMAIN l |-> l[CHOOSE j \in DOMAIN l : place(j) = p]]

Listed == NewestFirst(FlattenSeq([s \in 1 .. MaxShards |-> shards[s - 1]]))

TotalPages(l, size) == Max({1, (Len(l) + size - 1) \div size})

\* Pages numbered from zero.
PageOfZero(l, page, size) ==
    LET p == Max({1, Min({page, TotalPages(l, size)})})
    IN  SubSeq(l, p * size + 1, Min({(p + 1) * size, Len(l)}))

\* A page beyond either end is the nearest there is.
PageOf(l, page, size) ==
    LET p == Max({1, Min({page, TotalPages(l, size)})})
    IN  SubSeq(l, (p - 1) * size + 1, Min({p * size, Len(l)}))

-----------------------------------------------------------------------------
(* The end of a day clears the counters; a crash loses what was in memory, *)
(* and of the counters what was not saved yet.                             *)

NewDay ==
    /\ events < MaxEvents
    /\ events' = events + 1
    /\ day' = day + 1
    /\ counted' = {} /\ today' = {}
    /\ UNCHANGED <<call, phase, active, waiting, storeVars, reader, whole>>

Crash ==
    /\ events < MaxEvents
    /\ events' = events + 1
    /\ whole' = FALSE
    /\ counted' \in SUBSET counted
    /\ active' = {} /\ waiting' = <<>> /\ holder' = Free
    /\ manager' = meta
    /\ reader' = NoReader
    /\ phase' = [r \in Requests |-> IF UnderWay(r) THEN "left" ELSE phase[r]]
    /\ UNCHANGED <<call, day, shards, meta, today>>

RequestStep(r) == Raise(r) \/ Call(r) \/ End(r) \/ Leave(r)
SaveStep == SaveShard \/ SaveMeta
AdminStep == (\E k \in Keys \cup {All} : Reset(k)) \/ Clear \/ ClearShard \/ ClearMeta
ReadStep == ReadBegins \/ ReadShard \/ ReadFails \/ ReadEnds

Next ==
    \/ \E r \in Requests : RequestStep(r)
    \/ SaveStep \/ SaveFails \/ AdminStep \/ ReadStep
    \/ NewDay \/ Crash

Spec == Init /\ [][Next]_vars

-----------------------------------------------------------------------------
(* Properties.                                                             *)

TypeOK ==
    /\ active \subseteq Requests
    /\ counted \cup today \subseteq [req : Requests, n : Nat, key : Keys \cup {Nobody},
                                   model : Models, ok : BOOLEAN]
    /\ Range(waiting) \subseteq Requests
    /\ holder \in [task : {Nobody, "save", All} \cup Keys, step : 0 .. MaxShards, reset : BOOLEAN]
    /\ \A s \in Shards : Len(shards[s]) <= RecordsPerShard /\ Range(shards[s]) \subseteq Requests
    /\ {manager, meta} \subseteq [current : Shards, counts : [Shards -> 0 .. RecordsPerShard]]
    /\ reader.next \in 0 .. MaxShards /\ reader.skipped \subseteq Shards

\* The page counts nothing twice, through retries, restarts, resets of single
\* keys and the end of a day: in each cell it shows at most the calls of the
\* day and the traces of the day whose request has no call there ("Backfill
\* display usage stats from request traces without double-counting",
\* _merge_trace_usage_summary).
AloneIn(traces, calls) == {x \in traces : \A y \in calls : y.req # x.req}

CountedOnce ==
    \A k \in Keys, m \in Models, ok \in BOOLEAN :
        LET items == CellOf(today, k, m, ok)
            calls == {x \in items : x.n > 0}
        IN  Page[k][m][ok] <= Cardinality(calls) + Cardinality(AloneIn(items \ calls, calls))

\* Not so for both outcomes together: a call counted as a failure whose trace
\* ends as a success is shown as one of each (MCUsageTwice.cfg).
OutcomesCountedOnce ==
    \A k \in Keys, m \in Models :
        LET items == {x \in today : x.key = k /\ x.model = m}
            calls == {x \in items : x.n > 0}
        IN  Page[k][m][TRUE] + Page[k][m][FALSE]
              <= Cardinality(calls) + Cardinality(AloneIn(items \ calls, calls))

\* Under every combination of its filters the usage page adds up: the counts
\* of the models and the total are those of the keys it shows, and all of the
\* counts that pass the filters are there (usage_aggregated: "确保总调用数与
\* 详情统计保持一致").  What is under way has no part in it, so it is asked
\* when nothing is.
Resting == holder = Free /\ reader = NoReader /\ waiting = <<>> /\ active = {}
Filters(S) == {{}} \cup {{x} : x \in S}
Narrow(filter, S) == IF filter = {} THEN S ELSE filter
Passing(cells, model, key, outcome) ==
    Shown(Zeroed(cells, Narrow(key, Keys) \X Narrow(model, Models) \X Narrow(outcome, BOOLEAN)))

FiltersAddUp ==
    Resting => LET page == Page
               IN  \A model \in Filters(Models), key \in Filters(Keys), outcome \in Filters(BOOLEAN) :
                      Aggregated(page, model, key, outcome) = Passing(page, model, key, outcome)

\* The same of usage_summary, which answers the same question.
SummaryAddsUp ==
    Resting => LET page == Page
               IN  \A model \in Filters(Models), key \in Filters(Keys), outcome \in Filters(BOOLEAN) :
                      Summary(page, model, key, outcome) = Passing(page, model, key, outcome)

\* A trace is dropped only to make room: as long as nothing was cleared and
\* nothing failed, when every shard is full (get_next_write_shard).
DroppedOnlyWhenFull ==
    [][ whole' /\ ~(Stored \subseteq Stored')
        => Cardinality(Stored) = MaxShards * RecordsPerShard ]_vars

\* Statistics miss no trace that was stored when their computation began and
\* is still there, unless its shard could not be read, though the shards are
\* read one by one while traces are saved and cleared, and the counts of the
\* shards may be those of before a crash (_load_all_traces).
StatsMissNothing ==
    reader.next = MaxShards =>
        reader.must \cap Stored
            \subseteq reader.got \cup UNION {Range(shards[s]) : s \in reader.skipped}

\* The pages of the detail table show every stored trace once, newest first,
\* for every size of the page, and the page after the last is the last
\* (get_traces_paginated).
PagesPartition ==
    LET l == Listed
    IN  /\ IsInjective(l) /\ Range(l) = Stored
        /\ \A i, j \in DOMAIN l : i < j => call[l[i]].start >= call[l[j]].start
        /\ \A size \in 1 .. Len(l) :
             LET n == TotalPages(l, size)
             IN  /\ FlattenSeq([p \in 1 .. n |-> PageOf(l, p, size)]) = l
                 /\ PageOf(l, n, size) # <<>> /\ PageOf(l, n + 1, size) = PageOf(l, n, size)
=============================================================================
